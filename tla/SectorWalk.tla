----------------------------- MODULE SectorWalk -----------------------------
(***************************************************************************)
(* The page walk of layout C as spec sections 4.4 and 8 describe it, apart *)
(* from any one reader.  The body is a run of 4096-byte pages after the    *)
(* body offset; page p holds the records of node ids p * nps .. p * nps +  *)
(* nps - 1 that exist, and ceil(n_nodes / nps) pages hold them all.  A     *)
(* reader reads the pages in order, once each, and takes from each page a  *)
(* prefix of its node ids: a record whose degree field would overrun the   *)
(* page ends what is readable of that page, and a reader with a limit     *)
(* stops taking nodes once it has that many.                               *)
(*                                                                         *)
(* The walk stops at the last page, at a page the file does not hold, at   *)
(* the limit, or at once when the header is not accepted.  How long each   *)
(* page's prefix is (where the first record that does not fit lies) is     *)
(* left to the reader.                                                     *)
(***************************************************************************)
EXTENDS Naturals, Sequences

VARIABLES
  accepted,  (* the header resolved, passed the sanity check, nps > 0      *)
  nnodes,    (* n_nodes of the header                                      *)
  nps,       (* nnodes_per_sector                                          *)
  readable,  (* the whole pages the file holds after the body offset       *)
  limit,     (* how many nodes the reader takes at most                    *)
  page,      (* the next page to read                                      *)
  yielded,   (* the node ids taken, in order                               *)
  stopped    (* the walk has ended                                         *)

PageCount == (nnodes + nps - 1) \div nps

(* How many node ids page p holds: nps, or fewer on the last page.         *)
PageLen(p) == IF (p + 1) * nps <= nnodes THEN nps ELSE nnodes - p * nps

(* The first k node ids of page p.                                         *)
PagePrefix(p, k) == [i \in 1 .. k |-> p * nps + i - 1]

Init == page = 0 /\ yielded = <<>> /\ stopped = FALSE

(* Read the next page and take a prefix of its node ids, no more than the  *)
(* limit leaves room for.                                                  *)
ReadPage ==
  /\ ~stopped /\ accepted
  /\ page < PageCount /\ page < readable /\ Len(yielded) < limit
  /\ \E k \in 0 .. PageLen(page) :
       /\ Len(yielded) + k <= limit
       /\ yielded' = yielded \o PagePrefix(page, k)
  /\ page' = page + 1
  /\ stopped' = FALSE

Stop ==
  /\ ~stopped
  /\ \/ ~accepted
     \/ page >= PageCount \/ page >= readable \/ Len(yielded) >= limit
  /\ stopped' = TRUE
  /\ UNCHANGED <<page, yielded>>

Next == ReadPage \/ Stop

Spec == Init /\ [][Next]_<<page, yielded, stopped>>

=============================================================================
