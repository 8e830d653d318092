----------------------------- MODULE RecordWalk -----------------------------
(***************************************************************************)
(* The record iterator of layouts A and B as the spec (sections 4.3 and 9) *)
(* describes it, apart from any one reader: starting after the 24-byte     *)
(* header, yield (offset, degree) of the next record, whose offset follows *)
(* from the previous record's degree, and stop.                            *)
(*                                                                         *)
(* A walk may yield a record while its degree word is in the file, the     *)
(* header's size is not yet reached and fewer than `limit` records were    *)
(* yielded.  It may stop when the size is reached, the limit is reached,   *)
(* the degree word is missing, or the neighbor list is not wholly in the   *)
(* file.  Whether a reader yields or stops on a record whose list is cut   *)
(* is left open: the stats scan yields it, the small graph stops.          *)
(***************************************************************************)
EXTENDS Naturals, Sequences

VARIABLES
  body,     (* the u32 words after the header                              *)
  size,     (* the header's expected_file_size                             *)
  limit,    (* how many records the reader takes at most                   *)
  yielded,  (* the records yielded: [at |-> word index, deg |-> degree]    *)
  stopped   (* the walk has ended                                          *)

HeaderBytes == 24

(* The word index of the next record's degree.                             *)
NextAt ==
  IF yielded = <<>> THEN 1
  ELSE yielded[Len(yielded)].at + 1 + yielded[Len(yielded)].deg

AtSize == HeaderBytes + 4 * (NextAt - 1) = size
HasDegree == NextAt <= Len(body)
ListInFile == HasDegree /\ NextAt + body[NextAt] <= Len(body)

Init == yielded = <<>> /\ stopped = FALSE

Yield ==
  /\ ~stopped /\ ~AtSize /\ Len(yielded) < limit /\ HasDegree
  /\ yielded' = Append(yielded, [at |-> NextAt, deg |-> body[NextAt]])
  /\ stopped' = FALSE

Stop ==
  /\ ~stopped
  /\ AtSize \/ Len(yielded) >= limit \/ ~ListInFile
  /\ stopped' = TRUE
  /\ yielded' = yielded

Next == Yield \/ Stop

Spec == Init /\ [][Next]_<<yielded, stopped>>

=============================================================================
