------------------------------ MODULE SeqScan -------------------------------
(***************************************************************************)
(* compute_graph_stats_from_file (src/src/graph_stats.cpp): the single    *)
(* forward pass over the variable-length records of layout A (raw graph   *)
(* file, offset 0) and layout B (single-file index, graph at offset 4096). *)
(*                                                                         *)
(* The file is seen from `offset` on: a 24-byte header                     *)
(* (expected_file_size, width, ep, num_frozen_pts) and a body of u32       *)
(* words.  A record is a degree word k followed by k neighbor-id words;    *)
(* the body may end anywhere (truncation) and may go on past the graph     *)
(* (the rest of a single-file index).  A trailing partial word reads like  *)
(* no word at all, so the body is kept at word granularity.                *)
(*                                                                         *)
(* One step is one iteration of the scan loop.  seekg past the end of an   *)
(* ifstream succeeds (the stream stays good), so skipping a neighbor list  *)
(* never fails; only the next read of a degree does.                       *)
(***************************************************************************)
EXTENDS GraphStats

CONSTANTS
  MaxWords,       (* the longest body, in u32 words                        *)
  Vals,           (* the values a body word may hold                       *)
  ExpectedSizes,  (* the header's expected_file_size values                *)
  EntryPoints,    (* the header's ep values                                *)
  FrozenCounts    (* the header's num_frozen_pts values                    *)

ASSUME MaxWords \in Nat /\ Vals \subseteq Nat /\ ExpectedSizes \subseteq Nat
ASSUME EntryPoints \subseteq Nat /\ FrozenCounts \subseteq Nat

kGraphHeaderSize == 24

(* What opening the file finds: it does not open, it is too short for the  *)
(* 24-byte header, or the header reads and a body follows.                 *)
Files ==
  {[status |-> st, expected |-> 0, ep |-> 0, frozen |-> 0, body |-> <<>>] :
      st \in {"unopened", "short"}}
  \cup
  [status : {"ok"}, expected : ExpectedSizes, ep : EntryPoints,
   frozen : FrozenCounts, body : BoundedSeq(Vals, MaxWords)]

VARIABLES
  file,        (* the bytes from `offset` on; never changes                *)
  pc,          (* "open", "loop" (the while loop) or "done" (returned)     *)
  good,        (* in.good()                                                *)
  pos,         (* words of the body the stream position is past            *)
  bytes_read,  (* the loop's running byte count                            *)
  nodes,       (* records counted                                          *)
  acc,         (* total_edges, degree_min, degree_max, weak_count          *)
  counted,     (* history: word index and degree of every counted record   *)
  s            (* the GraphStats being built and returned                  *)

vars == <<file, pc, good, pos, bytes_read, nodes, acc, counted, s>>

(* The state of a call before it opens the file.                          *)
CallStart ==
  /\ pc = "open"
  /\ good = TRUE
  /\ pos = 0
  /\ bytes_read = 0
  /\ nodes = 0
  /\ acc = AccInit
  /\ counted = <<>>
  /\ s = ZeroStats

Init == file \in Files /\ CallStart

(* The file does not open, or the header read comes up short: return the  *)
(* default stats.                                                          *)
OpenFails ==
  /\ pc = "open"
  /\ file.status # "ok"
  /\ pc' = "done"
  /\ good' = FALSE
  /\ UNCHANGED <<file, pos, bytes_read, nodes, acc, counted, s>>

(* The header is read; entry point and frozen count go into s at once.     *)
OpenOk ==
  /\ pc = "open"
  /\ file.status = "ok"
  /\ pc' = "loop"
  /\ bytes_read' = kGraphHeaderSize
  /\ s' = [s EXCEPT !.entry_point = file.ep, !.frozen_nodes = file.frozen]
  /\ UNCHANGED <<file, good, pos, nodes, acc, counted>>

(* The loop condition without the stream test.                             *)
LoopCondNoGood == bytes_read # file.expected

(* while (bytes_read != expected_file_size && in.good())                   *)
LoopCond == bytes_read # file.expected /\ good

(* A record's size counted without its degree word.                        *)
RecordBytesNoDegree(k) == 4 * k

(* bytes_read advances by the degree word and k neighbor ids.              *)
RecordBytes(k) == 4 + 4 * k

(* Read the degree k, fold it in, count the node, seek past k neighbor ids *)
(* and advance bytes_read by the record's size.                            *)
ReadRecord ==
  /\ pc = "loop"
  /\ LoopCond
  /\ pos < Len(file.body)
  /\ LET k == file.body[pos + 1] IN
       /\ acc' = Accumulate(acc, k, DefaultWeakThreshold)
       /\ nodes' = nodes + 1
       /\ counted' = Append(counted, [at |-> pos + 1, deg |-> k])
       /\ pos' = pos + 1 + k
       /\ bytes_read' = bytes_read + RecordBytes(k)
  /\ UNCHANGED <<file, pc, good, s>>

(* The degree read hits the end of the file: the stream fails, the loop   *)
(* breaks.                                                                 *)
ReadFails ==
  /\ pc = "loop"
  /\ LoopCond
  /\ pos >= Len(file.body)
  /\ good' = FALSE
  /\ UNCHANGED <<file, pc, pos, bytes_read, nodes, acc, counted, s>>

(* After the loop: fill in the counts and the degree summary.              *)
Finish ==
  /\ pc = "loop"
  /\ ~LoopCond
  /\ pc' = "done"
  /\ s' = [s EXCEPT
             !.total_nodes  = nodes,
             !.active_nodes = IF nodes >= file.frozen THEN nodes - file.frozen
                                                      ELSE 0,
             !.total_edges  = acc.edges,
             !.degree_min   = CollapseMin(acc.dmin),
             !.degree_avg   = Avg(acc.edges, nodes),
             !.degree_max   = acc.dmax,
             !.weak_count   = acc.weak]
  /\ UNCHANGED <<file, good, pos, bytes_read, nodes, acc, counted>>

Next == OpenFails \/ OpenOk \/ ReadRecord \/ ReadFails \/ Finish

(* The scan is a plain single-threaded loop: it keeps running while it    *)
(* can.                                                                    *)
Spec == Init /\ [][Next]_vars /\ WF_vars(Next)

-----------------------------------------------------------------------------
(***************************************************************************)
(* Reference: the record chain the header describes.  Tiles(b, i, e)       *)
(* holds when the records starting at word i end exactly at word e;        *)
(* ChainDegrees lists their degrees.                                       *)
(***************************************************************************)
RECURSIVE Tiles(_, _, _), ChainDegrees(_, _, _)
Tiles(b, i, e) ==
  IF i = e THEN TRUE
  ELSE IF i > e \/ i > Len(b) THEN FALSE
  ELSE Tiles(b, i + 1 + b[i], e)

ChainDegrees(b, i, e) ==
  IF i >= e \/ i > Len(b) THEN <<>>
  ELSE <<b[i]>> \o ChainDegrees(b, i + 1 + b[i], e)

(* The header's size is honest: the first m body words are whole records   *)
(* and 24 + 4m is what the header says.                                    *)
HonestWords ==
  {m \in 0 .. Len(file.body) :
     file.expected = kGraphHeaderSize + 4 * m /\ Tiles(file.body, 1, m + 1)}

-----------------------------------------------------------------------------
TypeOK ==
  /\ file \in Files
  /\ pc \in {"open", "loop", "done"}
  /\ good \in BOOLEAN
  /\ pos \in Nat /\ bytes_read \in Nat /\ nodes \in Nat
  /\ s \in StatsType

(* The loop ends on every file, even one whose header size is never met    *)
(* exactly (misaligned, or larger than the file): the stream fails at the  *)
(* end of the file and the while condition lets go.                        *)
Termination == <>(pc = "done")

(* When the header's size is honest, the scan counts exactly the records   *)
(* it describes, and nothing of the bytes that follow them in a            *)
(* single-file index: bytes_read must land on expected_file_size.          *)
HeaderSizeBoundsScan ==
  (pc = "done" /\ HonestWords # {}) =>
    LET ds == ChainDegrees(file.body, 1, (CHOOSE m \in HonestWords : TRUE) + 1)
    IN  /\ s.total_nodes = Len(ds)
        /\ AggregateOf(s, ds, DefaultWeakThreshold)

(* Whatever the bytes, the returned stats satisfy the GraphStats           *)
(* invariants: zero degree fields with no node, min <= avg <= max.         *)
ResultConsistent == pc = "done" => StatsConsistent(s)

(* Section 4.3: a read that fails mid-record stops the scan and only the   *)
(* nodes read so far are reported: every counted node's neighbor ids lie   *)
(* inside the file.                                                        *)
NoPartialRecordCounted ==
  \A i \in DOMAIN counted : counted[i].at + counted[i].deg <= Len(file.body)

(* The scan as a record walk (RecordWalk): the records it counts are the   *)
(* ones yielded, it takes every record it can, and it stops when it        *)
(* returns.                                                                *)
ScanWalk == INSTANCE RecordWalk
              WITH body <- file.body, size <- file.expected,
                   limit <- Len(file.body) + 1,
                   yielded <- counted, stopped <- (pc = "done")

(* The scan implements the record walk of the spec's iterator: each        *)
(* record counted starts where the previous one's neighbor list ends, none *)
(* is counted past the header's size, and it stops only at that size or   *)
(* at the end of the file.                                                 *)
ScanRefinesWalk == ScanWalk!Spec

=============================================================================
