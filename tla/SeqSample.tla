------------------------------ MODULE SeqSample ------------------------------
(***************************************************************************)
(* print_adjacency_sample_from_file and print_small_graph_from_file        *)
(* (src/src/graph_stats.cpp): the two samplers of layouts A and B.  Both   *)
(* walk the records of the graph from `offset` like the stats scan, but    *)
(* stop after num_nodes records.  The adjacency sample prints one row per  *)
(* record as it goes and reads only the neighbor ids it shows, seeking     *)
(* past the rest; the small graph reads every neighbor id, builds the      *)
(* out-lists and the referenced_by lists of the nodes in the sample, and   *)
(* prints them after the loop.                                             *)
(*                                                                         *)
(* The file is the one of SeqScan.  A row is kept as [id, shown, more,     *)
(* total, refby]: the node label, the neighbor ids printed, whether the    *)
(* ", ... (k total)" indicator follows and with which k, and (small graph  *)
(* only) the referenced_by list.  The text around them is left out.        *)
(***************************************************************************)
EXTENDS SeqScan

CONSTANTS
  Modes,        (* "adjacency", "small": which of the two functions runs    *)
  SampleSizes,  (* num_nodes                                                *)
  MaxShowns     (* max_neighbors_per_node; 0 means no cap                   *)

VARIABLES
  mode,      (* the function called                                        *)
  N,         (* num_nodes as the call passes it; truncated after the loop  *)
  maxShown,  (* max_neighbors_per_node                                     *)
  node_id,   (* records taken so far                                       *)
  outN,      (* out_nbrs: node -> neighbor ids read (small graph)          *)
  inN,       (* in_nbrs: node -> referencing nodes (small graph)           *)
  rows       (* the rows printed, in order                                 *)

svars == <<mode, N, maxShown, node_id, outN, inN, rows>>
allvars == <<vars, svars>>

(* to_show: the cap applies only when it is positive and exceeded.         *)
ToShowNoZeroGuard(k, m) == IF k > m THEN m ELSE k

ToShow(k, m) == IF m > 0 /\ k > m THEN m ELSE k

(* A printed row: the first to_show ids, and the indicator when k exceeds  *)
(* to_show.                                                                *)
Row(id, nbrs, k, m) ==
  [id |-> id, shown |-> SubSeq(nbrs, 1, ToShow(k, m)),
   more |-> k > ToShow(k, m), total |-> k, refby |-> <<>>]

(* Each id v < num_nodes of u's out-list appends u to in_nbrs[v].          *)
AddReverseEdgesSwapped(inn, u, nbrs, n) ==
  FoldLeft(LAMBDA m, v : IF v < n THEN [m EXCEPT ![u] = Append(@, v)] ELSE m,
           inn, nbrs)

AddReverseEdges(inn, u, nbrs, n) ==
  FoldLeft(LAMBDA m, v : IF v < n THEN [m EXCEPT ![v] = Append(@, u)] ELSE m,
           inn, nbrs)

(* A sampler call before it opens the file.                                *)
SampleStart ==
  /\ CallStart
  /\ node_id = 0
  /\ outN = <<>> /\ inN = <<>>
  /\ rows = <<>>

SInit ==
  /\ file \in Files /\ SampleStart
  /\ mode \in Modes /\ N \in SampleSizes /\ maxShown \in MaxShowns

(* std::vector<std::vector<uint32_t>>::max_size(), PTRDIFF_MAX / 24 with   *)
(* libstdc++.  It stands for a bound that every count of the models is far *)
(* below and ULONG_MAX is far above.                                       *)
MaxVectorSize == 2^30

(* print_adjacency_sample_from_file: the open, seek and header read fail  *)
(* or succeed exactly as in the scan (a message or nothing is printed on   *)
(* failure, the heading line on success).                                  *)
AdjOpen ==
  /\ mode = "adjacency"
  /\ OpenFails \/ OpenOk
  /\ UNCHANGED svars

(* print_small_graph_from_file: the same header read, then the             *)
(* construction of out_nbrs(num_nodes) and in_nbrs(num_nodes).             *)
SmallOpen ==
  /\ mode = "small"
  /\ \/ OpenFails /\ UNCHANGED svars
     \/ /\ OpenOk /\ N <= MaxVectorSize
        /\ outN' = [v \in 0 .. N - 1 |-> <<>>]
        /\ inN' = [v \in 0 .. N - 1 |-> <<>>]
        /\ UNCHANGED <<mode, N, maxShown, node_id, rows>>

(* The vector constructor throws std::length_error for a num_nodes above   *)
(* max_size(); nothing in the function catches it.                         *)
AllocThrows ==
  /\ pc = "open" /\ file.status = "ok"
  /\ mode = "small" /\ N > MaxVectorSize
  /\ pc' = "thrown"
  /\ UNCHANGED <<file, good, pos, bytes_read, nodes, acc, counted, s>>
  /\ UNCHANGED svars

(* The loop condition without the num_nodes test.                         *)
SLoopCondNoLimit == LoopCond

(* The loop condition without the bytes_read test.                        *)
SLoopCondNoSize == good /\ node_id < N

(* while (bytes_read != expected_file_size && node_id < num_nodes && good) *)
SLoopCond == LoopCond /\ node_id < N

(* The neighbor buffer a call is sure to get: one of at most              *)
(* kMaxReasonableDegree ids (40 MB).  Whether a larger one is granted      *)
(* depends on the machine, so the model lets its allocation fail.          *)
AllocSureWords == 10000000

(* std::vector<uint32_t> nbrs(k) for every record in both samplers.        *)
BufferWordsNoCap(k) == k

(* std::vector<uint32_t> nbrs(n) before the ids are read: n is to_show in  *)
(* the adjacency sample and the degree k in the small graph.               *)
BufferWords(k) == IF mode = "adjacency" THEN ToShow(k, maxShown) ELSE k

(* The buffer's constructor throws std::bad_alloc, which nothing in the    *)
(* function catches.                                                       *)
BufferThrows ==
  /\ pc = "loop" /\ SLoopCond
  /\ pos < Len(file.body)
  /\ BufferWords(file.body[pos + 1]) > AllocSureWords
  /\ pc' = "thrown"
  /\ UNCHANGED <<file, good, pos, bytes_read, nodes, acc, counted, s>>
  /\ UNCHANGED svars

(* The degree read fails: break.                                           *)
DegreeFails ==
  /\ pc = "loop" /\ SLoopCond
  /\ pos >= Len(file.body)
  /\ good' = FALSE
  /\ UNCHANGED <<file, pc, pos, bytes_read, nodes, acc, counted, s>>
  /\ UNCHANGED svars

(* Adjacency sample: read k and the first to_show ids; a short read of     *)
(* those breaks, the rest of the list is skipped with seekg.               *)
AdjRow ==
  /\ pc = "loop" /\ mode = "adjacency" /\ SLoopCond
  /\ pos < Len(file.body)
  /\ LET k == file.body[pos + 1]
         t == ToShow(k, maxShown)
     IN  /\ pos + 1 + t <= Len(file.body)
         /\ rows' = Append(rows, Row(node_id, SubSeq(file.body, pos + 2, pos + 1 + t), k, maxShown))
         /\ counted' = Append(counted, [at |-> pos + 1, deg |-> k])
         /\ pos' = pos + 1 + k
         /\ bytes_read' = bytes_read + RecordBytes(k)
  /\ node_id' = node_id + 1
  /\ UNCHANGED <<file, pc, good, nodes, acc, s, mode, N, maxShown, outN, inN>>

AdjNeighborsShort ==
  /\ pc = "loop" /\ mode = "adjacency" /\ SLoopCond
  /\ pos < Len(file.body)
  /\ pos + 1 + ToShow(file.body[pos + 1], maxShown) > Len(file.body)
  /\ good' = FALSE
  /\ UNCHANGED <<file, pc, pos, bytes_read, nodes, acc, counted, s>>
  /\ UNCHANGED svars

(* Small graph: read k and all k ids into out_nbrs[node_id], record the    *)
(* reverse edges inside the sample; a short read breaks.                   *)
SmallRecord ==
  /\ pc = "loop" /\ mode = "small" /\ SLoopCond
  /\ pos < Len(file.body)
  /\ LET k == file.body[pos + 1]
         nbrs == SubSeq(file.body, pos + 2, pos + 1 + k)
     IN  /\ pos + 1 + k <= Len(file.body)
         /\ outN' = [outN EXCEPT ![node_id] = nbrs]
         /\ inN' = AddReverseEdges(inN, node_id, nbrs, N)
         /\ counted' = Append(counted, [at |-> pos + 1, deg |-> k])
         /\ pos' = pos + 1 + k
         /\ bytes_read' = bytes_read + RecordBytes(k)
  /\ node_id' = node_id + 1
  /\ UNCHANGED <<file, pc, good, nodes, acc, s, mode, N, maxShown, rows>>

SmallNeighborsShort ==
  /\ pc = "loop" /\ mode = "small" /\ SLoopCond
  /\ pos < Len(file.body)
  /\ pos + 1 + file.body[pos + 1] > Len(file.body)
  /\ good' = FALSE
  /\ UNCHANGED <<file, pc, pos, bytes_read, nodes, acc, counted, s>>
  /\ UNCHANGED svars

(* After the loop.  The adjacency sample has printed everything.  The     *)
(* small graph truncates its lists to the node_id records read and prints  *)
(* one row per node with its referenced_by list.                           *)
SDone ==
  /\ pc = "loop" /\ ~SLoopCond
  /\ pc' = "done"
  /\ LET n == IF node_id < N THEN node_id ELSE N IN
       /\ N' = n
       /\ rows' = IF mode = "adjacency" THEN rows
                  ELSE [i \in 1 .. n |->
                          [Row(i - 1, outN[i - 1], Len(outN[i - 1]), maxShown)
                             EXCEPT !.refby = inN[i - 1]]]
  /\ UNCHANGED <<file, good, pos, bytes_read, nodes, acc, counted, s>>
  /\ UNCHANGED <<mode, maxShown, node_id, outN, inN>>

SNext ==
  \/ AdjOpen \/ SmallOpen \/ AllocThrows \/ DegreeFails \/ BufferThrows
  \/ AdjRow \/ AdjNeighborsShort \/ SmallRecord \/ SmallNeighborsShort \/ SDone

SSpec == SInit /\ [][SNext]_allvars /\ WF_allvars(SNext)

-----------------------------------------------------------------------------
(* The ids of the record counted[i] as the file holds them.                *)
RecordIds(i) ==
  SubSeq(file.body, counted[i].at + 1, counted[i].at + counted[i].deg)

(* How many ids the spec (sections 4.5 and 8) says a row shows: all of     *)
(* them when max_neighbors is 0, else at most max_neighbors.               *)
ShownCount(k, m) == IF m = 0 THEN k ELSE Min({m, k})

(* Both samplers: the i-th row printed is node i-1 and shows the first ids *)
(* of the i-th record of the file, as many as the cap allows, followed by  *)
(* the "... (k total)" indicator exactly when ids were left out.           *)
RowsShowRecords ==
  pc = "done" =>
    /\ Len(rows) = Len(counted)
    /\ \A i \in DOMAIN rows :
         LET r == rows[i] IN
         /\ r.id = i - 1
         /\ Len(r.shown) = ShownCount(counted[i].deg, maxShown)
         /\ r.shown = SubSeq(file.body, counted[i].at + 1,
                             counted[i].at + Len(r.shown))
         /\ r.more = (Len(r.shown) < counted[i].deg)
         /\ r.more => r.total = counted[i].deg

(* Small graph: the referenced_by list of node v lists, in increasing      *)
(* order, every node u of the sample once per occurrence of v in u's       *)
(* out-list in the file, and no other node.                                *)
ReferencedByExact ==
  (pc = "done" /\ mode = "small") =>
    \A i \in DOMAIN rows :
      /\ IsSorted(rows[i].refby, <=)
      /\ \A u \in 0 .. Len(rows) - 1 :
           Len(SelectSeq(rows[i].refby, LAMBDA x : x = u))
             = Len(SelectSeq(RecordIds(u + 1), LAMBDA x : x = i - 1))
      /\ \A j \in DOMAIN rows[i].refby : rows[i].refby[j] < Len(rows)

(* A sampler as a record walk (RecordWalk) limited to num_nodes records.   *)
SampleWalk == INSTANCE RecordWalk
                WITH body <- file.body, size <- file.expected, limit <- N,
                     yielded <- counted, stopped <- (pc = "done")

(* Both samplers implement the record walk: each record read starts where  *)
(* the previous one ends, none is read past the header's size or beyond    *)
(* num_nodes, and a sampler stops only at the size, at num_nodes, or at a  *)
(* record the file does not hold.                                          *)
SampleRefinesWalk == SampleWalk!Spec

(* Section 4.3: the samplers stop at a read that fails mid-record and      *)
(* print nothing of it: every row is a record that lies whole in the file. *)
RowsAreWholeRecords ==
  \A i \in DOMAIN rows : counted[i].at + counted[i].deg <= Len(file.body)

=============================================================================
