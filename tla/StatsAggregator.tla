--------------------------- MODULE StatsAggregator --------------------------
(***************************************************************************)
(* compute_graph_stats (src/src/graph_stats.cpp): the statistics of an    *)
(* adjacency list already in memory.  Only the neighbor-list sizes enter   *)
(* the result, so the graph is kept as the sequence of its degrees.  One   *)
(* step is the set-up with its early return, one loop iteration, or the    *)
(* final fill-in.                                                          *)
(***************************************************************************)
EXTENDS GraphStats

CONSTANTS
  MaxNodes,        (* the longest adjacency list                           *)
  Degrees,         (* the sizes a neighbor list may have                   *)
  EntryPoints,     (* values of ep                                         *)
  FrozenCounts,    (* values of num_frozen_pts (0 or 1 per the header)     *)
  WeakThresholds   (* values of weak_threshold                             *)

ASSUME MaxNodes \in Nat /\ Degrees \subseteq Nat
ASSUME FrozenCounts \subseteq {0, 1} /\ WeakThresholds \subseteq Nat

(* The calls a caller can make: nd active points and num_frozen_pts frozen *)
(* ones, all of them positions of the graph (graph[i] is read for every    *)
(* i < nd + num_frozen_pts).                                               *)
Calls ==
  {c \in [graph : BoundedSeq(Degrees, MaxNodes), nd : 0 .. MaxNodes,
          frozen : FrozenCounts, ep : EntryPoints, wt : WeakThresholds] :
     c.nd + c.frozen <= Len(c.graph)}

VARIABLES
  call,   (* the arguments                                                 *)
  pc,     (* "start", "loop" or "done"                                     *)
  i,      (* the loop index                                                *)
  acc,    (* total_edges, degree_min, degree_max, weak_count               *)
  s       (* the GraphStats returned                                       *)

vars == <<call, pc, i, acc, s>>

Init ==
  /\ call \in Calls
  /\ pc = "start"
  /\ i = 0
  /\ acc = AccInit
  /\ s = ZeroStats

(* The counts and the entry point are stored first; with no node the      *)
(* function returns there.                                                 *)
StartFields ==
  [ZeroStats EXCEPT !.total_nodes  = call.nd + call.frozen,
                    !.active_nodes = call.nd,
                    !.frozen_nodes = call.frozen,
                    !.entry_point  = call.ep]

Start ==
  /\ pc = "start"
  /\ s' = StartFields
  /\ pc' = IF s'.total_nodes = 0 THEN "done" ELSE "loop"
  /\ UNCHANGED <<call, i, acc>>

(* for (i = 0; i < total_nodes; i++): fold graph[i].size() in.            *)
Step ==
  /\ pc = "loop"
  /\ i < s.total_nodes
  /\ acc' = Accumulate(acc, call.graph[i + 1], call.wt)
  /\ i' = i + 1
  /\ UNCHANGED <<call, pc, s>>

Finish ==
  /\ pc = "loop"
  /\ i >= s.total_nodes
  /\ pc' = "done"
  /\ s' = [s EXCEPT !.total_edges = acc.edges,
                    !.degree_min  = CollapseMin(acc.dmin),
                    !.degree_avg  = Avg(acc.edges, s.total_nodes),
                    !.degree_max  = acc.dmax,
                    !.weak_count  = acc.weak]
  /\ UNCHANGED <<call, i, acc>>

Next == Start \/ Step \/ Finish

Spec == Init /\ [][Next]_vars

-----------------------------------------------------------------------------
TypeOK ==
  /\ call \in Calls
  /\ pc \in {"start", "loop", "done"}
  /\ i \in 0 .. MaxNodes
  /\ s \in StatsType

(* The degrees the result is about: the first nd + num_frozen_pts lists.   *)
Counted == SubSeq(call.graph, 1, call.nd + call.frozen)

(* Section 4.1 and the first property of section 8: the loop computes the  *)
(* aggregate of the counted degrees (sum, minimum with the empty case      *)
(* collapsed to 0, maximum, number below the threshold) and the result     *)
(* satisfies min <= avg <= max.                                            *)
StatsMatchDegrees ==
  pc = "done" =>
    /\ s.total_nodes = Len(Counted)
    /\ AggregateOf(s, Counted, call.wt)
    /\ StatsConsistent(s)

(* Section 4.1: degenerate input (total_nodes = 0) yields all-zero stats,  *)
(* the entry point included.                                               *)
ZeroNodesAllZero ==
  (pc = "done" /\ s.total_nodes = 0) => s = ZeroStats

=============================================================================
