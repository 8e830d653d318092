----------------------------- MODULE GraphStats -----------------------------
(***************************************************************************)
(* The GraphStats result of src/include/graph_stats.h and the per-node     *)
(* aggregation that every stats path of src/src/graph_stats.cpp repeats:   *)
(* the in-memory compute_graph_stats, the sequential file scan and the     *)
(* sector-paged disk-index scan.  The scanners EXTEND this module.         *)
(*                                                                         *)
(* degree_avg is a double computed as total_edges / n.  It is kept as the  *)
(* exact quotient [num |-> total_edges, den |-> n]: for the small integers *)
(* of the models the division is correctly rounded, and rounding is        *)
(* monotone, so every comparison of the average with an integer degree     *)
(* gives the same answer on the quotient as on the double.                 *)
(***************************************************************************)
EXTENDS Naturals, Sequences, FiniteSets, SequencesExt

(* std::numeric_limits<size_t>::max(), the "no minimum yet" sentinel.      *)
(* Every degree of the models is far below it.                             *)
SizeMax == 2147483647

(* The default weak threshold of the header and the constant              *)
(* weak_threshold = 2 of both file-backed scans.                           *)
DefaultWeakThreshold == 2

(* A division with its operands swapped, the average's denominator being  *)
(* the edge count.                                                         *)
AvgSwapped(edges, n) == IF n = 0 THEN [num |-> 0, den |-> 1]
                                 ELSE [num |-> n, den |-> edges]

(* static_cast<double>(edges) / static_cast<double>(n); 0.0 when n = 0.   *)
Avg(edges, n) == IF n = 0 THEN [num |-> 0, den |-> 1]
                          ELSE [num |-> edges, den |-> n]

(* A default-constructed GraphStats s;                                     *)
ZeroStats ==
  [ total_nodes |-> 0, active_nodes |-> 0, frozen_nodes |-> 0,
    total_edges |-> 0, degree_min |-> 0, degree_avg |-> Avg(0, 0),
    degree_max |-> 0, weak_count |-> 0, entry_point |-> 0 ]

(* The running totals of the aggregation loop before its first node.       *)
AccInit == [edges |-> 0, dmin |-> SizeMax, dmax |-> 0, weak |-> 0]

(* The fold with a weak test of deg <= wt instead of deg < wt.             *)
AccumulateWeakLe(acc, deg, wt) ==
  [ acc EXCEPT !.edges = @ + deg,
               !.dmin  = IF deg < @ THEN deg ELSE @,
               !.dmax  = IF deg > @ THEN deg ELSE @,
               !.weak  = IF deg <= wt THEN @ + 1 ELSE @ ]

(* One node of degree deg folded into the running totals.                  *)
Accumulate(acc, deg, wt) ==
  [ acc EXCEPT !.edges = @ + deg,
               !.dmin  = IF deg < @ THEN deg ELSE @,
               !.dmax  = IF deg > @ THEN deg ELSE @,
               !.weak  = IF deg < wt THEN @ + 1 ELSE @ ]

(* The minimum returned as is, sentinel included.                          *)
CollapseMinKeepSentinel(dmin) == dmin

(* The sentinel minimum collapsed to 0 when no node was seen.              *)
CollapseMin(dmin) == IF dmin = SizeMax THEN 0 ELSE dmin

(* The type of a GraphStats: counts are naturals and the average is a     *)
(* quotient with a nonzero denominator.                                    *)
StatsType ==
  [ total_nodes : Nat, active_nodes : Nat, frozen_nodes : Nat,
    total_edges : Nat, degree_min : Nat, degree_max : Nat, weak_count : Nat,
    entry_point : Nat, degree_avg : [num : Nat, den : Nat \ {0}] ]

(***************************************************************************)
(* Reference definitions: the aggregate the spec (section 4.1) asks of a   *)
(* finite sequence of degrees, written without the loop.                   *)
(***************************************************************************)
RefMin(ds) == IF ds = <<>> THEN 0 ELSE Min(ToSet(ds))
RefMax(ds) == IF ds = <<>> THEN 0 ELSE Max(ToSet(ds))
RefWeak(ds, wt) == Cardinality({i \in DOMAIN ds : ds[i] < wt})

(* The degree fields of a GraphStats equal the aggregate of ds.            *)
AggregateOf(s, ds, wt) ==
  /\ s.total_edges = FoldSeq(+, 0, ds)
  /\ s.degree_min = RefMin(ds)
  /\ s.degree_max = RefMax(ds)
  /\ s.weak_count = RefWeak(ds, wt)

(***************************************************************************)
(* The GraphStats invariants of the spec (sections 3 and 8), read on one   *)
(* result: with no nodes every degree field is 0; otherwise the average    *)
(* lies between the minimum and the maximum, it is total_edges over        *)
(* total_nodes, and no more nodes are weak than there are nodes.           *)
(***************************************************************************)
StatsConsistent(s) ==
  /\ s.total_nodes = 0 =>
       /\ s.total_edges = 0 /\ s.degree_min = 0 /\ s.degree_max = 0
       /\ s.weak_count = 0 /\ s.degree_avg.num = 0
  /\ s.total_nodes > 0 =>
       /\ s.degree_min * s.degree_avg.den <= s.degree_avg.num
       /\ s.degree_avg.num <= s.degree_max * s.degree_avg.den
       /\ s.degree_avg.num * s.total_nodes = s.total_edges * s.degree_avg.den
       /\ s.weak_count <= s.total_nodes

=============================================================================
