------------------------- MODULE MCStatsAggregator --------------------------
(* Bounds for StatsAggregator: graphs of up to 4 nodes with degrees 0..3,  *)
(* every split into active and frozen points, thresholds on both sides of  *)
(* every degree (0 counts no node weak, 4 counts every node weak).         *)
EXTENDS StatsAggregator

MCMaxNodes == 4
MCDegrees == 0 .. 3
MCEntryPoints == {0, 7}
MCFrozenCounts == {0, 1}
MCWeakThresholds == {0, 2, 4}
=============================================================================
