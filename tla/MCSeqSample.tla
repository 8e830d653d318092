----------------------------- MODULE MCSeqSample -----------------------------
(* Both samplers over every body of at most 4 words with values 0 .. 2    *)
(* (ids 0 .. 2 reach inside and outside a sample of 1 .. 3 nodes), with   *)
(* and without a cap of one neighbor.                                      *)
EXTENDS SeqSample

MCMaxWords == 4
MCVals == 0 .. 2
MCExpectedSizes == {0, 26} \cup {24 + 4 * m : m \in 0 .. 4}
MCEntryPoints == {0}
MCFrozenCounts == {0}
MCModes == {"adjacency", "small"}
MCSampleSizes == 1 .. 3
MCMaxShowns == {0, 1}
=============================================================================
