----------------------------- MODULE MCSeqScan ------------------------------
(* Bounds for SeqScan.  Bodies of up to 4 words over 0..2 hold every record *)
(* chain of up to 4 nodes of degree 0..2, truncated anywhere, with and     *)
(* without trailing words; the header sizes are every honest size of such  *)
(* a body, one misaligned size (26) and one below the header (0).          *)
EXTENDS SeqScan

MCMaxWords == 4
MCVals == 0 .. 2
MCExpectedSizes == {0, 26} \cup {kGraphHeaderSize + 4 * m : m \in 0 .. MCMaxWords}
MCEntryPoints == {0, 1}
MCFrozenCounts == {0, 1}
=============================================================================
