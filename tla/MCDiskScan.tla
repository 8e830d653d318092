----------------------------- MODULE MCDiskScan -----------------------------
(* Bounds for DiskScan.  Up to 4 nodes at 1..3 per sector give full and   *)
(* partly filled last sectors; 0 per sector is the large-node variant.     *)
(* The dimension and record lengths put the degree field at both edges of  *)
(* the sector: 2048-byte records with 3 per sector overrun it at slot 2,   *)
(* 1023 float coordinates fill a 4096-byte record to its last byte, 4100   *)
(* and 4 fail the sanity check for some dimensions.                        *)
EXTENDS DiskScan

MCGeometries ==
  [nnodes : 0 .. 4, ndims : {0, 1, 1023}, medoid : {0}, mnl : {4, 8, 2048, 4096, 4100},
   nps : 0 .. 3]
MCLayouts == {"tagged", "untagged"}
MCHeaderLens == {3, 7}
MCDTypes == {"kFloat", "kUint8"}
MCVals == {0, 3}
MCMaxNodesWritten == 4

(* n_dims = 2^64 - 4 (residue -4) with a one-byte element type: the       *)
(* product data_dim * esz + 4 wraps to 0.                                  *)
MCWrapGeometries ==
  [nnodes : {1}, ndims : {-4}, medoid : {0}, mnl : {8}, nps : {1}]
MCWrapDTypes == {"kUint8"}
=============================================================================
