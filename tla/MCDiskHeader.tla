---------------------------- MODULE MCDiskHeader ----------------------------
(* Bounds for DiskHeader.  n_nodes runs over 0..6, so that the low half of *)
(* an untagged header's first field falls on both sides of the >= 5 test;  *)
(* the other fields take values that pass and fail the sanity check in     *)
(* both readings of the header.                                            *)
EXTENDS DiskHeader

MCGeometries ==
  [nnodes : 0 .. 6, ndims : {1, 2}, medoid : {0, 4}, mnl : {12, 4096, 4100},
   nps : {0, 4}]
MCNptsMetas == {5, 9}
MCNextSlots == {0, 8}
=============================================================================
