----------------------------- MODULE MCDiskSample ----------------------------
(* Geometries with n_dims = 0 and max_node_len a multiple of 4:           *)
(*   <<8, 2>>    records with room for one id, so a degree of 2 runs on    *)
(*               into the next record;                                     *)
(*   <<2048, 2>> two records that fill the sector;                        *)
(*   <<4092, 2>> a second slot whose degree field ends at the sector end,  *)
(*               so its neighbor ids are clamped to none;                  *)
(*   <<4096, 2>> a second slot that does not fit, so the inner loop        *)
(*               breaks after slot 0 of every sector;                      *)
(*   <<12, 0>>   nnodes_per_sector = 0;  <<2, 1>> rejected by the check.   *)
EXTENDS DiskSample

MCGeometries ==
  {[nnodes |-> n, ndims |-> 0, medoid |-> 0, mnl |-> p[1], nps |-> p[2]] :
     n \in 0 .. 3, p \in {<<8, 2>>, <<2048, 2>>, <<4092, 2>>, <<4096, 2>>,
                          <<12, 0>>, <<2, 1>>}}
MCLayouts == {"tagged"}
MCHeaderLens == {3, 7}
MCDTypes == {"kFloat"}
MCVals == 0 .. 2
MCModes == {"adjacency", "small"}
MCSampleSizes == 1 .. 3
MCMaxShowns == {0, 1}
MCIdVals == {0, 1}
MCMaxNodesWritten == 3

(* Two records of 2048 bytes per sector; the second claims 600 ids, more   *)
(* than the 511 that fit before the sector's end.                          *)
MCClampGeometries ==
  {[nnodes |-> 2, ndims |-> 0, medoid |-> 0, mnl |-> 2048, nps |-> 2]}
MCClampVals == {1, 600}
MCClampIdVals == {0}
MCClampModes == {"adjacency"}
=============================================================================
