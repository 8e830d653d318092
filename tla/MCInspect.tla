------------------------------ MODULE MCInspect ------------------------------
(***************************************************************************)
(* Model of inspect_graph.  The command lines reach every branch of        *)
(* main(): help, a bad number, an ignored last flag, no layout, two        *)
(* layouts, a disk index with a bad data type, each layout with both       *)
(* samplers and caps 0, 1 and the default 20, and --small-graph -1 on a    *)
(* raw graph and on a disk index.  A body word may be 10000001, which      *)
(* makes a raw graph look implausible, and whose allocation may fail.     *)
(* The disk geometries are those of MCDiskSample with n_nodes up to 2,     *)
(* except that one record per 4096-byte sector replaces two of 2048 bytes, *)
(* so that the samplers cross a sector boundary; headers of all seven      *)
(* slots.  One more header claims 2^30 + 1 nodes in front of at most two   *)
(* records: a corrupt n_nodes.                                             *)
(***************************************************************************)
EXTENDS Inspect

MCArgvs ==
  { <<"--help">>,
    <<>>,
    <<"--graph-file", "g", "--index-file", "g">>,
    <<"--disk-index", "g", "--data-type", "double">>,
    <<"--graph-file", "g", "--adjacency-sample", "x">>,
    <<"--graph-file", "g", "--adjacency-sample">>,
    <<"--graph-file", "g", "--adjacency-sample", "3", "--small-graph", "2",
      "--max-neighbors", "1">>,
    <<"--index-file", "g", "--adjacency-sample", "1", "--small-graph", "3",
      "--max-neighbors", "1">>,
    <<"--index-file", "g", "--adjacency-sample", "2", "--max-neighbors", "0">>,
    <<"--graph-file", "g", "--small-graph", "-1">>,
    <<"--disk-index", "d", "--data-type", "float", "--adjacency-sample", "3",
      "--small-graph", "2", "--max-neighbors", "1">>,
    <<"--disk-index", "d", "--data-type", "int8", "--small-graph", "3",
      "--max-neighbors", "0">>,
    <<"--disk-index", "d", "--data-type", "float", "--adjacency-sample", "1",
      "--small-graph", "-1">> }

MCMaxWords == 4
MCVals == {0, 1, 2, 10000001}
MCExpectedSizes == {0, 26} \cup {24 + 4 * m : m \in 0 .. 4}
MCEntryPoints == {0}
MCFrozenCounts == {0, 1}
MCMetaWords == {0, 4096, 8192}

(* A corrupt header: n_nodes above max_size() (MaxVectorSize, 2^30) but    *)
(* below the stand-in for ULONG_MAX, in front of at most 2 records.        *)
MCCorruptGeometry ==
  [nnodes |-> 2^30 + 1, ndims |-> 0, medoid |-> 0, mnl |-> 8, nps |-> 2]
MCMaxNodesWritten == 2

MCGeometries ==
  {[nnodes |-> n, ndims |-> 0, medoid |-> 0, mnl |-> p[1], nps |-> p[2]] :
     n \in 0 .. 2, p \in {<<8, 2>>, <<4096, 1>>, <<4092, 2>>, <<4096, 2>>,
                          <<12, 0>>, <<2, 1>>}}
  \cup {MCCorruptGeometry}
MCLayouts == {"tagged"}
MCHeaderLens == {7}
MCDiskVals == 0 .. 2
MCDiskDTypes == {"kFloat", "kInt8"}
MCIdVals == {0, 1}

=============================================================================
