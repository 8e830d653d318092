----------------------------- MODULE DiskLayout -----------------------------
(***************************************************************************)
(* Layout C, the sector-paged disk index ("_disk.index" files), as the     *)
(* disk-index functions of src/src/graph_stats.cpp read it: the metadata  *)
(* header and its two historical forms, the geometry sanity check and the *)
(* placement of a record's degree field inside a 4096-byte sector.        *)
(*                                                                         *)
(* The header is kept as the sequence of its 8-byte slots.  The tagged     *)
(* form (save_bin<_u64>) starts with a slot holding the i32 pair           *)
(* (npts_meta, ndims_meta); the untagged form starts with n_nodes.  Both   *)
(* go on to n_nodes, n_dims, medoid, max_node_len, nnodes_per_sector and   *)
(* then the rest of the metadata sector.                                   *)
(*                                                                         *)
(* A u64 is carried by its residue modulo 2^64 nearest to 0: r < 0 stands  *)
(* for 2^64 + r.  Residues of a sum or product are the sum or product of   *)
(* residues, so the wrap of the code's u64 arithmetic is exact as long as  *)
(* the representatives stay small; only comparisons need the canonical    *)
(* value (U64Lt).  The first slot of every header of the models is below   *)
(* 2^31, so the i32 meta_npts read from its first four bytes is the slot.  *)
(* A file cut inside a slot reads like a file without that slot: every     *)
(* read is of whole 4- or 8-byte fields and the first two i32 reads need   *)
(* the whole first slot for in.good() to hold.                            *)
(***************************************************************************)
EXTENDS Naturals, Sequences

kSectorLen == 4096
kDiskIndexDataOffset == 4096

(* elem_size(DiskIndexDataType)                                            *)
DataTypes == {"kFloat", "kUint8", "kInt8"}
elem_size(t) == IF t = "kFloat" THEN 4 ELSE 1

(* The five u64 fields the readers take from the header.                   *)
GeomOf(sl, i) ==
  [nnodes |-> sl[i], ndims |-> sl[i + 1], medoid |-> sl[i + 2],
   mnl |-> sl[i + 3], nps |-> sl[i + 4]]

GeomSlots(g) == <<g.nnodes, g.ndims, g.medoid, g.mnl, g.nps>>

(* The header as a writer lays it out: the tag slot (tagged form only),   *)
(* the five fields, and the slot that follows them in the metadata sector. *)
WrittenHeader(layout, g, nptsMeta, next) ==
  IF layout = "tagged" THEN <<nptsMeta>> \o GeomSlots(g) \o <<next>>
                       ELSE GeomSlots(g) \o <<next>>

(* A resolver that, when the tagged reads come up short, falls back to the *)
(* untagged reading instead of rejecting the file.                         *)
ResolveHeaderFallback(sl) ==
  IF Len(sl) >= 6 /\ sl[1] >= 5
  THEN [ok |-> TRUE, variant |-> "tagged", geom |-> GeomOf(sl, 2)]
  ELSE IF Len(sl) >= 5
       THEN [ok |-> TRUE, variant |-> "untagged", geom |-> GeomOf(sl, 1)]
       ELSE [ok |-> FALSE, variant |-> "untagged", geom |-> GeomOf(<<0,0,0,0,0>>, 1)]

(* The resolution with the tag test meta_npts > 5.                         *)
ResolveHeaderStrictTag(sl) ==
  IF Len(sl) >= 1 /\ sl[1] > 5
  THEN IF Len(sl) >= 6
       THEN [ok |-> TRUE, variant |-> "tagged", geom |-> GeomOf(sl, 2)]
       ELSE [ok |-> FALSE, variant |-> "tagged", geom |-> GeomOf(<<0,0,0,0,0>>, 1)]
  ELSE IF Len(sl) >= 5
       THEN [ok |-> TRUE, variant |-> "untagged", geom |-> GeomOf(sl, 1)]
       ELSE [ok |-> FALSE, variant |-> "untagged", geom |-> GeomOf(<<0,0,0,0,0>>, 1)]

(* The header resolution the three functions share: read the i32 pair; if  *)
(* the stream is good and meta_npts >= 5 read the five fields after it     *)
(* (tagged), otherwise clear the stream, seek back to 0 and read them from *)
(* the start (untagged).  Any short read afterwards rejects the file.      *)
ResolveHeader(sl) ==
  IF Len(sl) >= 1 /\ sl[1] >= 5
  THEN IF Len(sl) >= 6
       THEN [ok |-> TRUE, variant |-> "tagged", geom |-> GeomOf(sl, 2)]
       ELSE [ok |-> FALSE, variant |-> "tagged", geom |-> GeomOf(<<0,0,0,0,0>>, 1)]
  ELSE IF Len(sl) >= 5
       THEN [ok |-> TRUE, variant |-> "untagged", geom |-> GeomOf(sl, 1)]
       ELSE [ok |-> FALSE, variant |-> "untagged", geom |-> GeomOf(<<0,0,0,0,0>>, 1)]

(* a < b on the u64 values that a and b stand for.                         *)
U64Lt(a, b) == IF (a < 0) = (b < 0) THEN a < b ELSE b < 0

(* The sanity check without its upper bound.                               *)
GeometryOkNoSectorBound(g, esz) == ~U64Lt(g.mnl, g.ndims * esz + 4)

(* Sanity: max_node_len must fit [coords][nnbrs] and fit in a sector:      *)
(* neither max_node_len < data_dim * esz + 4 nor max_node_len > 4096, in   *)
(* u64 arithmetic.                                                         *)
GeometryOk(g, esz) ==
  ~U64Lt(g.mnl, g.ndims * esz + 4) /\ ~U64Lt(kSectorLen, g.mnl)

(* The sector count rounded down.                                          *)
NSectorsFloor(g) == g.nnodes \div g.nps

(* ceil(disk_nnodes / nnodes_per_sector), for nnodes_per_sector > 0.       *)
NSectors(g) == (g.nnodes + g.nps - 1) \div g.nps

(* The byte offset of slot j's degree field inside its sector, and whether *)
(* its four bytes lie inside the sector: the bound the inner loop breaks   *)
(* on.                                                                     *)
DegreeOffset(g, esz, j) == j * g.mnl + g.ndims * esz

SlotFits(g, esz, j) == ~U64Lt(kSectorLen, DegreeOffset(g, esz, j) + 4)

=============================================================================
