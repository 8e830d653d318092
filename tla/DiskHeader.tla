----------------------------- MODULE DiskHeader -----------------------------
(***************************************************************************)
(* The header resolver of the disk-index readers                           *)
(* (compute_graph_stats_from_disk_index and its two print siblings):       *)
(* a file written in one of the two header forms, possibly cut short, is   *)
(* resolved and then put through the geometry sanity check.  One step      *)
(* opens the file, resolves the header and checks the geometry, as the     *)
(* start of each of the three functions does.                              *)
(***************************************************************************)
EXTENDS DiskLayout

CONSTANTS
  Geometries,  (* the [nnodes, ndims, medoid, mnl, nps] a writer may record *)
  NptsMetas,   (* npts_meta of the tagged form: the number of u64 fields    *)
  NextSlots    (* the slot after the five fields in the metadata sector     *)

ASSUME NptsMetas \subseteq {n \in Nat : n >= 5}

(* Every header a writer produces, cut after any number of slots.         *)
HeaderFiles ==
  {f \in [layout : {"tagged", "untagged"}, geom : Geometries,
          npts : NptsMetas, next : NextSlots, len : 0 .. 7,
          dtype : DataTypes] :
     f.len <= Len(WrittenHeader(f.layout, f.geom, f.npts, f.next))}

Slots(f) == SubSeq(WrittenHeader(f.layout, f.geom, f.npts, f.next), 1, f.len)

VARIABLES
  hdr,       (* the file                                                    *)
  resolved,  (* the header has been read                                    *)
  result     (* the outcome: accepted or not, the form read, the geometry   *)

vars == <<hdr, resolved, result>>

Init ==
  /\ hdr \in HeaderFiles
  /\ resolved = FALSE
  /\ result = [accepted |-> FALSE, variant |-> "none",
               geom |-> GeomOf(<<0, 0, 0, 0, 0>>, 1)]

(* Resolve the header, then reject a geometry that fails the sanity check *)
(* (return s with total_nodes = 0).                                        *)
Resolve ==
  /\ ~resolved
  /\ resolved' = TRUE
  /\ LET r == ResolveHeader(Slots(hdr)) IN
       result' = [accepted |-> r.ok /\ GeometryOk(r.geom, elem_size(hdr.dtype)),
                  variant  |-> r.variant,
                  geom     |-> r.geom]
  /\ UNCHANGED hdr

Next == Resolve

Spec == Init /\ [][Next]_vars

-----------------------------------------------------------------------------
Whole(f) == f.len = Len(WrittenHeader(f.layout, f.geom, f.npts, f.next))

(* The file holds every field of the form it was written in.               *)
FieldsPresent(f) == f.len >= IF f.layout = "tagged" THEN 6 ELSE 5

TypeOK ==
  /\ hdr \in HeaderFiles
  /\ resolved \in BOOLEAN
  /\ result.variant \in {"none", "tagged", "untagged"}
  /\ result.accepted =>
       result.geom \in [nnodes : Nat, ndims : Nat, medoid : Nat,
                        mnl : 4 .. kSectorLen, nps : Nat]

(* Section 4.2: the resolver never infers the layout from partial success: *)
(* a header cut short is rejected whatever its form, and a whole tagged    *)
(* header is accepted exactly when its geometry is sane, with exactly the  *)
(* geometry written.                                                       *)
TaggedOrTruncatedResolved ==
  resolved =>
    /\ result.accepted => FieldsPresent(hdr)
    /\ (hdr.layout = "tagged" /\ Whole(hdr)) =>
         /\ result.accepted = GeometryOk(hdr.geom, elem_size(hdr.dtype))
         /\ result.accepted => result.geom = hdr.geom

(* Sections 4.2 and 10: a header the resolver accepts carries the geometry *)
(* its writer recorded, with one exception, the known risk of the tag      *)
(* heuristic: an untagged header whose n_nodes passes meta_npts >= 5 is    *)
(* read as tagged, one slot off.  No other header is misread.              *)
OnlyHeuristicMisreads ==
  (result.accepted /\ result.geom # hdr.geom) =>
    /\ hdr.layout = "untagged" /\ hdr.geom.nnodes >= 5
    /\ result.variant = "tagged"

=============================================================================
