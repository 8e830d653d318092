------------------------------ MODULE DiskScan ------------------------------
(***************************************************************************)
(* compute_graph_stats_from_disk_index (src/src/graph_stats.cpp): resolve *)
(* the header, check the geometry, then read the body sector by sector     *)
(* from offset 4096 and fold in the degree field of every record the inner *)
(* loop reaches.                                                           *)
(*                                                                         *)
(* The body is kept as the number of whole sectors the file holds (a       *)
(* partial last sector fails its read like a missing one) and the degree   *)
(* stored in the record of each node id: the record of node                *)
(* sec * nnodes_per_sector + j is slot j of sector sec, and distinct slots *)
(* have distinct degree offsets, so the bytes at the offset the loop reads *)
(* are that node's degree field.  One step is the opening of the file up   *)
(* to the first sector, or one iteration of the sector loop with its whole *)
(* inner loop, or the final fill-in.                                       *)
(***************************************************************************)
EXTENDS GraphStats, DiskLayout

CONSTANTS
  Geometries,  (* the [nnodes, ndims, medoid, mnl, nps] the header records  *)
  Layouts,     (* the header forms written                                  *)
  HeaderLens,  (* how many header slots the file keeps at most             *)
  DTypes,      (* the data_type arguments                                   *)
  Vals,        (* the degree a record may store                             *)
  MaxNodesWritten (* the records a writer writes at most; a corrupt header  *)
                  (* may claim more n_nodes than that                       *)

HeaderSlots(f) == SubSeq(WrittenHeader(f.layout, f.geom, 5, 0), 1, f.len)

VARIABLES
  file,     (* the file; never changes                                      *)
  pc,       (* "open", "loop" (the sector loop) or "done"                   *)
  geom,     (* the geometry as resolved from the header                     *)
  good,     (* in.good()                                                    *)
  sec,      (* the next sector to read                                      *)
  acc,      (* total_edges, degree_min, degree_max, weak_count              *)
  visited,  (* history: node id and degree offset of every record read      *)
  s         (* the GraphStats returned                                      *)

vars == <<file, pc, geom, good, sec, acc, visited, s>>

esz == elem_size(file.dtype)
Resolved == ResolveHeader(HeaderSlots(file))

(* The records a writer puts behind a header that records geometry g: its *)
(* n_nodes, or fewer when the header's n_nodes is corrupt.                 *)
WrittenNodes(g) == Min({g.nnodes, MaxNodesWritten})

(* The sectors a writer puts after the metadata sector: one per           *)
(* nnodes_per_sector records, the last one partly filled.                  *)
WrittenSectors(g) ==
  IF g.nps = 0 THEN 0 ELSE (WrittenNodes(g) + g.nps - 1) \div g.nps

(* The node ids whose slots lie in ns whole sectors and below the header's *)
(* n_nodes: the only records the readers reach.  Behind a corrupt n_nodes, *)
(* slots past the last record written hold any degree.                     *)
HeldNodes(g, ns) == 0 .. Min({g.nnodes, ns * g.nps}) - 1

(* The files: a header of one form, cut or whole, a body of some number of *)
(* whole sectors, and a degree per node.                                   *)
(* f is a file of element type t.                                         *)
DiskFile(f, t) ==
  \E l \in Layouts, g \in Geometries, hl \in HeaderLens :
    \E ns \in 0 .. WrittenSectors(g) :
      \E d \in [HeldNodes(g, ns) -> Vals] :
        f = [layout |-> l, geom |-> g, len |-> Min({hl, Len(WrittenHeader(l, g, 5, 0))}),
             dtype |-> t, sectors |-> ns, deg |-> d]

(* A call before it opens the file.                                        *)
CallStart ==
  /\ pc = "open"
  /\ geom = GeomOf(<<0, 0, 0, 0, 0>>, 1)
  /\ good = TRUE
  /\ sec = 0
  /\ acc = AccInit
  /\ visited = <<>>
  /\ s = ZeroStats

Init == (\E t \in DTypes : DiskFile(file, t)) /\ CallStart

(* A short header read: return the default stats.                          *)
HeaderUnreadable ==
  /\ pc = "open"
  /\ ~Resolved.ok
  /\ pc' = "done"
  /\ good' = FALSE
  /\ UNCHANGED <<file, geom, sec, acc, visited, s>>

(* The geometry fails the sanity check: return the default stats.          *)
GeometryRejected ==
  /\ pc = "open"
  /\ Resolved.ok
  /\ ~GeometryOk(Resolved.geom, esz)
  /\ pc' = "done"
  /\ geom' = Resolved.geom
  /\ UNCHANGED <<file, good, sec, acc, visited, s>>

(* The counts and entry point taken from the header.                       *)
HeaderStats(g) ==
  [ZeroStats EXCEPT !.total_nodes = g.nnodes, !.active_nodes = g.nnodes,
                    !.entry_point = g.medoid]

(* nnodes_per_sector = 0 (records larger than a sector): the header counts *)
(* with every degree field 0, and no sector is read.                       *)
LargeNodes ==
  /\ pc = "open"
  /\ Resolved.ok
  /\ GeometryOk(Resolved.geom, esz)
  /\ Resolved.geom.nps = 0
  /\ pc' = "done"
  /\ geom' = Resolved.geom
  /\ s' = HeaderStats(Resolved.geom)
  /\ UNCHANGED <<file, good, sec, acc, visited>>

(* A geometry the reader accepts: seek to the data offset, start the loop. *)
OpenOk ==
  /\ pc = "open"
  /\ Resolved.ok
  /\ GeometryOk(Resolved.geom, esz)
  /\ Resolved.geom.nps > 0
  /\ pc' = "loop"
  /\ geom' = Resolved.geom
  /\ s' = HeaderStats(Resolved.geom)
  /\ UNCHANGED <<file, good, sec, acc, visited>>

(* for (sec = 0; sec < n_sectors && in.good(); sec++)                     *)
SectorLoopCond == sec < NSectors(geom) /\ good

(* The slots the inner loop reads in sector sec: j runs up from 0 and      *)
(* breaks at nnodes_per_sector, at the first node id past disk_nnodes, or  *)
(* at the first slot whose degree field would overrun the sector.          *)
SlotsRead(g, e, sc) ==
  LET stop == {j \in 0 .. g.nps :
                 j = g.nps \/ sc * g.nps + j >= g.nnodes \/ ~SlotFits(g, e, j)}
      k == Min(stop)
  IN  [i \in 1 .. k |-> [id |-> sc * g.nps + (i - 1), off |-> DegreeOffset(g, e, i - 1)]]

(* Read one whole sector and fold in the degree of every slot read.        *)
ReadSector ==
  /\ pc = "loop"
  /\ SectorLoopCond
  /\ sec < file.sectors
  /\ LET rs == SlotsRead(geom, esz, sec) IN
       /\ acc' = FoldLeft(LAMBDA a, r : Accumulate(a, file.deg[r.id], DefaultWeakThreshold),
                          acc, rs)
       /\ visited' = visited \o rs
  /\ sec' = sec + 1
  /\ UNCHANGED <<file, pc, geom, good, s>>

(* The sector read comes up short: the loop breaks.                        *)
ReadSectorFails ==
  /\ pc = "loop"
  /\ SectorLoopCond
  /\ sec >= file.sectors
  /\ good' = FALSE
  /\ UNCHANGED <<file, pc, geom, sec, acc, visited, s>>

(* After the loop: the average is over disk_nnodes, the header's count.    *)
Finish ==
  /\ pc = "loop"
  /\ ~SectorLoopCond
  /\ pc' = "done"
  /\ s' = [s EXCEPT !.total_edges = acc.edges,
                    !.degree_min  = CollapseMin(acc.dmin),
                    !.degree_avg  = Avg(acc.edges, geom.nnodes),
                    !.degree_max  = acc.dmax,
                    !.weak_count  = acc.weak]
  /\ UNCHANGED <<file, geom, good, sec, acc, visited>>

Next ==
  \/ HeaderUnreadable \/ GeometryRejected \/ LargeNodes \/ OpenOk
  \/ ReadSector \/ ReadSectorFails \/ Finish

Spec == Init /\ [][Next]_vars

-----------------------------------------------------------------------------
TypeOK ==
  /\ file.geom \in Geometries /\ file.dtype \in DTypes
  /\ file.deg \in [HeldNodes(file.geom, file.sectors) -> Vals]
  /\ pc \in {"open", "loop", "done"}
  /\ good \in BOOLEAN
  /\ sec \in Nat
  /\ s \in StatsType

(* The last slot of a full sector fits: nnodes_per_sector records of       *)
(* max_node_len bytes leave room for the last one's degree field.          *)
SectorFitsAllSlots(g, e) == g.nps > 0 /\ SlotFits(g, e, g.nps - 1)

(* Section 8: the reader visits node ids in increasing order, never one    *)
(* twice and never one past disk_nnodes; when the file holds every sector  *)
(* and a sector holds all of its slots, it visits 0 .. n_nodes-1 exactly,  *)
(* the partly filled last sector included.                                 *)
VisitsEveryNodeOnce ==
  /\ \A i \in DOMAIN visited : visited[i].id < geom.nnodes
  /\ \A i, j \in DOMAIN visited : i < j => visited[i].id < visited[j].id
  /\ (/\ pc = "done" /\ Resolved.ok /\ GeometryOk(geom, esz)
      /\ SectorFitsAllSlots(geom, esz) /\ file.sectors >= NSectors(geom))
       => [i \in DOMAIN visited |-> visited[i].id] = [i \in 1 .. geom.nnodes |-> i - 1]

(* Section 4.4: a degree field is read only when its four bytes lie inside *)
(* the 4096-byte sector buffer: its u64 offset is neither past the end nor *)
(* wrapped round to before the start.                                      *)
DegreeFieldInsidePage ==
  \A i \in DOMAIN visited : 0 <= visited[i].off /\ visited[i].off + 4 <= kSectorLen

(* Sections 3 and 7: the returned stats are internally consistent, a scan  *)
(* cut short included: min <= avg <= max over the nodes it reports.        *)
ResultConsistent == pc = "done" => StatsConsistent(s)

(* The header accepted with at least one record per sector: the reader    *)
(* goes on to the sector loop.                                             *)
Accepted == Resolved.ok /\ GeometryOk(Resolved.geom, esz) /\ Resolved.geom.nps > 0

(* The node ids read, in order.                                            *)
VisitedIds == [i \in DOMAIN visited |-> visited[i].id]

(* The reader as a page walk (SectorWalk) whose limit is n_nodes.          *)
ScanWalk == INSTANCE SectorWalk
              WITH accepted <- Accepted, nnodes <- Resolved.geom.nnodes,
                   nps <- Resolved.geom.nps, readable <- file.sectors,
                   limit <- Resolved.geom.nnodes, page <- sec,
                   yielded <- VisitedIds, stopped <- (pc = "done")

(* Sections 4.4 and 8: the reader implements the page walk.  It reads the  *)
(* ceil(n_nodes / nps) pages in order, takes from each a prefix of the     *)
(* node ids it holds, and returns only after the last page, at a page the *)
(* file does not hold, or on a rejected header: never early on a partly   *)
(* filled last page.                                                       *)
ScanRefinesSectorWalk == ScanWalk!Spec

=============================================================================
