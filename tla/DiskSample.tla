----------------------------- MODULE DiskSample -----------------------------
(***************************************************************************)
(* print_adjacency_sample_from_disk_index and                              *)
(* print_small_graph_from_disk_index (src/src/graph_stats.cpp): the two    *)
(* samplers of layout C.  They resolve and check the header like the stats *)
(* reader, then page through the sectors with the same inner slot loop,    *)
(* stopping once num_nodes nodes are taken.  The adjacency sample prints   *)
(* each node as it is read, labelled with its node id; the small graph     *)
(* copies each node's neighbor ids (clamped at the sector end) into        *)
(* out_nbrs[nodes_read] and prints the lists after the loop, labelled by   *)
(* that position.                                                          *)
(*                                                                         *)
(* Neighbor ids are read from the sector as u32 words.  The models keep    *)
(* n_dims * elem_size and max_node_len multiples of 4, so every word read  *)
(* is one field of the records laid out in the sector: a degree, a stored  *)
(* neighbor id, or padding and coordinate bytes, which read as 0.  A list  *)
(* that claims more ids than its record holds runs on into the next        *)
(* record, as the memcpy does.                                             *)
(***************************************************************************)
EXTENDS DiskScan

CONSTANTS
  Modes,        (* "adjacency", "small"                                     *)
  SampleSizes,  (* num_nodes                                                *)
  MaxShowns,    (* max_neighbors_per_node; 0 means no cap                   *)
  IdVals        (* the neighbor ids a record may store                      *)

VARIABLES
  ids,       (* the neighbor ids stored in each node's record; never change *)
  mode,      (* the function called                                         *)
  N,         (* num_nodes: clamped to disk_nnodes, then to nodes_read       *)
  maxShown,  (* max_neighbors_per_node                                      *)
  taken,     (* nodes_printed (adjacency) or nodes_read (small graph)       *)
  outN,      (* out_nbrs, by position                                       *)
  inN,       (* in_nbrs, by position                                        *)
  rows       (* the rows printed, in order                                  *)

svars == <<ids, mode, N, maxShown, taken, outN, inN, rows>>
allvars == <<vars, svars>>

dsz == geom.ndims * esz

(* The id words a record of geometry g has room for after its degree.     *)
IdRoom(g, e) == (g.mnl - g.ndims * e - 4) \div 4

(* The u32 at byte b of sector sc, as the writer laid the records out.     *)
SectorWord(sc, b) ==
  LET j == b \div geom.mnl
      r == b % geom.mnl
      x == sc * geom.nps + j
      w == (r - dsz - 4) \div 4 + 1
  IN  IF j >= geom.nps \/ x >= geom.nnodes \/ r < dsz THEN 0
      ELSE IF r = dsz THEN file.deg[x]
      ELSE IF w <= Len(ids[x]) THEN ids[x][w] ELSE 0

(* The c words after the degree field of slot j.                          *)
PageIds(sc, j, c) ==
  [i \in 1 .. c |-> SectorWord(sc, DegreeOffset(geom, esz, j) + 4 * i)]

(* to_show, as in the sequential samplers.                                 *)
ToShow(k, m) == IF m > 0 /\ k > m THEN m ELSE k

(* nbr_cap with the clamp at the sector end left out.                     *)
NbrCapNoClamp(j, d) == d

(* nbr_cap: the stored degree, clamped to the whole u32s that fit before   *)
(* the sector end.                                                         *)
NbrCap(j, d) ==
  IF DegreeOffset(geom, esz, j) + 4 + 4 * d > kSectorLen
  THEN (kSectorLen - (DegreeOffset(geom, esz, j) + 4)) \div 4
  ELSE d

(* The inner loop with its `taken < num_nodes` test left out.              *)
SlotsTakenNoLimit(rs, room) == rs

(* The inner loop's test nodes_read <= num_nodes.                          *)
SlotsTakenPastLimit(rs, room) == SubSeq(rs, 1, Min({Len(rs), room + 1}))

(* The inner loop also stops once num_nodes nodes are taken.               *)
SlotsTaken(rs, room) == SubSeq(rs, 1, Min({Len(rs), room}))

(* Each id v < n of the list of position u appends u to in_nbrs[v].        *)
AddReverseEdgesSwapped(inn, u, nbrs, n) ==
  FoldLeft(LAMBDA m, v : IF v < n THEN [m EXCEPT ![u] = Append(@, v)] ELSE m,
           inn, nbrs)

AddReverseEdges(inn, u, nbrs, n) ==
  FoldLeft(LAMBDA m, v : IF v < n THEN [m EXCEPT ![v] = Append(@, u)] ELSE m,
           inn, nbrs)

(* The lists a writer stores: as many ids as the degree says, up to the    *)
(* record's room.                                                          *)
StoredIds(g, e, d) == [1 .. Min({d, IdRoom(g, e)}) -> IdVals]

(* The id lists of the records of file f.                                 *)
StoredIdChoices(f) ==
  {v \in [DOMAIN f.deg ->
          UNION {StoredIds(f.geom, elem_size(f.dtype), d) : d \in Vals}] :
     \A x \in DOMAIN v : v[x] \in StoredIds(f.geom, elem_size(f.dtype), f.deg[x])}

(* A sampler call before it opens the file.                                *)
DSampleStart ==
  /\ CallStart
  /\ taken = 0
  /\ outN = <<>> /\ inN = <<>>
  /\ rows = <<>>

DInit ==
  /\ Init
  /\ ids \in StoredIdChoices(file)
  /\ mode \in Modes /\ N \in SampleSizes /\ maxShown \in MaxShowns
  /\ DSampleStart

(* A header that does not read, a geometry the sanity check rejects, or    *)
(* nnodes_per_sector = 0: the samplers return without a row.               *)
DOpenFails ==
  /\ (HeaderUnreadable \/ GeometryRejected \/ LargeNodes)
  /\ UNCHANGED svars

(* print_adjacency_sample_from_disk_index: the header resolution and      *)
(* checks, then the heading line and the seek to the data offset.          *)
DAdjOpen ==
  /\ mode = "adjacency"
  /\ \/ DOpenFails
     \/ OpenOk /\ UNCHANGED svars

(* max_size() of out_nbrs, scaled down as in SeqSample.                   *)
MaxVectorSize == 2^30

(* num_nodes without the clamp to disk_nnodes.                             *)
NumNodesNoClamp == N

(* if (num_nodes > disk_nnodes) num_nodes = disk_nnodes;                   *)
NumNodes == IF N > Resolved.geom.nnodes THEN Resolved.geom.nnodes ELSE N

(* print_small_graph_from_disk_index: the same checks, then num_nodes is   *)
(* clamped to disk_nnodes and out_nbrs, in_nbrs are sized to it.           *)
DSmallOpen ==
  /\ mode = "small"
  /\ \/ DOpenFails
     \/ /\ OpenOk /\ NumNodes <= MaxVectorSize
        /\ N' = NumNodes
        /\ outN' = [u \in 0 .. N' - 1 |-> <<>>]
        /\ inN' = [u \in 0 .. N' - 1 |-> <<>>]
        /\ UNCHANGED <<ids, mode, maxShown, taken, rows>>

(* out_nbrs(num_nodes) throws std::length_error when the clamped num_nodes *)
(* is above max_size(): only n_nodes of the header bounds it, and nothing  *)
(* in the function catches the exception.                                  *)
DAllocThrows ==
  /\ mode = "small" /\ pc = "open" /\ Accepted
  /\ NumNodes > MaxVectorSize
  /\ pc' = "thrown"
  /\ UNCHANGED <<file, geom, good, sec, acc, visited, s>>
  /\ UNCHANGED svars

(* for (sec = 0; sec < n_sectors && taken < num_nodes && in.good(); sec++) *)
DLoopCond == SectorLoopCond /\ taken < N

(* The sector read comes up short: break.                                  *)
DReadFails ==
  /\ pc = "loop" /\ DLoopCond
  /\ sec >= file.sectors
  /\ good' = FALSE
  /\ UNCHANGED <<file, pc, geom, sec, acc, visited, s>>
  /\ UNCHANGED svars

(* The slots of sector sec the inner loop takes, as [id, off, j].          *)
Taken(sc) ==
  LET rs == SlotsTaken(SlotsRead(geom, esz, sc), N - taken)
  IN  [i \in DOMAIN rs |-> [id |-> rs[i].id, off |-> rs[i].off, j |-> i - 1]]

(* Adjacency sample, one sector: each slot taken prints its node id, the   *)
(* first to_show ids when their bytes lie inside the sector (none          *)
(* otherwise) and the indicator when nnbrs exceeds to_show.                *)
AdjSector ==
  /\ pc = "loop" /\ mode = "adjacency" /\ DLoopCond
  /\ sec < file.sectors
  /\ LET ts == Taken(sec)
         row(r) ==
           LET k == file.deg[r.id]
               t == ToShow(k, maxShown)
               got == IF t > 0 /\ r.off + 4 + 4 * t <= kSectorLen THEN t ELSE 0
           IN  [id |-> r.id, node |-> r.id, off |-> r.off, got |-> got,
                shown |-> PageIds(sec, r.j, got), more |-> k > t, total |-> k,
                refby |-> <<>>]
     IN  /\ rows' = rows \o [i \in DOMAIN ts |-> row(ts[i])]
         /\ taken' = taken + Len(ts)
         /\ visited' = visited \o ts
  /\ sec' = sec + 1
  /\ UNCHANGED <<file, pc, geom, good, acc, s>>
  /\ UNCHANGED <<ids, mode, N, maxShown, outN, inN>>

(* Small graph, one sector: slot i of the sector taken goes to position    *)
(* taken + i - 1; its nbr_cap ids are copied and the reverse edges inside  *)
(* the sample recorded.                                                    *)
SmallSector ==
  /\ pc = "loop" /\ mode = "small" /\ DLoopCond
  /\ sec < file.sectors
  /\ LET ts == Taken(sec)
         lst(r) == PageIds(sec, r.j, NbrCap(r.j, file.deg[r.id]))
         fill(o) == [u \in DOMAIN o |->
                       IF u >= taken /\ u < taken + Len(ts)
                       THEN lst(ts[u - taken + 1]) ELSE o[u]]
     IN  /\ outN' = fill(outN)
         /\ inN' = FoldLeft(LAMBDA m, i : AddReverseEdges(m, taken + i - 1, lst(ts[i]), N),
                            inN, [i \in DOMAIN ts |-> i])
         /\ taken' = taken + Len(ts)
         /\ visited' = visited \o ts
  /\ sec' = sec + 1
  /\ UNCHANGED <<file, pc, geom, good, acc, s>>
  /\ UNCHANGED <<ids, mode, N, maxShown, rows>>

(* After the loop.  The small graph truncates its lists to nodes_read and  *)
(* prints position i with out_nbrs[i] and in_nbrs[i]; the adjacency       *)
(* sample has printed everything.                                          *)
DDone ==
  /\ pc = "loop" /\ ~DLoopCond
  /\ pc' = "done"
  /\ LET n == IF taken < N THEN taken ELSE N IN
       /\ N' = n
       /\ rows' =
            IF mode = "adjacency" THEN rows
            ELSE [i \in 1 .. n |->
                    LET o == outN[i - 1]
                        t == ToShow(Len(o), maxShown)
                    IN  [id |-> i - 1, node |-> visited[i].id, off |-> visited[i].off,
                         got |-> Len(o), shown |-> SubSeq(o, 1, t),
                         more |-> Len(o) > t, total |-> Len(o), refby |-> inN[i - 1]]]
  /\ UNCHANGED <<file, geom, good, sec, acc, visited, s>>
  /\ UNCHANGED <<ids, mode, maxShown, taken, outN, inN>>

DNext ==
  \/ DAdjOpen \/ DSmallOpen \/ DAllocThrows \/ DReadFails \/ AdjSector \/ SmallSector \/ DDone

DSpec == DInit /\ [][DNext]_allvars

-----------------------------------------------------------------------------
(* Section 4.5: neither sampler prints more than num_nodes rows, and, on a *)
(* file that holds every sector and whose sectors hold all their slots,    *)
(* both print the nodes 0 .. min(num_nodes, disk_nnodes) - 1.              *)
SampleIsPrefix ==
  /\ Len(rows) <= N
  /\ (/\ pc = "done" /\ Resolved.ok /\ GeometryOk(geom, esz) /\ geom.nps > 0
      /\ SectorFitsAllSlots(geom, esz) /\ file.sectors >= NSectors(geom))
       => [i \in DOMAIN rows |-> rows[i].node]
            = [i \in 1 .. Min({N, geom.nnodes}) |-> i - 1]

(* Section 4.5: in the small graph, row v's referenced_by lists, in        *)
(* increasing order, every row u once per occurrence of v in u's copied    *)
(* out-list, and nothing else.                                             *)
ReferencedByExact ==
  (pc = "done" /\ mode = "small") =>
    \A i \in DOMAIN rows :
      /\ IsSorted(rows[i].refby, <=)
      /\ \A u \in 0 .. Len(rows) - 1 :
           Len(SelectSeq(rows[i].refby, LAMBDA x : x = u))
             = Len(SelectSeq(outN[u], LAMBDA x : x = i - 1))
      /\ \A j \in DOMAIN rows[i].refby : rows[i].refby[j] < Len(rows)

(* Section 4.4: the adjacency sample copies the first to_show ids, clamped *)
(* to the whole u32s that fit between the degree field and the sector's    *)
(* end; a degree that claims more only loses the excess.                   *)
AdjacencyClampedAtPage ==
  mode = "adjacency" =>
    \A i \in DOMAIN rows :
      rows[i].got = Min({ToShow(rows[i].total, maxShown),
                         (kSectorLen - rows[i].off - 4) \div 4})

(* Section 4.5: the small graph covers "the first N node ids": the row     *)
(* labelled v shows the neighbor list of node v.                           *)
RowsAreSampleNodes == \A i \in DOMAIN rows : rows[i].id = rows[i].node

(* A sampler as a page walk (SectorWalk) limited to num_nodes nodes.       *)
DSampleWalk == INSTANCE SectorWalk
                 WITH accepted <- Accepted, nnodes <- Resolved.geom.nnodes,
                      nps <- Resolved.geom.nps, readable <- file.sectors,
                      limit <- N, page <- sec,
                      yielded <- VisitedIds, stopped <- (pc = "done")

(* Sections 4.4 and 4.5: both samplers implement the page walk: pages in   *)
(* order, a prefix of each page's node ids, and no stop before num_nodes   *)
(* nodes are taken unless the pages run out.                               *)
SampleRefinesSectorWalk == DSampleWalk!Spec

=============================================================================
