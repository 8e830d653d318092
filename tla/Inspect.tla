------------------------------- MODULE Inspect -------------------------------
(***************************************************************************)
(* inspect_graph (src/tests/inspect_graph.cpp): main() composed with the  *)
(* three library calls it makes on one file, each a separate instance with *)
(* its own stream and locals.  For a raw graph file (--graph-file, layout  *)
(* A) or a single-file index (--index-file, layout B) these are            *)
(* compute_graph_stats_from_file and the two sequential samplers; for an   *)
(* SSD index (--disk-index, layout C) the three disk functions.  The stats *)
(* run first; if they pass main()'s checks, the summary is printed and, as *)
(* asked, the adjacency sample and then the small graph run on the same    *)
(* path.                                                                   *)
(*                                                                         *)
(* For --index-file, main() reads the five u64 metadata words itself       *)
(* first; `file` is then the bytes from offset 4096.                       *)
(***************************************************************************)
EXTENDS Cli, SequencesExt

CONSTANTS
  MaxWords, Vals, ExpectedSizes, EntryPoints, FrozenCounts,
  MetaWords,   (* values the first two metadata words of an index file take *)
  Geometries, Layouts, HeaderLens,
  DiskVals,    (* the degrees a disk record may store                       *)
  DiskDTypes,  (* the element types of the SSD indexes                      *)
  IdVals,
  MaxNodesWritten  (* the records an SSD index holds at most (DiskScan)    *)

VARIABLES
  file,
  spc, sgood, spos, sbytes, snodes, sacc, scounted, stats,
  apc, agood, apos, abytes, anodes, aacc, acounted, ast,
  amode, aN, amax, anode, aout, ain, arows,
  mpc, mgood, mpos, mbytes, mnodes, macc, mcounted, mst,
  mmode, mN, mmax, mnode, mout, min, mrows,
  dfile, ids,
  dpc, dgeom, dgood, dsec, dacc, dvisited, dstats,
  dapc, dageom, dagood, dasec, daacc, davisited, dast,
  damode, daN, damax, dataken, daout, dain, darows,
  dmpc, dmgeom, dmgood, dmsec, dmacc, dmvisited, dmst,
  dmmode, dmN, dmmax, dmtaken, dmout, dmin, dmrows

statsVars == <<spc, sgood, spos, sbytes, snodes, sacc, scounted, stats>>
adjCall == <<apc, agood, apos, abytes, anodes, aacc, acounted, ast,
             amode, anode, aout, ain, arows>>
smallCall == <<mpc, mgood, mpos, mbytes, mnodes, macc, mcounted, mst,
               mmode, mnode, mout, min, mrows>>
dstatsVars == <<dpc, dgeom, dgood, dsec, dacc, dvisited, dstats>>
dadjCall == <<dapc, dageom, dagood, dasec, daacc, davisited, dast,
              damode, dataken, daout, dain, darows>>
dsmallCall == <<dmpc, dmgeom, dmgood, dmsec, dmacc, dmvisited, dmst,
                dmmode, dmtaken, dmout, dmin, dmrows>>
(* The arguments main() passes to the samplers.                            *)
sampleArgs == <<aN, amax, mN, mmax, daN, damax, dmN, dmmax>>
adjVars == <<adjCall, aN, amax>>
smallVars == <<smallCall, mN, mmax>>
dadjVars == <<dadjCall, daN, damax>>
dsmallVars == <<dsmallCall, dmN, dmmax>>
seqVars == <<file, statsVars, adjVars, smallVars>>
diskVars == <<dfile, ids, dstatsVars, dadjVars, dsmallVars>>
vars == <<cliVars, seqVars, diskVars>>

(* compute_graph_stats_from_file(path, offset).                            *)
Stats == INSTANCE SeqScan
           WITH pc <- spc, good <- sgood, pos <- spos, bytes_read <- sbytes,
                nodes <- snodes, acc <- sacc, counted <- scounted, s <- stats

(* The two samplers.  Modes, SampleSizes and MaxShowns are used only by    *)
(* SeqSample's own initial states; here main() passes the arguments.       *)
Adj == INSTANCE SeqSample
         WITH pc <- apc, good <- agood, pos <- apos, bytes_read <- abytes,
              nodes <- anodes, acc <- aacc, counted <- acounted, s <- ast,
              mode <- amode, N <- aN, maxShown <- amax, node_id <- anode,
              outN <- aout, inN <- ain, rows <- arows,
              Modes <- {}, SampleSizes <- {}, MaxShowns <- {}
Small == INSTANCE SeqSample
           WITH pc <- mpc, good <- mgood, pos <- mpos, bytes_read <- mbytes,
                nodes <- mnodes, acc <- macc, counted <- mcounted, s <- mst,
                mode <- mmode, N <- mN, maxShown <- mmax, node_id <- mnode,
                outN <- mout, inN <- min, rows <- mrows,
                Modes <- {}, SampleSizes <- {}, MaxShowns <- {}

(* The disk functions, on the file dfile and the stored ids `ids`.         *)
DStats == INSTANCE DiskScan
            WITH file <- dfile, pc <- dpc, geom <- dgeom, good <- dgood, sec <- dsec,
                 acc <- dacc, visited <- dvisited, s <- dstats,
                 Vals <- DiskVals, DTypes <- DiskDTypes
DAdj == INSTANCE DiskSample
          WITH file <- dfile, pc <- dapc, geom <- dageom, good <- dagood, sec <- dasec,
               acc <- daacc, visited <- davisited, s <- dast,
               mode <- damode, N <- daN, maxShown <- damax, taken <- dataken,
               outN <- daout, inN <- dain, rows <- darows,
               Vals <- DiskVals, DTypes <- DiskDTypes,
               Modes <- {}, SampleSizes <- {}, MaxShowns <- {}
DSmall == INSTANCE DiskSample
            WITH file <- dfile, pc <- dmpc, geom <- dmgeom, good <- dmgood, sec <- dmsec,
                 acc <- dmacc, visited <- dmvisited, s <- dmst,
                 mode <- dmmode, N <- dmN, maxShown <- dmmax, taken <- dmtaken,
                 outN <- dmout, inN <- dmin, rows <- dmrows,
                 Vals <- DiskVals, DTypes <- DiskDTypes,
                 Modes <- {}, SampleSizes <- {}, MaxShowns <- {}

(* No file named.                                                          *)
NoFile == [status |-> "unread", expected |-> 0, ep |-> 0, frozen |-> 0, body |-> <<>>]
NoDiskFile ==
  [layout |-> "none", geom |-> DStats!GeomOf(<<0, 0, 0, 0, 0>>, 1), len |-> 0,
   dtype |-> "kFloat", sectors |-> 0, deg |-> <<>>]

(* What reading the 40 bytes of metadata finds: the file does not open or  *)
(* is shorter (read is FALSE), or the first two words.                     *)
Metas ==
  {[read |-> FALSE, m0 |-> 0, m1 |-> 0]}
  \cup [read : {TRUE}, m0 : MetaWords, m1 : MetaWords]

(* meta[0] == kMetadataSize && meta[1] > meta[0]                           *)
MetaOk(m) == m.read /\ m.m0 = 4096 /\ m.m1 > m.m0

(* The word after the last --data-type of a command line.                 *)
DataTypeWord(a) ==
  LET k == {j \in 1 .. Len(a) - 1 : a[j] = "--data-type"}
  IN  IF k = {} THEN "" ELSE a[Max(k) + 1]

(* The files are fixed from the start; only the ones a command line names  *)
(* are chosen.  An SSD index is one of the element type passed with        *)
(* --data-type.                                                            *)
Init ==
  /\ CliInit
  /\ file \in IF {"--graph-file", "--index-file"} \cap Range(argv) # {}
              THEN Stats!Files ELSE {NoFile}
  /\ IF "--disk-index" \in Range(argv) /\ DataTypeWord(argv) \in DOMAIN DTypeOf
     THEN DStats!DiskFile(dfile, DTypeOf[DataTypeWord(argv)])
     ELSE dfile = NoDiskFile
  /\ ids \in IF dfile = NoDiskFile THEN {<<>>} ELSE DAdj!StoredIdChoices(dfile)
  /\ Stats!CallStart
  /\ Adj!SampleStart /\ amode = "adjacency" /\ aN = 0 /\ amax = 0
  /\ Small!SampleStart /\ mmode = "small" /\ mN = 0 /\ mmax = 0
  /\ DStats!CallStart
  /\ DAdj!DSampleStart /\ damode = "adjacency" /\ daN = 0 /\ damax = 0
  /\ DSmall!DSampleStart /\ dmmode = "small" /\ dmN = 0 /\ dmmax = 0

CliStep(A) == A /\ UNCHANGED <<seqVars, diskVars>>

(* --graph-file: the stats read the file from offset 0.                    *)
StartGraph ==
  /\ phase = "start" /\ layout = "graph"
  /\ phase' = "stats"
  /\ UNCHANGED <<argv, i, opt, code, layout, seqVars, diskVars>>

(* --index-file: the file does not open, or holds fewer than 40 bytes,     *)
(* or its first words are not 4096 and something larger: return 1.        *)
IndexRejected ==
  /\ phase = "start" /\ layout = "index"
  /\ \E m \in Metas : ~MetaOk(m)
  /\ phase' = "exit" /\ code' = 1
  /\ UNCHANGED <<argv, i, opt, layout, seqVars, diskVars>>

(* The metadata looks right: the stats read the file from offset 4096,     *)
(* which is at least 40 bytes long.                                        *)
IndexAccepted ==
  /\ phase = "start" /\ layout = "index"
  /\ \E m \in Metas : MetaOk(m)
  /\ file.status # "unopened"
  /\ phase' = "stats"
  /\ UNCHANGED <<argv, i, opt, code, layout, seqVars, diskVars>>

(* --disk-index with a valid --data-type: the stats read the SSD index     *)
(* with that element type.                                                 *)
StartDisk ==
  /\ phase = "start" /\ layout = "disk"
  /\ dfile.dtype = DTypeOf[opt.dtype]
  /\ phase' = "stats"
  /\ UNCHANGED <<argv, i, opt, code, layout, seqVars, diskVars>>

StatsStep ==
  /\ phase = "stats"
  /\ \/ layout # "disk" /\ Stats!Next /\ UNCHANGED <<adjVars, smallVars, diskVars>>
     \/ layout = "disk" /\ DStats!Next /\ UNCHANGED <<seqVars, ids, dadjVars, dsmallVars>>
  /\ UNCHANGED cliVars

(* The stats of the layout, once the call has returned.                    *)
StatsReturned == IF layout = "disk" THEN dpc = "done" ELSE spc = "done"
Result == IF layout = "disk" THEN dstats ELSE stats

(* The stats fail the checks of lines 140-151: return 1.                   *)
StatsRefused ==
  /\ phase = "stats" /\ StatsReturned /\ StatsRejected(Result)
  /\ phase' = "exit" /\ code' = 1
  /\ UNCHANGED <<argv, i, opt, layout, seqVars, diskVars>>

(* Print the summary; call the samplers asked for with their arguments.    *)
Summary ==
  /\ phase = "stats" /\ StatsReturned /\ ~StatsRejected(Result)
  /\ phase' = AfterSummary
  /\ code' = IF AfterSummary = "exit" THEN 0 ELSE code
  /\ aN' = opt.adj /\ daN' = opt.adj /\ mN' = opt.small /\ dmN' = opt.small
  /\ amax' = opt.maxn /\ mmax' = opt.maxn /\ damax' = opt.maxn /\ dmmax' = opt.maxn
  /\ UNCHANGED <<argv, i, opt, layout, file, statsVars, adjCall, smallCall>>
  /\ UNCHANGED <<dfile, ids, dstatsVars, dadjCall, dsmallCall>>

AdjStep ==
  /\ phase = "adj"
  /\ \/ layout # "disk" /\ Adj!SNext /\ UNCHANGED <<file, statsVars, smallVars, diskVars>>
     \/ layout = "disk" /\ DAdj!DNext /\ UNCHANGED <<seqVars, dfile, ids, dstatsVars, dsmallVars>>
  /\ UNCHANGED cliVars

AdjReturned ==
  /\ phase = "adj"
  /\ IF layout = "disk" THEN dapc = "done" ELSE apc = "done"
  /\ phase' = AfterAdjacency
  /\ code' = IF AfterAdjacency = "exit" THEN 0 ELSE code
  /\ UNCHANGED <<argv, i, opt, layout, seqVars, diskVars>>

SmallStep ==
  /\ phase = "small"
  /\ \/ layout # "disk" /\ Small!SNext /\ UNCHANGED <<file, statsVars, adjVars, diskVars>>
     \/ layout = "disk" /\ DSmall!DNext /\ UNCHANGED <<seqVars, dfile, ids, dstatsVars, dadjVars>>
  /\ UNCHANGED cliVars

SmallReturned ==
  /\ phase = "small"
  /\ IF layout = "disk" THEN dmpc = "done" ELSE mpc = "done"
  /\ phase' = "exit" /\ code' = 0
  /\ UNCHANGED <<argv, i, opt, layout, seqVars, diskVars>>

(* An exception leaves a sampler and main(): std::terminate raises        *)
(* SIGABRT, status 134.                                                    *)
Aborted ==
  /\ \/ phase = "adj" /\ apc = "thrown"
     \/ phase = "small" /\ mpc = "thrown"
     \/ phase = "small" /\ dmpc = "thrown"
  /\ phase' = "abort" /\ code' = 134
  /\ UNCHANGED <<argv, i, opt, layout, seqVars, diskVars>>

Next ==
  \/ CliStep(CliParse) \/ CliStep(CliSelect)
  \/ StartGraph \/ IndexRejected \/ IndexAccepted \/ StartDisk
  \/ StatsStep \/ StatsRefused \/ Summary
  \/ AdjStep \/ AdjReturned \/ SmallStep \/ SmallReturned \/ Aborted

(* main() is one thread that never waits: it keeps running until it ends.  *)
Spec == Init /\ [][Next]_vars /\ WF_vars(Next)

-----------------------------------------------------------------------------
(* Every command line ends: main() returns or the process aborts.          *)
Termination == <>Ended

(* The three calls read the same file independently.  Each sampler reads  *)
(* the records the stats scan counted, in order, and no record the scan    *)
(* did not count: a sample never goes past the graph the summary reports. *)
SamplesFollowStats ==
  /\ apc = "done" => IsPrefix(acounted, scounted)
  /\ mpc = "done" => IsPrefix(mcounted, scounted)

(* When main() returns 0 on a file whose header size is honest, each       *)
(* sampler asked for printed min(N, total_nodes) rows: as many as were     *)
(* asked, or every node the summary reports.                               *)
SamplesCoverSummary ==
  (code = 0 /\ Stats!HonestWords # {}) =>
    /\ opt.adj > 0 => Len(arows) = Min({opt.adj, stats.total_nodes})
    /\ opt.small > 0 => Len(mrows) = Min({opt.small, stats.total_nodes})

(* On an honest header the summary reports exactly the records it          *)
(* describes (SeqScan's HeaderSizeBoundsScan, for the stats main() uses).  *)
StatsHonest == Stats!HeaderSizeBoundsScan

(* The stats main() prints satisfy the GraphStats invariants.              *)
StatsConsistent == Stats!ResultConsistent

(* The rows of both samplers show the records of the file as the spec      *)
(* says (SeqSample's RowsShowRecords), with the arguments main() passes.   *)
SamplesShowRecords == Adj!RowsShowRecords /\ Small!RowsShowRecords

(* The small graph's referenced_by lists are exact (SeqSample).            *)
SmallReferencedByExact == Small!ReferencedByExact

(* All three calls of either kind implement the spec's walk: the record   *)
(* walk (RecordWalk) on layouts A and B, the page walk (SectorWalk) on     *)
(* layout C, with the arguments main() passes.                             *)
WalksRefined ==
  /\ Stats!ScanRefinesWalk /\ Adj!SampleRefinesWalk /\ Small!SampleRefinesWalk
  /\ DStats!ScanRefinesSectorWalk
  /\ DAdj!SampleRefinesSectorWalk /\ DSmall!SampleRefinesSectorWalk

(* With the arguments main() passes, both disk samplers print at most      *)
(* --adjacency-sample (--small-graph) rows, and the first nodes in order   *)
(* on a whole file (DiskSample's SampleIsPrefix).                          *)
DiskSamplesArePrefix == DAdj!SampleIsPrefix /\ DSmall!SampleIsPrefix

(* The node ids of a list of visited slots.                                *)
VisitedIds(v) == [k \in DOMAIN v |-> v[k].id]

(* The disk samplers read the SSD index again, independently of the stats. *)
(* Whatever the damage to the file (a cut body, slots that overrun their   *)
(* sector, a partly filled last sector), each reads exactly the first      *)
(* min(N, n) records of the n the stats read, so its rows never show a     *)
(* node the summary did not count and never stop short of one it did.     *)
DiskSamplesFollowStats ==
  /\ dapc = "done" =>
       VisitedIds(davisited) = SubSeq(VisitedIds(dvisited), 1, Min({daN, Len(dvisited)}))
  /\ dmpc = "done" =>
       VisitedIds(dmvisited) = SubSeq(VisitedIds(dvisited), 1, Min({dmN, Len(dvisited)}))

(* The disk small graph's referenced_by lists are exact (DiskSample).      *)
DiskReferencedByExact == DSmall!ReferencedByExact

(* On layouts A and B the process aborts only where no check of main()    *)
(* bounds an allocation: out_nbrs(N) for a --small-graph above max_size(), *)
(* or a neighbor buffer sized by a degree of a single-file index, which    *)
(* skips the plausibility check of line 149.  A raw graph's degrees were   *)
(* all bounded by that check before a sampler runs, and the adjacency      *)
(* sample allocates no more than a positive --max-neighbors.               *)
AbortsOnlyWhereUnchecked ==
  phase = "abort" /\ layout # "disk" =>
    \/ mpc = "thrown" /\ (opt.small > Small!MaxVectorSize \/ layout = "index")
    \/ apc = "thrown" /\ layout = "index" /\ opt.maxn = 0

(* On an SSD index the process aborts only when both sizes that bound      *)
(* out_nbrs(num_nodes) (graph_stats.cpp:487) are out of range: the         *)
(* --small-graph argument is above max_size() and the header claims more   *)
(* nodes than the file's sectors hold.  main() checks neither (its         *)
(* plausibility check is for raw graphs), so the clamp of num_nodes to     *)
(* disk_nnodes is all that keeps --small-graph -1 on an intact index from  *)
(* aborting.                                                               *)
DiskAbortsOnlyOnCorruptHeader ==
  phase = "abort" /\ layout = "disk" =>
    /\ opt.small > DSmall!MaxVectorSize
    /\ dfile.geom.nnodes > dfile.sectors * dfile.geom.nps

(* Section 7: a misuse must degrade to an empty report, never terminate    *)
(* the process.                                                            *)
NoAbort == phase # "abort"

=============================================================================
