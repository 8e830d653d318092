# TLA+ models of the graph-index inspector

This directory holds TLA+ models of the on-disk graph-index inspector in
`src/`. The inspector reads the graph of an approximate-nearest-neighbour
index from a file and prints statistics and samples of it. The models cover
`src/src/graph_stats.cpp` (the library) function by function. Each `MC*.tla`
module and its `.cfg` files check a model with TLC. `PROJECT.json` lists the
components, the runs, the mutants, the map from definitions to source lines,
the findings and the hazards.

## The system

The program is single-threaded and sequential. Each library function opens
the file, reads it front to back with one `std::ifstream`, and returns or
prints. Nothing is written and nothing persists between calls. So the hard
parts are not interleavings. They are what a file can hold: truncation at any
byte, headers that lie, records that overrun their page, and counters at
their boundaries.

| Part | Source | State | Operations |
|---|---|---|---|
| GraphStats result | `graph_stats.h` 10-20 | nine counters, `degree_avg` a double | default construction |
| In-memory aggregation | `compute_graph_stats`, cpp 26-60 | loop index, running sum/min/max/weak | set-up with early return, one step per node, fill-in |
| Sequential scanner (layouts A, B) | `compute_graph_stats_from_file`, 62-125 | stream position and state, `bytes_read`, node count, running totals | open, header read, one step per record, fill-in |
| Sequential samplers | `print_adjacency_sample_from_file` 135-194, `print_small_graph_from_file` 196-273 | as the scanner, plus `node_id`, `out_nbrs`, `in_nbrs` | one step per record, then the rows |
| Header resolver | 284-314 (repeated at 373-402 and 452-481) | the i32 pair, five u64 fields, stream state | tagged/untagged resolution, sanity check |
| Sector-paged reader (layout C) | `compute_graph_stats_from_disk_index`, 275-364 | sector index, stream state, running totals | one step per 4096-byte sector with its whole slot loop |
| Disk samplers | 366-443 and 445-554 | as the reader, plus rows taken, `out_nbrs`, `in_nbrs` | one step per sector, then the rows |
| Report printer | 127-133 | none | formatting only |
| Command line | `main` of `src/tests/inspect_graph.cpp` | argv index, options, mode, offset, stats | parse each flag, pick a layout, check the index metadata, call stats, exit or print the summary, then the samplers |
| Observability | `observability.h`, `observability_stubs.cpp` | none | tracing probes, empty stubs |

How the parts fit together. The command line calls one stats function. If it
gets nodes, it calls the adjacency sampler and then the small-graph sampler
for the same layout. All three functions for a layout read the same file
independently. The disk functions each repeat the same header resolution and
sanity check. All stats paths use the same per-node fold (sum, min, max and a
weak count against a threshold).

## Modules

- `GraphStats.tla` (no variables). Holds the `GraphStats` record
  (`ZeroStats`), the fold `Accumulate` from `AccInit`, the min-sentinel
  collapse `CollapseMin`, and `Avg`. `degree_avg` is kept as the exact
  quotient `[num, den]`. With the small integers of the models the double
  division is correctly rounded. Rounding is monotone, so comparing the
  average with an integer degree gives the same answer either way. The module
  also has reference definitions (`RefMin`, `RefMax`, `RefWeak`,
  `AggregateOf`) written without a loop, and the result invariant
  `StatsConsistent`.
- `StatsAggregator.tla` models `compute_graph_stats`. The graph is the
  sequence of its list sizes. `Start` is the set-up and the `total_nodes == 0`
  return. `Step` is one loop iteration. `Finish` is the fill-in.
- `SeqScan.tla` models `compute_graph_stats_from_file`. The file is either
  unopened, too short for the 24-byte header, or a header plus a body of u32
  words. A partial trailing word reads like no word. `OpenFails` and `OpenOk`
  cover the open and header read. `ReadRecord` is one loop iteration: read
  the degree, fold, then `seekg` past the list. `seekg` past EOF leaves the
  stream good, so skipping never fails. `ReadFails` is the degree read at the
  end of the file. `Finish` is the fill-in. `HonestWords`, `Tiles` and
  `ChainDegrees` (RECURSIVE) are the reference: the record chain an honest
  header describes.
- `SeqSample.tla` extends `SeqScan` and models both sequential samplers. A
  printed row is a record `[id, shown, more, total, refby]`. `AdjRow` and
  `AdjNeighborsShort` are the adjacency sample's iteration. It reads
  `to_show` ids and then seeks past the rest. `SmallRecord` and
  `SmallNeighborsShort` are the small graph's iteration. `AdjOpen` and
  `SmallOpen` are the two functions' opens; the small one allocates the
  adjacency lists, or throws (`AllocThrows`). It reads all `k`
  ids and adds reverse edges. `SDone` is the truncation to `node_id` plus
  the printing. `BufferThrows` is the per-record neighbor buffer (`nbrs(k)`
  in the small graph, `nbrs(to_show)` in the adjacency sample, see
  `BufferWords`) failing with `std::bad_alloc`. A buffer of at most
  `AllocSureWords` (10,000,000 ids, 40 MB, the same figure as
  `kMaxReasonableDegree` in `main`) is assumed to succeed. A larger one may
  throw or succeed, as the machine decides.
- `DiskLayout.tla` (no variables) models layout C: `elem_size`, the two
  header forms as 8-byte slots (`WrittenHeader`, modelled from the spec's
  layout because the writer is not in `src/`), `ResolveHeader`, the sanity
  check `GeometryOk`, `NSectors`, and the degree-field placement
  `DegreeOffset` and `SlotFits`. A u64 is carried by its residue modulo
  2^64 nearest 0 (a negative `r` stands for 2^64 + r), so sums and products
  wrap as in the code, and `U64Lt` compares two u64s as the code does.
- `DiskHeader.tla` models the header resolution and sanity check of the disk
  functions as one step (`Resolve`). It runs over headers of both forms, cut
  after any number of slots.
- `DiskScan.tla` models `compute_graph_stats_from_disk_index`. The body is the
  number of whole sectors in the file plus the degree stored for each node.
  A partial last sector fails its read like a missing one. The open actions
  are `HeaderUnreadable`, `GeometryRejected`, `LargeNodes` (`nnodes_per_sector
  = 0`) and `OpenOk`. `ReadSector` reads one sector and runs its whole inner
  loop; `SlotsRead` takes the break at the first slot that stops it.
  `ReadSectorFails` and `Finish` complete the loop. `Accepted` is the
  condition under which the sector loop runs at all. `WrittenSectors` is the
  writer's page count. It is modelled from the spec, and the model files are
  cut to it, independently of the reader's `NSectors`. The writer writes
  `WrittenNodes` records: the header's n_nodes, or at most `MaxNodesWritten`
  when that n_nodes is corrupt. A file stores a degree only for the slots
  of its whole sectors below the header's n_nodes (`HeldNodes`). These are
  the only slots a reader can reach.
- `DiskSample.tla` extends `DiskScan` and models both disk samplers. The
  neighbor ids are read as u32 words of the sector (`SectorWord`) laid out as
  the records are. So a list that claims more ids than its record holds runs
  on into the next record, as the `memcpy` does. `AdjSector` and
  `SmallSector` each handle one sector. `DAdjOpen` and `DSmallOpen` are the
  two functions' header reads. The small one clamps N to n_nodes
  (`NumNodes`) and sizes `out_nbrs` and `in_nbrs` by the result. When that
  is above `max_size()` (`MaxVectorSize`, 2^30 as in `SeqSample`), it throws
  `length_error` instead (`DAllocThrows`). `DDone` truncates and prints.

- `RecordWalk.tla` is the abstract record iterator of spec sections 4.3 and
  9, separate from any reader. `Yield` appends the next record
  `[at, deg]`, whose position follows from the previous degree. `Stop` ends
  the walk at the header's size, at the reader's limit, or where the degree
  word or the list is missing. It is not mapped to code; it is what the
  readers are checked against.
- `SectorWalk.tla` is the abstract page walk of layout C (spec sections 4.4
  and 8). Page `p` holds node ids `p * nps ..`, and there are
  `ceil(n_nodes / nps)` pages (`PageCount`). `ReadPage` reads the next page
  and takes a prefix of its ids, within the limit. `Stop` ends the walk on a
  rejected header, after the last page, at a page the file does not hold,
  or at the limit. How long each prefix is, which depends on where the first
  record that overruns the page lies, is left to the reader.
- `Cli.tla` models `main` up to the stats call: the argument loop (`TakeString`,
  `TakeSize`, `BadSize` for a word `stoul` rejects, `Help`, `SkipWord` for
  ignored words and a flag with no value), and the layout choice
  (`NoLayout`, `SelectLayout`, with the `--data-type` check). Numbers are a
  small table of numerals plus `"-1"`, which `stoul` turns into
  `ULONG_MAX`. `StatsRejected` is the three exits after the stats.
- `Inspect.tla` extends `Cli` and composes it with the library. Each call
  `main` can make is a named `INSTANCE` with its own variables and the shared
  file: `Stats`, `Adj` and `Small` (`SeqScan`/`SeqSample` on the graph or
  index file), and `DStats`, `DAdj` and `DSmall` (`DiskScan`/`DiskSample` on
  the SSD index). Each action models one statement of `main`:
  - `StartGraph`, and `IndexRejected`/`IndexAccepted` (the metadata read and
    the `meta[0] == 4096` check);
  - `StartDisk`;
  - `StatsStep`, one step of the stats call;
  - `StatsRefused`, the exits after the stats;
  - `Summary`;
  - `AdjStep`/`AdjReturned` and `SmallStep`/`SmallReturned`;
  - `Aborted`, when `std::vector` throws out of a sampler, which nothing
    catches. This is `length_error` of `out_nbrs(N)` or `bad_alloc` of a
    neighbor buffer, in either sequential sampler. It is also
    `length_error` of the disk small graph's `out_nbrs(num_nodes)`.

  The files are chosen in `Init`, only for the paths a command line names.
  An SSD index is of the element type the command line passes.

Every action models a whole step of the code, including its early returns
and breaks. The map in `PROJECT.json` gives the source lines of each
definition.

## Runs

| Run | Checks | Result |
|---|---|---|
| `stats_in_memory` | `TypeOK`, `StatsMatchDegrees`: the result is the exact aggregate of the first `nd + frozen` sizes, and min <= avg <= max | pass |
| `stats_in_memory_zero` | `ZeroNodesAllZero` | violation: the entry point survives the early return |
| `inspect` | the whole program, below | pass |
| `inspect_abort` | `NoAbort` | violation: `--small-graph -1` on a raw graph makes the `std::vector` constructor throw `length_error`, which nothing catches |
| `seq_scan_partial_record` | `NoPartialRecordCounted` | violation: a record cut by EOF is counted |
| `disk_header` | `TypeOK`; `TaggedOrTruncatedResolved`: a tagged header is accepted only when it is whole, and then its geometry is exact; `OnlyHeuristicMisreads`: an accepted geometry differs from the written one only for an untagged header with n_nodes >= 5 that the heuristic reads as tagged (the open question of the spec, stated as what the code does) | pass |
| `disk_scan` | `TypeOK`; `VisitsEveryNodeOnce`: ids strictly increasing, below n_nodes, and exactly 0..n-1 on a whole file with fitting slots; `ScanRefinesSectorWalk`: the reader implements `SectorWalk` | pass |
| `disk_scan_consistent` | `ResultConsistent` | violation: a node the reader skips still counts in the average. TLC's trace has a whole file whose second slot overruns its sector, and the result has avg < min |
| `seq_sample_partial_row` | `RowsAreWholeRecords` | violation: the adjacency sample prints a cut record |
| `disk_sample_clamp` | `AdjacencyClampedAtPage` | violation: a degree that overruns the sector prints no ids, where spec section 4.4 clamps |
| `disk_sample_labels` | `RowsAreSampleNodes` | violation: a skipped slot shifts the small graph's labels |
| `disk_scan_wrap` | `DegreeFieldInsidePage` | violation: with n_dims * elem_size wrapping to 2^64 - 4 the sanity check at `graph_stats.cpp:312` passes, and the degree field of slot 0 lies 4 bytes before the sector buffer |

The `inspect` run checks `MCInspect` with these properties:

- `SamplesFollowStats`: once a sequential sampler returns, the records it
  walked are a prefix of the records the stats counted on the same file.
- `SamplesCoverSummary`: on an honest sequential file with exit code 0,
  each sampler printed exactly min(requested, total_nodes) rows.
- `StatsHonest`: the stats count exactly the records an honest header
  describes (`SeqScan`'s `HeaderSizeBoundsScan`).
- `StatsConsistent`: the stats result is consistent.
- `SamplesShowRecords`: the sequential rows show the records as the spec
  says.
- `SmallReferencedByExact`: the sequential small graph's `referenced_by`
  lists are exact.
- `DiskSamplesArePrefix`: the disk samplers print at most the requested
  rows, and the first nodes on a whole file.
- `DiskReferencedByExact`: the disk small graph's `referenced_by` lists are
  exact.
- `DiskSamplesFollowStats`: when the stats reader and a disk sampler read
  the same file, the sampler's nodes are the first `N` nodes the stats
  reader visited, in the same order (`inspect_graph.cpp:161` runs them one
  after the other on the same index).
- `AbortsOnlyWhereUnchecked`: on layouts A and B, the program aborts only where `main` leaves
  a size unchecked. The small graph throws only for an `N` above
  `max_size()` or on an index file, whose degrees `main` never bounds
  (`inspect_graph.cpp:149` checks only raw graphs). The adjacency sample
  throws only on an index file with `--max-neighbors 0`, where `to_show` is
  the uncapped degree. On a raw graph that passed the check, no buffer is
  larger than 40 MB.
- `DiskAbortsOnlyOnCorruptHeader`: on an SSD index, the program aborts
  only when `--small-graph` is above `max_size()` and the header claims
  more nodes than the file's sectors hold. `main` bounds neither value,
  so `--small-graph -1` on an intact index is kept from aborting only by
  the clamp of `num_nodes` to n_nodes (`graph_stats.cpp:484`).
- `Termination`: every run of the program ends.
- `WalksRefined`: the stats scan and both sequential samplers each
  implement `RecordWalk`. The disk stats reader and both disk samplers each
  implement `SectorWalk`.

The violation runs and what they show are the findings in `PROJECT.json`.
Every property of a passing run has a mutant: a plausible bug in one mapped
definition under which TLC finds the property violated. Examples are a weak
test of `<=` instead of `<`, a floor instead of a ceiling, a `num_nodes` left
unclamped to n_nodes, a reverse edge pushed to the wrong list,
and a cap applied without its `> 0` guard.

### Bounds

- In-memory aggregation: up to 4 lists of size 0..3, with `nd + frozen`
  ranging over every split and thresholds 0, 2 and 4. This covers empty
  graphs, single nodes, ties for min and max, and every weak outcome.
- Sequential scan and samplers: every body of up to 4 words with values
  0..2, and header sizes 24..40 in steps of 4, plus 0 and the misaligned 26.
  This covers honest, short, long and misaligned headers, truncation inside
  a list, and trailing data. It also covers lists of up to 2 ids, sample
  sizes 1..3 (ids 0..2 fall inside and outside the sample), and caps 0 and 1.
- Disk header: n_nodes 0..6, so it crosses the heuristic's threshold of 5.
  `max_node_len` is 12, 4096 or 4100 (the last fails the upper bound).
  `meta_npts` is 5 or 9, the header is cut at every slot, and the element
  size is 1 or 4.
- Disk scan: n_nodes 0..4 and nnodes_per_sector 0..3, so there are full and
  partly filled last sectors. `max_node_len` is 4, 8, 2048, 4096 or 4100, and
  n_dims is 0, 1 or 1023. Together these make slots fit, end exactly at the
  sector end, or overrun it. Files hold any number of whole sectors up to
  n_sectors. The wrap run uses one geometry whose n_dims is 2^64 - 4 with
  1-byte elements, so the row bytes wrap to 2^64 - 4 and the record is 8
  bytes.
- Disk samplers: n_nodes 0..3 and n_dims 0. The geometries are listed in
  `MCDiskSample.tla`: one where lists run into the next record, one where a
  slot's ids are clamped to none, one where the second slot never fits, a
  large-node geometry and a rejected one. The clamp run uses instead two
  2048-byte records per sector, whose second claims 600 ids where 511 fit.
- Command line (`MCInspect.tla`): 13 command lines. They reach every exit of
  `main`: help; no path; two paths; a bad `--data-type`; a number `stoul`
  rejects; a flag with no value; each layout with both samplers; caps 0, 1
  and the default 20; `--adjacency-sample 1` on an SSD index, below its
  node count; `--small-graph -1` on a raw graph and on an SSD index; and
  two index-file lines, one with `--max-neighbors 1` and one with
  `--max-neighbors 0`.
  - Graph and index files use the sequential bounds above, with degree
    10000001 added. That degree makes a raw graph look implausible, and it
    is one above `AllocSureWords`, so a buffer for it may throw.
  - The metadata words are 0, 4096 or 8192, or unreadable.
  - SSD indexes use the sampler geometries with n_nodes 0..2 and headers of
    all seven slots. One geometry has one 4096-byte record per sector, so a
    disk sampler reads a second sector. One more header is corrupt: it
    claims 2^30 + 1 nodes (above `max_size()`, below the stand-in for
    `ULONG_MAX`) in front of at most `MaxNodesWritten` = 2 records. With
    `--small-graph -1`, the disk small graph throws behind that header.
  - The run has 412323 distinct states and takes about a minute and a half.

### Fairness

`SeqScan.Spec` and `Inspect.Spec` carry `WF_vars(Next)`. The program is one
thread with blocking reads and no waits or locks, so it keeps taking steps
while it can. `Termination` is checked under that fairness. The other runs
check only safety. Every run sets `CHECK_DEADLOCK FALSE` because the program
ends: its final state has no successor.

### Refinement

`SeqScan` and `SeqSample` each instantiate `RecordWalk` with the mapping
below, and assert its `Spec` as `ScanRefinesWalk` and `SampleRefinesWalk`:

- `body` is the file's words;
- `size` is the header's expected size;
- `limit` is unbounded for the stats and `N` for a sampler;
- `yielded` is the records the call counted;
- `stopped` is `pc = "done"`.

`Inspect` checks all three calls at once (`WalksRefined`).

`DiskScan` and `DiskSample` instantiate `SectorWalk` in the same way, as
`ScanRefinesSectorWalk` and `SampleRefinesSectorWalk`:

- `accepted` is `Accepted`, that is, the header resolved, passed the sanity
  check and has `nnodes_per_sector > 0`;
- `nnodes` and `nps` are the resolved geometry's;
- `readable` is the whole sectors of the file;
- `limit` is n_nodes for the stats and `N` for a sampler;
- `page` is the sector index;
- `yielded` is the ids of the nodes visited or taken;
- `stopped` is `pc = "done"`.

The mapping shows that the readers compute their page count as a ceiling.
It also shows that they never skip a node inside a page except by ending
that page, and never read a page twice. `Inspect` checks the disk
refinements as part of `WalksRefined`.

## Not modelled

- `print_graph_report` and the text of every row and message. These are
  formatting only; the rows are kept as records and the messages are left
  out.
- The observability header and stubs. No file under `src/` calls them; the
  header keeps a thread-local context that is only stored and loaded, and
  the stubs are empty. There is no state change a property could observe.
- The machine's memory. `max_size()` is taken as 2^30 for `length_error`
  (`AllocThrows`). A `bad_alloc` is assumed impossible for a buffer of at most
  40 MB and possible for any larger one (`BufferThrows`). Which of the larger
  allocations really fail depends on the machine; the model lets each one
  fail or succeed. The disk small graph's `out_nbrs` and `in_nbrs` throw
  `length_error` above `max_size()` (`DAllocThrows`). A `bad_alloc` of
  theirs below it is not modelled. The `in_nbrs` lists, grown by
  `push_back`, and the disk adjacency buffer, whose `to_show` ids fit in
  one sector, are not modelled as failing.
- Byte-unaligned records in the disk samplers (n_dims * elem_size not a
  multiple of 4). The word view of the sector needs alignment. The stats
  reader, which reads only degree fields, is checked with unaligned offsets.
- The bytes a raw graph and a single-file index have in common. `Inspect`
  chooses the metadata words independently of the graph bytes, so it does
  not check a raw graph that happens to pass `meta[0] == 4096` (hazard at
  `inspect_graph.cpp:130`). The independent choice over-approximates the
  case, because every metadata outcome is combined with every graph file.
  A raw graph's first u64 is its own `expected_file_size`. So a raw graph
  whose first word is 4096 either is rejected or is exactly 4096 bytes,
  which is too short for the 4096-byte data offset. The program then refuses
  it at line 140. Only a raw graph much longer than its header says could be
  misread. Such a file needs thousands of words, which is beyond TLC.

## Plan for later work

1. Relate the metadata words to the graph bytes, so that a raw graph whose
   first u64 is 4096 can be passed as `--index-file`. This needs a symbolic
   file model rather than enumerated words.
