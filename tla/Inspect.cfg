CONSTANTS
  MaxNodesWritten <- MCMaxNodesWritten
  Argvs <- MCArgvs
  MaxWords <- MCMaxWords
  Vals <- MCVals
  ExpectedSizes <- MCExpectedSizes
  EntryPoints <- MCEntryPoints
  FrozenCounts <- MCFrozenCounts
  MetaWords <- MCMetaWords
  Geometries <- MCGeometries
  Layouts <- MCLayouts
  HeaderLens <- MCHeaderLens
  DiskVals <- MCDiskVals
  DiskDTypes <- MCDiskDTypes
  IdVals <- MCIdVals
SPECIFICATION Spec
INVARIANTS
  SamplesFollowStats
  SamplesCoverSummary
  StatsHonest
  StatsConsistent
  SamplesShowRecords
  SmallReferencedByExact
  DiskSamplesArePrefix
  DiskReferencedByExact
  DiskSamplesFollowStats
  AbortsOnlyWhereUnchecked
  DiskAbortsOnlyOnCorruptHeader
PROPERTIES
  Termination
  WalksRefined
CHECK_DEADLOCK FALSE
