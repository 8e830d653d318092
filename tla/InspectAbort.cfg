CONSTANTS
  MaxNodesWritten <- MCMaxNodesWritten
  Argvs <- MCArgvs
  MaxWords <- MCMaxWords
  Vals <- MCVals
  ExpectedSizes <- MCExpectedSizes
  EntryPoints <- MCEntryPoints
  FrozenCounts <- MCFrozenCounts
  MetaWords <- MCMetaWords
  Geometries <- MCGeometries
  Layouts <- MCLayouts
  HeaderLens <- MCHeaderLens
  DiskVals <- MCDiskVals
  DiskDTypes <- MCDiskDTypes
  IdVals <- MCIdVals
SPECIFICATION Spec
INVARIANTS
  NoAbort
CHECK_DEADLOCK FALSE
