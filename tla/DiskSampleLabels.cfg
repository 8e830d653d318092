CONSTANTS
  MaxNodesWritten <- MCMaxNodesWritten
  Geometries <- MCGeometries
  Layouts <- MCLayouts
  HeaderLens <- MCHeaderLens
  DTypes <- MCDTypes
  Vals <- MCVals
  Modes <- MCModes
  SampleSizes <- MCSampleSizes
  MaxShowns <- MCMaxShowns
  IdVals <- MCIdVals
SPECIFICATION DSpec
INVARIANT
  RowsAreSampleNodes
CHECK_DEADLOCK FALSE
