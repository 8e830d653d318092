CONSTANTS
  MaxNodesWritten <- MCMaxNodesWritten
  Geometries <- MCClampGeometries
  Layouts <- MCLayouts
  HeaderLens <- MCHeaderLens
  DTypes <- MCDTypes
  Vals <- MCClampVals
  Modes <- MCClampModes
  SampleSizes <- MCSampleSizes
  MaxShowns <- MCMaxShowns
  IdVals <- MCClampIdVals
SPECIFICATION DSpec
INVARIANT
  AdjacencyClampedAtPage
CHECK_DEADLOCK FALSE
