CONSTANTS
  MaxNodesWritten <- MCMaxNodesWritten
  Geometries <- MCGeometries
  Layouts <- MCLayouts
  HeaderLens <- MCHeaderLens
  DTypes <- MCDTypes
  Vals <- MCVals
SPECIFICATION Spec
INVARIANT ResultConsistent
CHECK_DEADLOCK FALSE
