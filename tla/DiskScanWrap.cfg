CONSTANTS
  MaxNodesWritten <- MCMaxNodesWritten
  Geometries <- MCWrapGeometries
  Layouts <- MCLayouts
  HeaderLens <- MCHeaderLens
  DTypes <- MCWrapDTypes
  Vals <- MCVals
SPECIFICATION Spec
INVARIANT
  DegreeFieldInsidePage
CHECK_DEADLOCK FALSE
