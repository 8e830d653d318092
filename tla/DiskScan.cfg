CONSTANTS
  MaxNodesWritten <- MCMaxNodesWritten
  Geometries <- MCGeometries
  Layouts <- MCLayouts
  HeaderLens <- MCHeaderLens
  DTypes <- MCDTypes
  Vals <- MCVals
SPECIFICATION Spec
INVARIANTS
  TypeOK
  VisitsEveryNodeOnce
PROPERTY
  ScanRefinesSectorWalk
CHECK_DEADLOCK FALSE
