CONSTANTS
  Geometries <- MCGeometries
  NptsMetas <- MCNptsMetas
  NextSlots <- MCNextSlots
SPECIFICATION Spec
INVARIANTS
  TypeOK
  TaggedOrTruncatedResolved
  OnlyHeuristicMisreads
CHECK_DEADLOCK FALSE
