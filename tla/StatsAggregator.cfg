CONSTANTS
  MaxNodes <- MCMaxNodes
  Degrees <- MCDegrees
  EntryPoints <- MCEntryPoints
  FrozenCounts <- MCFrozenCounts
  WeakThresholds <- MCWeakThresholds
SPECIFICATION Spec
INVARIANTS
  TypeOK
  StatsMatchDegrees
CHECK_DEADLOCK FALSE
