CONSTANTS
  MaxNodes <- MCMaxNodes
  Degrees <- MCDegrees
  EntryPoints <- MCEntryPoints
  FrozenCounts <- MCFrozenCounts
  WeakThresholds <- MCWeakThresholds
SPECIFICATION Spec
INVARIANT ZeroNodesAllZero
CHECK_DEADLOCK FALSE
