CONSTANTS
  MaxWords <- MCMaxWords
  Vals <- MCVals
  ExpectedSizes <- MCExpectedSizes
  EntryPoints <- MCEntryPoints
  FrozenCounts <- MCFrozenCounts
  Modes <- MCModes
  SampleSizes <- MCSampleSizes
  MaxShowns <- MCMaxShowns
SPECIFICATION SSpec
INVARIANT
  RowsAreWholeRecords
CHECK_DEADLOCK FALSE
