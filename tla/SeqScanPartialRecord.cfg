CONSTANTS
  MaxWords <- MCMaxWords
  Vals <- MCVals
  ExpectedSizes <- MCExpectedSizes
  EntryPoints <- MCEntryPoints
  FrozenCounts <- MCFrozenCounts
SPECIFICATION Spec
INVARIANT NoPartialRecordCounted
CHECK_DEADLOCK FALSE
