SPECIFICATION FairSpec
CONSTANTS
  ThreadCount = 2
  OpCounts <- SmallCounts
  BatchSizes <- SmallBatches
  MaxWasted = 2
INVARIANTS
  AllWorkDone
  MeasuredAsCounted
  OneRoundAfterCancel
  NothingLeftBehind
PROPERTIES
  RunReturns
CHECK_DEADLOCK FALSE
