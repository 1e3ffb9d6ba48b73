SPECIFICATION ProcessSpec
CONSTANTS
  ThreadCount = 2
  OpCounts <- FewCounts
  BatchSizes <- OneBatch
  MaxWasted = 1
  MaxSignals = 2
INVARIANTS
  PushedAtExit
CHECK_DEADLOCK FALSE
