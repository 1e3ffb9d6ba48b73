SPECIFICATION ProcessSpec
CONSTANTS
  ThreadCount = 2
  OpCounts <- FewCounts
  BatchSizes <- OneBatch
  MaxWasted = 1
  MaxSignals = 2
INVARIANTS
  ProcessTypeOK
  ClosedAfterUse
  OutputAlone
PROPERTIES
  SignalEndsProcess
  ProcessEnds
CHECK_DEADLOCK FALSE
