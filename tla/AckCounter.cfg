SPECIFICATION FairSpec
CONSTANTS
  t1 = t1
  t2 = t2
  t3 = t3
  Threads <- ThreeThreads
  WindowSize = 2
  Start = 1
  MaxKey = 6
  Span = 2
INVARIANTS
  OnlyAcknowledged
  NeverPanics
  StallOnlyAfterLostRace
PROPERTIES
  AcknowledgeReturns
  ImplementsPromise
