SPECIFICATION Spec
CONSTANTS
  t1 = t1
  t2 = t2
  t3 = t3
  Threads <- TwoThreads
  WindowSize = 4
  Start = 1
  MaxKey = 4
  Span = 4
INVARIANT AcknowledgedIsAvailable
