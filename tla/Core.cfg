SPECIFICATION Spec
CONSTANTS
  t1 = t1
  t2 = t2
  b1 = b1
  b2 = b2
  b3 = b3
  b4 = b4
  Threads <- TwoThreads
  Configurations <- AllConfigurations
  RecordCount = 1
  Buffers <- FourBuffers
  MaxKey = 4
SYMMETRY Symmetric
INVARIANTS
  TypeOK
  ChosenKeyExists
  RowsVerify
  LoadAccountsForKeys
CHECK_DEADLOCK FALSE
