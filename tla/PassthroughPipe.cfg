SPECIFICATION FairSpec
CONSTANTS
  MaxCalls = 3
  MaxSent = 3
  BufSize = 2
INVARIANTS
  LossBounded
  SoleReader
  IInv
PROPERTIES
  ImplementsStream
  ReadReturns
  DataArrives
  GoroutinesEnd
CHECK_DEADLOCK FALSE
