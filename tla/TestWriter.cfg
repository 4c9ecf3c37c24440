SPECIFICATION FairSpec
CONSTANTS
  Letters = {"a", "b"}
  BufSize = 3
  MaxText = 6
INVARIANTS
  TypeOK
  NothingLost
  LinesApart
PROPERTIES
  FlushedOnLineEnd
  WriteReturns
CHECK_DEADLOCK FALSE
