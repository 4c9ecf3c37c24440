SPECIFICATION FairSpec
CONSTANTS
  MaxRunes = 2
  MaxMissed = 1
  InputSize = 1
  MaxInputs = 1
  Files = 1
  CloseFails = TRUE
INVARIANTS
  AnswersInOrder
  NoAnswerLost
  CloseComplete
  IInv
CHECK_DEADLOCK FALSE
PROPERTIES
  CloseFreesTerminal
  ReplyTakenOver
  WritesEnd
  CopiersEnd
