SPECIFICATION Spec
CONSTANTS
  Letters <- MCLetters
  OptionSets <- MCOptionSets
  DefaultTimeout = FALSE
  Observers = 2
  MaxExpects = 3
  MaxRunes = 4
INVARIANTS
  TypeOK
  StopsAtFirst
  NothingMissed
  ToldWhatIsReturned
CHECK_DEADLOCK FALSE
