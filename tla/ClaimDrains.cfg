SPECIFICATION FairSpec
CONSTANTS
  MaxRunes = 2
  MaxMissed = 1
  InputSize = 1
  MaxInputs = 1
  Files = 1
  CloseFails = TRUE
PROPERTIES
  RwPipeIsDrained
CHECK_DEADLOCK FALSE
