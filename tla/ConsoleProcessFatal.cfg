SPECIFICATION FairSpec
CONSTANTS
  Timeout = 2
  DrainTime = 1
  ExitCodes = {0, 1}
  MaxOutput = 1
  MaxPending = 1
  Endless = FALSE
  MaxCalls = 2
  RetainWorkDir = TRUE
  FatalObserver = TRUE
PROPERTY CloseReleasesWaiter
CHECK_DEADLOCK FALSE
