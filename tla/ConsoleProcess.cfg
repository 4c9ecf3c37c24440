SPECIFICATION FairSpec
CONSTANTS
  Timeout = 2
  DrainTime = 1
  ExitCodes = {0, 1}
  MaxOutput = 2
  MaxPending = 1
  Endless = FALSE
  MaxCalls = 3
  RetainWorkDir = FALSE
  FatalObserver = FALSE
INVARIANTS
  ExpectOwnership
  ShutdownOrder
  FirstVerdictGenuine
  WaitLeavesNoProcess
  CloseEffective
  IInv
PROPERTIES
  ReadersCloseLast
  CallsReturn
  CloseReleasesWaiter
