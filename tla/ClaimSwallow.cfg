SPECIFICATION Spec
CONSTANTS
  MaxCalls = 2
  MaxSent = 2
  BufSize = 2
INVARIANT NextReadGetsRemaining
CHECK_DEADLOCK FALSE
