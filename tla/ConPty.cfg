SPECIFICATION Spec
CONSTANTS
  Word = 4
  Commands <- MCCommands
  Cwd <- MCCwd
INVARIANTS
  TypeOK
  HandlesAccounted
  SizeRight
  FindsOwnChild
  RunsWhatChdirWould
  EnvironmentRight
CHECK_DEADLOCK FALSE
