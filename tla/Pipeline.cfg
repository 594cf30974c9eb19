CONSTANTS
  NumTasks = 3
  TypeOf <- MCTypeOf
  InputsOf <- MCInputsOf
  MaxRetry = 2
  Scopes <- MCScopes
  Modes <- MCModes
  MaxFiles = 4
  MaxDrops = 1
  MaxRuns = 2
  MaxCrashes = 1
  MaxByHand = 1
SPECIFICATION Spec
INVARIANT DoneIsAccepted
PROPERTIES FilesKept UnattendedRunEnds
CHECK_DEADLOCK FALSE
