CONSTANTS
  NumFunctions = 3
  NumEntries = 2
SPECIFICATION MCSpec
INVARIANTS
  PruneInvariant
  CallsKeepTargets
  LoadsKeepEntries
  OnlyReachableMarked
PROPERTY PruneTerminates
CHECK_DEADLOCK FALSE
