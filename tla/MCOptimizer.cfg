CONSTANTS
  Sources <- MCSources
  SysResult <- MCSysResult
  ByteBits = 2
SPECIFICATION Spec
INVARIANTS SameOutcome
PROPERTY EveryRunEnds
CHECK_DEADLOCK FALSE
