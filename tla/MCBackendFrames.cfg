CONSTANTS
  SysResult <- MCSysResult
  ByteBits = 2
  Runs <- HalfRuns
SPECIFICATION Spec
INVARIANT CallersFrameKept
