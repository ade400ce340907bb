CONSTANTS
  SysResult <- MCSysResult
  ByteBits = 2
  Runs <- MCRuns
SPECIFICATION Spec
INVARIANTS StackAligned FramesApart CallersFrameKept
PROPERTY ImplementsIR
