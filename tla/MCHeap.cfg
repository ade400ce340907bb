CONSTANTS
  Word = 65536
  ChunkUnits = 10
  Bases <- MCBases
  Requests = {1, 30, 200}
  Idle = Idle
SPECIFICATION FairSpec
INVARIANTS
  ChunksTiled
  BlocksDisjoint
  BitIsTruth
PROPERTIES
  OthersUndisturbed
  CallsReturn
