CONSTANTS
  Names <- MCNames
  Rank <- MCRank
  MaxDeps = 2
SPECIFICATION MCFairSpec
INVARIANTS
  DependenciesFirst
  EveryModuleOnce
  SearchInvariant
  CyclesReported
PROPERTY TopoTerminates
CHECK_DEADLOCK FALSE
