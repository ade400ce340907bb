CONSTANTS
  Names <- MCNames
  Rank <- MCRank
  Files <- MCFiles
  Trees <- MCTrees
  NoFile = NoFile
  NoModule = NoModule
SPECIFICATION FairSpec
INVARIANTS
  FilesMergedOnce
  ImportsResolvedWhenWellLaidOut
  LoopsUndisturbedWhenWellLaidOut
  AnalysisOnlyOfSoundPrograms
PROPERTY BuildTerminates
CHECK_DEADLOCK FALSE
