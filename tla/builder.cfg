SPECIFICATION Spec
CONSTANTS
  q1 = q1
  q2 = q2
  b1 = b1
  b2 = b2
  Requests <- MCRequests
  Builds <- MCBuilds
  NoBuild = NoBuild
  Parts <- MCParts
  Dotted <- MCDotted
  Root <- MCRoot
  Files <- MCFiles
  Dirs <- MCDirs
  Configs <- MCConfigs
  RepoPaths <- Texts
  Sources <- MCSources
  ExecuteJobs = TRUE
  MaxReads = 2
  MaxFaults = 1
  MaxRestarts = 1
INVARIANTS
  TypeOK
  SourceIsExact
  RowFollowsMemory
  GaugesCountBuilds
  SuccessStaysShown
SYMMETRY Symmetry
CHECK_DEADLOCK FALSE
