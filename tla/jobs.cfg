SPECIFICATION Spec
CONSTANTS
  JobIds = {j1, j2}
  NoJob = NoJob
  Configs <- MCConfigs
  Limit = 2
  Keep = 1
  MaxSaves = 2
  MaxRuns = 2
  MaxDisruptions = 2
  MaxQueue = 1
  MaxTime = 2
INVARIANTS
  TypeOK
  NoOverlap
  LaunchedOnce
  MarkedMeansFinished
  MissedIsNotPlaying
CHECK_DEADLOCK FALSE
