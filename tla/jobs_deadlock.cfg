SPECIFICATION FairSpec
CONSTANTS
  JobIds = {j1, j2}
  NoJob = NoJob
  Configs <- MCTouching
  Limit = 2
  Keep = 1
  MaxSaves = 2
  MaxRuns = 2
  MaxDisruptions = 0
  MaxQueue = 1
  MaxTime = 2
PROPERTY
  RunEndsItsJob
CHECK_DEADLOCK FALSE
