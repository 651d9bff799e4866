SPECIFICATION FairSpec
CONSTANTS
  Runs = {"first", "second"}
  NoRun = "none"
  Critical = {2, 3}
  BatchSize = 2
  QueueSize = 2
  Length <- MCLength
  MaxPending = 2
  MaxFaults = 2
INVARIANTS
  TypeOK
  NothingSilentlyLost
  FlushMeansStored
  GapsAreDeclared
  OverflowIsCritical
PROPERTIES
  QueueDrains
CHECK_DEADLOCK FALSE
