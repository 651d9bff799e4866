SPECIFICATION Spec
CONSTANTS
  Configs <- MCConfigs
  MaxCycles = 2
  MaxRequests = 2
PROPERTIES
  NoClickAfterStop
CHECK_DEADLOCK FALSE
