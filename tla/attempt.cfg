SPECIFICATION FairSpec
CONSTANTS
  Configs <- MCConfigs
  MaxCycles = 2
  MaxRequests = 2
INVARIANTS
  TypeOK
  SlotClickedOnce
  WakeIsCurrent
  PressesInMeasure
  PaymentPolicyKept
  LeavesNothingBehind
  EndingIsTrue
PROPERTIES
  CutShortKnowingly
  CauseFitsPresses
  HonoursContract
  AttemptEnds
CHECK_DEADLOCK FALSE
