SPECIFICATION Spec
CONSTANTS
  AttemptIds = {a1, a2}
  Tabs = {t1}
  Fingerprints = {f1}
  NoId = NoId
  AutoEntry = TRUE
  MaxStarts = 1
  MaxDisruptions = 1
  MaxQueue = 2
  EventStates = {"ACTIVE"}
  MaxEvents = 1
PROPERTY
  StopRefusesClaims
