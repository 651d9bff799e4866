SPECIFICATION Spec
CONSTANTS
  AttemptIds = {a1, a2, a3, a4}
  Tabs = {t1}
  Fingerprints = {f1}
  NoId = NoId
  AutoEntry = TRUE
  MaxStarts = 2
  MaxDisruptions = 0
  MaxQueue = 2
  EventStates = {"ACTIVE"}
  MaxEvents = 1
PROPERTY
  StartNeverOrphans
