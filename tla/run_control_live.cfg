SPECIFICATION FairSpec
CONSTANTS
  AttemptIds = {a1, a2}
  Tabs = {t1}
  Fingerprints = {f1}
  NoId = NoId
  AutoEntry = TRUE
  MaxStarts = 1
  MaxDisruptions = 2
  MaxQueue = 2
  EventStates = {}
  MaxEvents = 0
INVARIANTS
  TypeOK
  AckIsDurable
  SubmitNeverDisowned
PROPERTIES
  StopMarkerWins
  RunsSettle
