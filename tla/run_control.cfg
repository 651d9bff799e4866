SPECIFICATION Spec
CONSTANTS
  AttemptIds = {a1, a2, a3}
  Tabs = {t1}
  Fingerprints = {f1}
  NoId = NoId
  AutoEntry = TRUE
  MaxStarts = 1
  MaxDisruptions = 2
  MaxQueue = 1
  EventStates = {"ACTIVE", "kept"}
  MaxEvents = 1
INVARIANTS
  ClaimIsDurable
  EffectsTellOneStory
  RecoveryShape
PROPERTIES
  DecisionIsFinal
  EffectsAfterDecision
  StopSparesClaimed
