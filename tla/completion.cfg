SPECIFICATION FairSpec
CONSTANTS
  AttemptIds = {a1}
  Tabs = {t1}
  Fingerprints = {"empty", "unchecked", "filled", "free", "marketing"}
  NoId = NoId
  AutoEntry = TRUE
  Attempt = a1
  Facts <- MCFacts
  PinLength = 2
  MaxRounds = 2
INVARIANTS
  TypeOK
  FlowMatchesRecord
  SecretIsShortLived
PROPERTIES
  RefinesAuthority
  PressMatchesClaim
  CompletionEnds
