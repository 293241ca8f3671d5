SPECIFICATION FairSpec

CONSTANTS
  None = None
  Down = Down
  Ids = {i1}
  Jobs = {j1}
  MaxPending = 1
  CompletedCap = 1
  OutCap = 1
  FailCap = 2
  MaxSilence = 1
  MaxDelay = 1
  Versions = {}
PROPERTIES
  SessionDrains
  QueriesEnd
