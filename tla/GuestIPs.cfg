SPECIFICATION FairSpec
CONSTANTS
  VMs = {v1, v2}
  Workers = 2
  Retries = 1
  Delay <- MCDelay
  Pause = 1
  Changing = {v1}
  MaxChanges = 1
  MaxStops = 1
INVARIANTS
  AttachedIsOwn
PROPERTIES
  QueriesSpaced
  EveryGuestAsked
