SPECIFICATION FairSpec
CONSTANTS
  None = None
  v1 = v1 
  q1 = q1  q2 = q2  q3 = q3
  Callers = {k1}
  Calls = {c1, c2}
  VMs <- MCOneVM
  Queries <- MCQueries
  VMOf <- MCVMOfSameVM
  MaxActive = 1
  MaxEntries = 2
  Slots = 1
  MaxBytes = 3
  MaxRaw = 2
  OkTTL = 2
  ErrTTL = 1
  Cooldown = 1
INVARIANTS
  EvictHasVictim
  BytesExact
PROPERTIES
  EveryGetReturns
  ShutdownDrains
