SPECIFICATION Spec
SYMMETRY Symmetric
CONSTANTS
  None = None
  v1 = v1 
  q1 = q1  q2 = q2  q3 = q3
  Callers = {k1, k2}
  Calls = {c1, c2}
  VMs <- MCOneVM
  Queries <- MCQueriesOneVM
  VMOf <- MCVMOfOneVM
  MaxActive = 2
  MaxEntries = 3
  Slots = 2
  MaxBytes = 1
  MaxRaw = 1
  OkTTL = 1
  ErrTTL = 1
  Cooldown = 1
INVARIANTS
  OneLookupPerVM
  OwnedUntilReaped
  ActiveExact
  AbandonedIsCancelled
