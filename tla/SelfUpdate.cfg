SPECIFICATION FairSpecNode
CONSTANTS
  Targets = {t1}
  None = None
  Versions = {1, 2}
  MaxFaults = 2
INVARIANTS
  OneFaultLosesNothing
  StartsCompleted
PROPERTY UpdateConverges
