SPECIFICATION Spec
CONSTANTS
  None = None
  Targets = {t1, t2}
  Snapshots = {s1, s2}
  Partial = {}
INVARIANT SettledIsCurrent
