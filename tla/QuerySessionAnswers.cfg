SPECIFICATION Spec
SYMMETRY Symmetric
CONSTANTS
  None = None
  Down = Down
  Ids = {i1, i2, i3}
  Jobs = {j1, j2, j3}
  MaxPending = 2
  CompletedCap = 2
  OutCap = 1
  FailCap = 2
  MaxSilence = 1
  MaxDelay = 1
  Versions = {v1}
CONSTRAINT OneSession
INVARIANTS
  JobsArePending
  ReportsNeverBlock
  AnswersExact
