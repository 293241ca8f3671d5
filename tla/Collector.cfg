SPECIFICATION FairSpec
CONSTANTS
  VMs = {1, 2, 3}
  Workers = {w1, w2}
  Configs = {c1}
  Absent = Absent
  Nothing = Nothing
  MaxChanges = 2
INVARIANTS
  SamplesExclusive
  GoneIsForgotten
  WorkConserving
PROPERTIES
  SamplesCatchUp
