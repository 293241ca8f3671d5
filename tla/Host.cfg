SPECIFICATION MCSpec
CONSTANTS
  Targets = {t1}
  Names = {h1, h2}
  Unknown = Unknown
  Rests = {full, nomem}
  NoMemory = {nomem}
  Watcher = Watcher
  None = None
  Snapshots <- MCSnapshots
  Partial <- MCPartial
  Mounts = {m1, m2}
  Workers = {w1}
  Main = Main
  Nothing = Nothing
  MaxUsage = 1
  MaxProbes = 2
  Pools = {p1, p2}
  Devices = {d1}
  Builders = {b1}
  Absent = Absent
  MaxSamples = 3
  MaxCount = 2
INVARIANTS
  SettledIsCurrent
  ReadingsInOrder
PROPERTIES
  KnownStays
  RatesAreTraffic
  HostReachesServers
  HealthyIsShown
  RatesFollowPools
