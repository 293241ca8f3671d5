SPECIFICATION SpecLoop
CONSTANTS
  Targets = {t1, t2}
  None = None
  Versions = {1, 2}
  Devices = {}
  Agent = Agent
  Page = Page
  Builders = {Agent, Page}
  Absent = Absent
  MaxSamples = 3
  MaxCount = 0
INVARIANTS
  NoTargetEndsLoop
  PageShowsPushed
PROPERTIES
  UpdateIffAgreed
  ServersAdvance
