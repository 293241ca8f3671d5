SPECIFICATION FairSpecDelivery
CONSTANTS
  Session = session
  Nobody = Nobody
  Virt = virt
  Reporters = {virt, r1}
  Modes = {"http", "grpc", "auto"}
  Answers = {a1}
  Silent = Silent
  Nothing = Nothing
  MaxTurns = 2
INVARIANTS
  SessionOverIsSettled
  SentIsShown
CHECK_DEADLOCK FALSE
PROPERTIES
  DashboardLearns
  ImplementsChoice
  ReportsEnd
  StopCloses
