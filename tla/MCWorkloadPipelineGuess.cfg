SPECIFICATION FairSpec
CONSTANTS
  Node = {b}
  Absent = Absent
  Key = {j1}
  Executors = {b}
  QueueDepth = 1
  Retention = 1
  StaleAfter = 1
  MaxFlight = 1
  MaxCrashes = 0
PROPERTY OriginGuessCorrected
CHECK_DEADLOCK FALSE
