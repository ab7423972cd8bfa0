SPECIFICATION Safety
CONSTANTS
  Node = {b, c}
  Absent = Absent
  Key = {j1}
  Executors = {b, c}
  QueueDepth = 2
  Retention = 1
  StaleAfter = 1
  MaxFlight = 2
  MaxCrashes = 1
INVARIANTS
  TypeOK
  PeerAgrees
  ResyncIsTruthful
PROPERTY NoResurrection
CHECK_DEADLOCK FALSE
