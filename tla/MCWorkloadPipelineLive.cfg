SPECIFICATION Spec
CONSTANTS
  Node = {b, c}
  Absent = Absent
  Key = {j1}
  Executors = {b, c}
  QueueDepth = 1
  Retention = 1
  StaleAfter = 1
  MaxFlight = 1
  MaxCrashes = 1
PROPERTIES
  EventuallyRetired
  EventuallyForgotten
CHECK_DEADLOCK FALSE
