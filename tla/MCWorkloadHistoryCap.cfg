SPECIFICATION Spec
CONSTANTS
  Node = {a, b}
  Key = {j1, j2}
  Self = a
  Absent = Absent
  Missing = Missing
  Origin <- MCOrigin
  ClientId <- MCClientId
  Executors = {b}
  Generations = {1}
  Stamps = {TRUE}
  StaleAfter = 1
  MaxClock = 1
  MaxPicks = 1
  Rotations = 1
  HistoryCap = 1
  MaxAge = 5
  MaxShifts = 2
INVARIANTS
  CleanMeansSaved
CHECK_DEADLOCK FALSE
