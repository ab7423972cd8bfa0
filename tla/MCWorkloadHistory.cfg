SPECIFICATION Spec
CONSTANTS
  Node = {a, b}
  Key = {j1}
  Self = a
  Absent = Absent
  Missing = Missing
  Origin <- MCOrigin
  ClientId <- MCClientId
  Executors = {b}
  Generations = {1}
  Stamps = {TRUE}
  StaleAfter = 1
  MaxClock = 2
  MaxPicks = 1
  Rotations = 2
  HistoryCap = 1
  MaxAge = 0
  MaxShifts = 3
INVARIANTS
  HistoryTypeOK
  DiskIsAsserted
  LastWriteSurvives
  CleanMeansSaved
CHECK_DEADLOCK FALSE
