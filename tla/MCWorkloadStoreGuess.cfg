SPECIFICATION StoreSpec
CONSTANTS
  j1 = j1
  j2 = j2
  Node = {a, b}
  Key = {j1}
  Self = a
  Absent = Absent
  Origin <- MCOrigin
  ClientId <- MCClientId
  Executors = {a, b}
  Generations = {1}
  Stamps = {TRUE}
  StaleAfter = 1
  MaxClock = 3
  MaxPicks = 1
INVARIANT GuessNeverConfirms
CHECK_DEADLOCK FALSE
