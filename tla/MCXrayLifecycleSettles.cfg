SPECIFICATION FairSpec
CONSTANTS
  Clients = {a, b}
  Initial = {a}
  Adds = {n1}
  Drops = {r1}
  RestartOnDisable = TRUE
  MaxDepletions = 1
  MaxForces = 0
  MaxSaves = 0
  MaxStops = 1
  MaxCrashes = 1
  MaxFaults = 1
  None = None
CHECK_DEADLOCK FALSE
INVARIANTS ServedIsWanted SessionsEnd
PROPERTIES Recovers
