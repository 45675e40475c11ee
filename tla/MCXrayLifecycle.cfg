SPECIFICATION Spec
CONSTANTS
  Clients = {a, b}
  Initial = {a}
  Adds = {n1}
  Drops = {}
  RestartOnDisable = FALSE
  MaxDepletions = 1
  MaxForces = 1
  MaxSaves = 1
  MaxStops = 1
  MaxCrashes = 1
  MaxFaults = 1
  None = None
CHECK_DEADLOCK FALSE
INVARIANTS TypeOK ServedIsWanted
PROPERTIES ManualStopStands
