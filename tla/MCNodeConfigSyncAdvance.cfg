SPECIFICATION Spec
CONSTANTS
  Inbounds = {i1}
  Slots = {s1}
  Imported = {i1}
  Unimported = {}
  Aliased = {}
  Disabled = {}
  ClientEdits = {c1}
  FormEdits = {}
  Toggles = {}
  Adds = {}
  Deletes = {}
  Tick = Tick
  Absent = Absent
  FineClock = TRUE
  LateCalls = FALSE
  MaxNodeEdits = 0
  MaxFaults = 0
  MaxRestarts = 0
CHECK_DEADLOCK FALSE
INVARIANTS SkipIsSafe
