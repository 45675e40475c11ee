SPECIFICATION Spec
CONSTANTS
  Inbounds = {i1, i2}
  Slots = {s1}
  Imported = {i1}
  Unimported = {}
  Aliased = {}
  Disabled = {}
  ClientEdits = {}
  FormEdits = {e1}
  Toggles = {}
  Adds = {a1}
  Deletes = {d1}
  Tick = Tick
  Absent = Absent
  FineClock = FALSE
  LateCalls = FALSE
  MaxNodeEdits = 1
  MaxFaults = 1
  MaxRestarts = 1
CHECK_DEADLOCK FALSE
INVARIANTS WishKept
PROPERTIES EditNotLost
