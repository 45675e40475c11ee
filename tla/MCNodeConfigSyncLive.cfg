SPECIFICATION FairSpec
CONSTANTS
  Inbounds = {i1}
  Slots = {s1, s2}
  Imported = {i1}
  Unimported = {}
  Aliased = {i1}
  Disabled = {}
  ClientEdits = {c1}
  FormEdits = {}
  Toggles = {t1}
  Adds = {}
  Deletes = {}
  Tick = Tick
  Absent = Absent
  FineClock = TRUE
  LateCalls = TRUE
  MaxNodeEdits = 0
  MaxFaults = 1
  MaxRestarts = 1
CHECK_DEADLOCK FALSE
INVARIANTS TypeOK MergeSeesEdits
PROPERTIES Converges EditNotLost
