SPECIFICATION FairSpec
CONSTANTS
  k1 = k1
  v1 = v1
  v2 = v2
  a1 = a1
  Keys = {k1}
  Configs = {v1, v2}
  Callers = {a1}
  Boot = Boot
  Job = Job
  Absent = Absent
  Off = Off
  MaxEdits = 2
  MaxFaults = 2
CHECK_DEADLOCK FALSE
INVARIANTS TypeOK OnePerKey
PROPERTIES NothingLeft Undisturbed Settles
