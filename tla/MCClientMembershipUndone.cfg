SPECIFICATION Spec
CONSTANTS
  n1 = n1
  n2 = n2
  Inbounds = {1, 2}
  Nodes = {n1}
  HostOf <- OneNode
  Shared = {1, 2}
  Grace = 1
  MaxCalls = 1
  MaxFaults = 0
CHECK_DEADLOCK FALSE
INVARIANTS DeletedStaysDeleted
