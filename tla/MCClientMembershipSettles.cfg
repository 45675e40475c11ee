SPECIFICATION FairSpec
CONSTANTS
  n1 = n1
  n2 = n2
  Inbounds = {1, 2}
  Nodes = {n1}
  HostOf <- OneNode
  Shared = {2}
  Grace = 1
  MaxCalls = 2
  MaxFaults = 1
CHECK_DEADLOCK FALSE
PROPERTIES SweptEnds AgreesInTheEnd
