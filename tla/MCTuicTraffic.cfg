SPECIFICATION FairSpec
CONSTANTS
  c1 = c1
  u1 = u1
  u2 = u2
  b1 = b1
  b2 = b2
  Clients = {c1}
  Users = {u1, u2}
  OwnerOf <- Owners
  Batches = {b1, b2}
  MaxUses = 2
  MaxEdits = 2
  MaxFaults = 4
INVARIANTS TypeOK EachInOnePlace
PROPERTIES ShutdownLosesNothing BilledInTheEnd
