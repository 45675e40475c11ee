SPECIFICATION FairSpec
CONSTANTS
  n1 = n1
  c1 = c1
  c2 = c2
  Nodes = {n1}
  Callers = {c1, c2}
  Job = Job
  Quota = 2
  MaxUses = 3
  MaxResets = 2
  MaxFaults = 1
CHECK_DEADLOCK FALSE
INVARIANTS TypeOK OwedUntilHeard NeverOvercounts ResetStandsUnlessOvertaken
PROPERTIES AgreesAgain
