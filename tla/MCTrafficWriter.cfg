SPECIFICATION FairSpec
CONSTANTS
  Writes = {w1, w2, w3}
  Controllers = {c1, c2}
  QueueSize = 1
  MaxGen = 2
  Nobody = Nobody
CHECK_DEADLOCK FALSE
INVARIANTS TypeOK OneWriter NothingLeftBehind HonestAnswer
PROPERTIES EveryCallReturns StopReturns ImplementsService
