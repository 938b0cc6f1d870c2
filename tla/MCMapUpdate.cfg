SPECIFICATION MapFairSpec
CONSTANTS
  Worker = {w1, w2}
  Owner = main
  Client <- MCClient
  Task <- MCTask
  Block = {b1, b2}
  NumScans = 2
  NoThread = NoThread
  NoTask = NoTask
INVARIANTS
  RaceFree
  TaskIsCurrent
PROPERTIES
  AtomicUpdate
  UpdateMapReturns
CHECK_DEADLOCK FALSE
