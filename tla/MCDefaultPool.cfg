SPECIFICATION MapFairSpec
CONSTANTS
  Worker <- MCWorker
  Owner = main
  Client <- MCClient
  Task <- MCTask
  Block = {b1, b2}
  NumScans = 2
  NoThread = NoThread
  NoTask = NoTask
PROPERTIES
  UpdateMapReturns
CHECK_DEADLOCK FALSE
