SPECIFICATION MapsFairSpec
CONSTANTS
  Worker = {w1, w2}
  Client = {c1, c2}
  Owner = c1
  Task = {t1, t2}
  NoThread = NoThread
  NoTask = NoTask
  Height = 3
  MinLogOdds <- Low
  MaxLogOdds = 16
  Noise = 8
  Sample <- Samples
  Chunked = TRUE
  ChunkHeight = 2
  Visible <- Seen
  AddPath <- Added
  SetPath <- Unseen
  SetValue <- Zero
  MaxAbs = 16
  MaxTreeHeight = 4
  ChunkLevels = 2
  NodeValue = {0, 1}
  Written <- WrittenPaths
  Erased <- ErasedPaths
  OctreeHeight = 2
  OctreeMin <- LowestOdds
  OctreeMax = 8
  Delta <- Steps
  UpdatedPath <- UpdatedPaths
  MaxIncrement = 8
  Dim = 2
  MaxHeight = 2
  Word = 4
  Coordinate <- AroundOrigin
  WrittenNode <- Around
  WrittenValue <- HashSteps
  LowOdds <- LowestOdds
  HighOdds = 3
  UnusedFor = 0
  MaxTime = 1
  MaxValue = 4
  TreeMin <- TreeLow
  TreeMax = 4096
  TreeNoise = 64
  TreeStep <- TreeSteps
  TreeWritten <- TreeTouched
  TreeSeen <- TreeObserved
  TreeBound = 64
INVARIANTS CountIsOutstanding WaiterHasNotifier QueuedTaskHasWorker
INVARIANTS  DescentsAreRight TreeIsArray
INVARIANTS FlagsBoundCells FlagsKeepPruning
PROPERTIES ImplementsGrid TreesImplementDataTree PruneKeepsLeaves
PROPERTIES ImplementsExecutor DestructorReturns
CHECK_DEADLOCK FALSE
