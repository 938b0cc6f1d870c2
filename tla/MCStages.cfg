SPECIFICATION StagesSpec
CONSTANTS
  Topic = {"lidar"}
  Names <- LidarNames
  Integrator = {"near", "far"}
  Ops <- AllOps
  Transferable = TRUE
  OnceEvery <- Every1
  QueueLength = 1
  MaxTries = 1
  MaxWork = 1
  CacheTime = 3
  MaxClock = 5
  HitTimes = {1, 2, 3, 4, 5}
  Calls = {}
  MayCrash = FALSE
  Sender = {"a", "b"}
  Synced = {"a"}
  Shift = 1
  Interval = 2
  MaxNow = 5
  MaxQueued = 1
  NumberMod = 4
  Sensors <- Projectors
  Images <- OddPixel
  MinRange = 1
  MaxRange = 6
  PaddingBehind = 1
  PaddingInFront = 1
  SeenCells <- CellsSeen
  CellWidth = 4
  CellsPerSide = 2
  NumRays = 2
  Hit = 2
  Miss <- MissUpdate
  RayMin <- LowestCell
  RayMax = 3
  Window <- AroundOrigin
  Rays <- SomeRays
  Block = {"here", "there"}
  TreeHeight = 2
  Content <- Contents
  LowLogOdds <- LowLimit
  HighLogOdds = 8
  CutNoise = 3
  MapConfig = {"coarse", "fine"}
  MaxInFlight = 1
  FreeThreshold = 0
  Unobserved = 3
  QueryMask = {{"free"}, {"free", "occupied"}}
  Allocatable = {2, 5, 6}
  NearCells = {{}, {5}}
  Width = 4
  Depth = 3
  MaxDistance = 310
  Scenes <- SmallScenes
INVARIANTS PublishingKeepsUp LookupNeverThrows
INVARIANTS EachPointOnce FramesAreClosed
INVARIANTS BoundsAreConservative RayHitsItsCells
INVARIANTS CopyIsMap StreamsAreWhole
INVARIANTS AnswersAreRight LeavesCoverMatches
INVARIANTS DistancesAreClose SurfaceIsKept
CHECK_DEADLOCK FALSE
