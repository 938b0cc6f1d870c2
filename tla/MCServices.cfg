SPECIFICATION NodeFairSpec
CONSTANTS
  Topic = {"lidar"}
  Names <- LidarNames
  Integrator = {"near", "far"}
  Ops <- PublishOnly
  Transferable = TRUE
  OnceEvery <- Every1
  QueueLength = 1
  MaxTries = 1
  MaxWork = 0
  CacheTime = 9
  MaxClock = 2
  HitTimes = {1}
  Calls = {"reset_map", "save_map", "load_map"}
  MayCrash = TRUE
  File <- Files
  MaxNesting = 7
  Host <- Programs
  AsBool <- Bools
  AsInt <- Ints
  AsDouble <- Doubles
  Address = {"front", "left", "right"}
  Launch <- Launches
  ConfigFile <- ConfigFiles
  MaxSources = 2
  MaxWaiting = 1
INVARIANTS SnapshotsAreWhole RunningNodeIsSound MessagesAreTheirOwn
PROPERTIES RequestsAreAnswered
CHECK_DEADLOCK FALSE
