SPECIFICATION ServerSpec
CONSTANTS
  Topic = {"lidar"}
  Names <- LidarNames
  Integrator = {"near", "far"}
  Ops <- PublishOnly
  Transferable = TRUE
  OnceEvery <- Every0
  QueueLength = 1
  MaxTries = 1
  MaxWork = 0
  CacheTime = 9
  MaxClock = 3
  HitTimes = {1, 2, 3}
  Calls = {"reset_map", "save_map", "load_map"}
  MayCrash = FALSE
PROPERTY LoadRestoresMap
CHECK_DEADLOCK FALSE
