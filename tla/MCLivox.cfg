SPECIFICATION FairSpec
CONSTANTS
  LidarCount = 2
  Setups <- DriverSetups
  Laps = 2
  FrameMod = 2
  MaxImu = 1
  Handle = {"front", "left", "right"}
  Configs <- DriverConfigs
  IndexCount = 2
  MaxAnnounced = 2
INVARIANTS NoFrameStuck
INVARIANTS IndexPerDevice SamplingMeansConfigured
PROPERTIES ImplementsChannel FramesFlow DestructorReturns
PROPERTIES ConfiguredDeviceSamples
CHECK_DEADLOCK FALSE
