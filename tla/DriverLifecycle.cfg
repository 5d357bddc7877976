\* DriverLifecycle: one configured lidar, two unknown ones, two slots.
SPECIFICATION FairSpec
CONSTANTS
  h1 = h1  h2 = h2  h3 = h3
  Handle <- MCHandle
  Configured <- MCConfigured
  kMaxSourceLidar = 2
  MaxRaw = 1
INVARIANTS TypeOK IndexConsistent OneLidarPerSlot NothingRunsAtExit
PROPERTIES StableIndex ExitsWhileDataFlows
CHECK_DEADLOCK FALSE
