CONSTANTS
  Lidar = {l1, l2}
  kMaxSourceLidar = 2
  Interval = 2
  TicksPerMs = 2
  HostEpoch = 5
  HostSteps <- MCHostSteps
  DotNum = 2
  PointInterval = 1
  OffsetMod = 64
  TimeMod = 1000
  MaxTime = 2
  MaxPackets = 2
SPECIFICATION Spec
INVARIANTS
  TypeOK
  NoPointLostOrRepeated
  BaseTimeIsFirstPoint
CHECK_DEADLOCK FALSE
