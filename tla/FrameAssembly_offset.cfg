CONSTANTS
  Lidar = {l1}
  kMaxSourceLidar = 1
  Interval = 2
  TicksPerMs = 2
  HostEpoch = 5
  HostSteps = {}
  DotNum = 1
  PointInterval = 1
  OffsetMod = 64
  TimeMod = 1000
  MaxTime = 4
  MaxPackets = 4
SPECIFICATION Spec
INVARIANT
  OffsetIsRelative
CHECK_DEADLOCK FALSE
