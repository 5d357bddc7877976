CONSTANTS
  Lidar = {l1}
  kMaxSourceLidar = 1
  Interval = 11
  TicksPerMs = 5
  HostEpoch = 0
  HostSteps = {}
  DotNum = 1
  PointInterval = 1
  OffsetMod = 64
  TimeMod = 1000
  MaxTime = 35
  MaxPackets = 40
SPECIFICATION SteadySpec
INVARIANT
  FramesAreRegular
CHECK_DEADLOCK FALSE
