CONSTANTS
  NLidar = 2
  t1 = t1
  t2 = t2
  Thread <- MCThread
  ThreadOf <- MCThreadOf
  Late = {2}
  MaxImu <- MCMaxImu
SPECIFICATION FairSpec
INVARIANTS
  TypeOK
  NoImuLost
  WakeUpsBounded
PROPERTIES
  EveryImuPublished
  LateImuPublished
  ExitAfterImu
CHECK_DEADLOCK FALSE
