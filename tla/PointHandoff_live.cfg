CONSTANTS
  NLidar = 2
  QueueSize = 1
  Late = {2}
  MaxFrames = 3
SPECIFICATION FairSpec
PROPERTIES
  RecoveredByNextStore
  FirstJoinReturns
CHECK_DEADLOCK FALSE
