CONSTANTS
  NLidar = 2
  QueueSize = 2
  Late = {}
  MaxFrames = 4
SPECIFICATION Spec
INVARIANTS
  TypeOK
  OneWakeUp
  NothingStranded
  StrandedAtMostOne
PROPERTY
  UsesFifo
CHECK_DEADLOCK FALSE
