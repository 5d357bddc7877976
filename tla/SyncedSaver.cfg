CONSTANTS
  Stamp = {1, 2}
  MaxRuns = 3
  MaxFaults = 2
SPECIFICATION FairSpec
INVARIANTS
  TypeOK
  DepthVouches
  FaultCostsOneGroup
PROPERTY
  RerunRepairs
CHECK_DEADLOCK FALSE
