SPECIFICATION RuntimeFairSpec
CONSTANTS
  Worker = {w1, w2}
  Recovering = {w1}
  Mapping = {1, 2, 3}
  Interval <- MCInterval
  MaxMappings = 2
  StaleThreshold = 1
  MaxRecoveryRuns = 2
  Faults = {"session", "selection", "stop"}
  Null = Null
  Free = Free
  MaxRuns = 2
  MaxTime = 1
INVARIANTS
  NoOrphanRuns
PROPERTIES
  EveryLockIsReleased
  EveryRecoveryEnds
  EveryShutdownStops
CHECK_DEADLOCK FALSE
