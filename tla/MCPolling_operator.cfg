SPECIFICATION PollingSpec
CONSTANTS
  Worker = {w1}
  Mapping = {1}
  Interval <- MCInterval
  MaxMappings = 1
  Faults = {"operator"}
  Null = Null
  Free = Free
  MaxRuns = 2
  MaxTime = 2
INVARIANT
  NoOrphanRuns
CHECK_DEADLOCK FALSE
