SPECIFICATION RuntimeSpec
CONSTANTS
  Worker = {w1, w2}
  Recovering = {w1}
  Mapping = {1}
  Interval <- MCInterval
  MaxMappings = 2
  StaleThreshold = 1
  MaxRecoveryRuns = 2
  Faults = {"crash", "database", "lost_ack", "release", "operator", "selection", "stop"}
  Null = Null
  Free = Free
  MaxRuns = 3
  MaxTime = 3
INVARIANTS
  RecoveryTypeOK
  OnePollPerMapping
  ScheduleFollowsRuns
  LiveRunsAreNotAbandoned
  StoppedHoldsNothing
PROPERTIES
  RecoveryKeepsFinishedRuns
  FailureIsFinal
CHECK_DEADLOCK FALSE
