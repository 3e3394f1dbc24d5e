SPECIFICATION ReadersSpec
CONSTANTS
  Mapping = {1, 2, 3, 4}
  Interval <- MCInterval
  MaxMappings = 2
  CycleInterval = 1
  FirstBackoff = 1
  MaxBackoff = 4
  MaxLength = 1
  Never = Never
  Listings <- MCListings
  PlannedIds <- MCPlannedIds
  MaxContests = 2
  MaxRequests <- MCMaxRequests
  MaxBody = 1
INVARIANTS
  ReportsAreComplete
  SourceIsSpared
PROPERTY
  NoMappingStarves
CHECK_DEADLOCK FALSE
