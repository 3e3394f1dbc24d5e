SPECIFICATION CatalogSpec
CONSTANTS
  Worker = {w1, w2}
  p = p
  q = q
  r = r
  TestId = {p, q, r}
  Imported = {p, q}
  Listings <- MCListings
  MaxContests = 2
  StaleThreshold = 1
  Isolation = "REPEATABLE_READ"
  Faults = {"crash", "database", "lost_ack", "session", "operator"}
  Null = Null
  Free = Free
  MaxRuns = 2
  MaxTime = 1
SYMMETRY Processes
INVARIANTS
  CatalogTypeOK
  NoContestWithoutIdentity
  SuccessIsCatalogued
  ReportedSuccessIsRecorded
PROPERTIES
  OperatorOwnsEnabled
  LinksAreRepairedOnly
  AuditIsFinal
CHECK_DEADLOCK FALSE
