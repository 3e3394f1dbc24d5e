SPECIFICATION ValidationSpec
CONSTANTS
  Null = Null
  NoTimestamp = NoTimestamp
  CatalogClock <- MCCatalogClock
  MaxFaults = 1
  MaxKills = 1
INVARIANTS
  PassLeavesNothing
  OneFaultLeavesNothing
  CleanStartPasses
PROPERTY
  ValidationsHeal
