SPECIFICATION IngestSpec
CONSTANTS
  Reports <- MCReports
  Ids = {a1, a2}
  Blocked = blocked
  None = none
  MaxInbox = 1
  Faults = TRUE
  Syncing = TRUE
INVARIANTS
  IngestTypeOK
  CacheTruthful
  TrailEnds
  CapsOfThisTablet
