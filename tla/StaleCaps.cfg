SPECIFICATION IngestSpec
CONSTANTS
  Reports <- FewReports
  Ids = {a1, a2}
  Blocked = blocked
  None = none
  MaxInbox = 1
  Faults = FALSE
  Syncing = TRUE
PROPERTY
  SkippedIsStored
