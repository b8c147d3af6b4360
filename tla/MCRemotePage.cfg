SPECIFICATION PageSpec
CONSTANTS
  Devices = {d1, d2}
  None = None
  MaxRuns = 3
  MaxSessions = 2
CHECK_DEADLOCK FALSE
INVARIANTS
  PageTypeOK
  OwnDevice
PROPERTIES
  ShownIsKept
  LeftSessionEnds
