SPECIFICATION FleetSpec
CONSTANTS
  None = None
  Devices = {1, 2}
  Unlisted = {}
  States <- MCStates
  Beats <- MCBeats
  Initial <- MCInitial
  Drops <- MCDrops
  Target <- MCTarget
  Expect = 2
  MaxChanges = 3
INVARIANT MonitorRuns
