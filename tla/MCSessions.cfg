CONSTANTS
  s1 = s1
  s2 = s2
  s3 = s3
  tab = tab
  ann = ann
  bob = bob
  None = None
  Sids = {s1, s2, s3}
  Devices = {tab}
  Operators = {ann, bob}
  DeviceOf <- MCDeviceOf
  OperatorOf <- MCOperatorOf
  Closable = {s1}
  Removable = {}
SPECIFICATION SessionsSpec
INVARIANTS
  Exclusive
  ReissueIsSound
PROPERTIES
  StealsAreChained
  LeaseSpec
\* Every request has been answered and nobody asks again: the system stops.
CHECK_DEADLOCK FALSE
