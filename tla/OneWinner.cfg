CONSTANTS
  s1 = s1
  s2 = s2
  s3 = s3
  tab = tab
  ann = ann
  bob = bob
  kim = kim
  a1 = a1
  a2 = a2
  v1 = v1
  v2 = v2
  None = None
  Sids = {s1, s2, s3}
  Devices = {tab}
  Operators = {ann, bob, kim}
  DeviceOf <- MCDeviceOf
  OperatorOf <- MCThreeOperators
  Closable = {}
  Removable = {}
  Conns = {a1, v1}
  RoleOf <- MCRoleOf
  SidOf <- MCSidOf
SPECIFICATION Spec
INVARIANT OneWinner
CHECK_DEADLOCK FALSE
