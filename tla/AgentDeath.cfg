CONSTANTS
  s1 = s1
  s2 = s2
  s3 = s3
  tab = tab
  ann = ann
  bob = bob
  kim = kim
  a1 = a1
  a2 = a2
  v1 = v1
  v2 = v2
  None = None
  Sids = {s1}
  Devices = {tab}
  Operators = {ann, bob}
  DeviceOf <- MCDeviceOf
  OperatorOf <- MCOperatorOf
  Closable = {}
  Removable = {}
  Conns = {a1, v1}
  RoleOf <- MCRoleOf
  SidOf <- MCSidOf
SPECIFICATION FairSpec
PROPERTY AgentDeathEnds
CHECK_DEADLOCK FALSE
