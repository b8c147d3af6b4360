SPECIFICATION DiagSpec
CONSTANTS
  Dumps <- MCDumps
  Probes <- MCProbes
  Events <- MCEvents
  Autos <- MCAutos
  Strays <- MCStrays
  AutoOf <- MCAutoOf
  DeviceOf <- MCDeviceOf
  Workers = {w1}
  Limit = 1
  MaxRequests = 2
  MaxDeaths = 1
  None = None
CHECK_DEADLOCK FALSE
INVARIANTS
  DiagTypeOK
  AnsweredOnce
  InsertedIsStored
  ProbeHears
  ClaimIsAnswered
  KeysExpire
PROPERTY
  RequestsEnd
