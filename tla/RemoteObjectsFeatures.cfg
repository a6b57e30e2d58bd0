SPECIFICATION RemoteLiveSpec
CONSTANTS
  a = a
  b = b
  o1 = o1
  o2 = o2
  NoObject = NoObject
  Contexts <- OneContext
  Objects <- TwoObjects
  MaxId = 2
  MaxQueue = 1
  MaxPending = 1
  MaxCleared = 1
  Features = {"promiseResult", "functionProperties", "directChannel", "unclonableReply", "crash"}
INVARIANTS
  ClearedIsFinalized
  ProxyNeverAliases
PROPERTIES
  SyncCallsReturn
  ExitReleases
  RegistrySpec
CHECK_DEADLOCK FALSE
