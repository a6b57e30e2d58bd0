SPECIFICATION TenantLiveSpec
CONSTANTS
  p = p
  q = q
  long = long
  x = x
  y = y
  NoPayload = NoPayload
  NoHeader = NoHeader
  OwnHeader = OwnHeader
  Payloads <- ThreePayloads
  TooLong <- OneTooLong
  Hosts <- TwoHosts
  MaxWrites = 3
INVARIANTS
  QuietMeansInForce
PROPERTIES
  GarbageEndsNothing
  PolicyTakesEffect
CHECK_DEADLOCK FALSE
