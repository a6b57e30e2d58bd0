SPECIFICATION ConnectionLiveSpec
CONSTANTS
  a = a
  b = b
  Renderers <- TwoRenderers
  ConnectPairs <- Everyone
  SyncPairs <- Everyone
  RelayPairs = {}
  MaxCalls = 1
  MaxDeaths = 1
PROPERTIES
  CallsReturn
  RequestsAreAnswered
CHECK_DEADLOCK FALSE
