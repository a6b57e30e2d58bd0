SPECIFICATION ConnectionSpec
CONSTANTS
  a = a
  b = b
  Renderers <- TwoRenderers
  ConnectPairs <- ItselfToo
  SyncPairs <- Everyone
  RelayPairs <- Everyone
  MaxCalls = 2
  MaxDeaths = 1
SYMMETRY Symmetry
INVARIANTS
  EventsTellTheLane
  AnswersArePending
  EveryCallIsCarriedOnce
  NoGroupIsStuck
CHECK_DEADLOCK FALSE
