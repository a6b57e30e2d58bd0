SPECIFICATION RemoteSpec
CONSTANTS
  a = a
  b = b
  o1 = o1
  o2 = o2
  NoObject = NoObject
  Contexts <- TwoContexts
  Objects <- TwoObjects
  MaxId = 3
  MaxQueue = 2
  MaxPending = 0
  MaxCleared = 1
  Features = {}
SYMMETRY Symmetry
INVARIANTS
  UsableIsBacked
  ReferencesComeBack
PROPERTIES
  DisciplinedSpec
CHECK_DEADLOCK FALSE
