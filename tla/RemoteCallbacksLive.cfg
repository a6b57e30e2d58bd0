SPECIFICATION CallbacksLiveSpec
CONSTANTS
  f = f
  g = g
  CallbackFunctions <- TwoFunctions
  MaxPage = 2
  MaxCallbackId = 2
  MaxMessages = 2
  MaxClearedStubs = 1
  Uses = {}
INVARIANTS
  HeldStubFindsFunction
PROPERTIES
  CollectedIsReleased
CHECK_DEADLOCK FALSE
