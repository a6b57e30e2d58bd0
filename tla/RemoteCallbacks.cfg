SPECIFICATION CallbacksSpec
CONSTANTS
  f = f
  g = g
  CallbackFunctions <- TwoFunctions
  MaxPage = 2
  MaxCallbackId = 2
  MaxMessages = 1
  MaxClearedStubs = 1
  Uses = {"resend", "directChannel"}
SYMMETRY FunctionSymmetry
INVARIANTS
  NeverAnotherFunction
  RegisteredIsTracked
CHECK_DEADLOCK FALSE
