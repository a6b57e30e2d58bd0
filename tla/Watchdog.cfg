SPECIFICATION WatchdogLiveSpec
CONSTANTS
  Apis = {"sendSync", "sendToRendererSync"}
  NoApi = ""
  Garbled = "?"
  SleepWaits = TRUE
  DeletesInOrder = TRUE
  MaxDepth = 2
  MaxTasks = 4
  MaxDeletes = 2
INVARIANTS
  BlameIsTrue
  TerminationIsTold
PROPERTIES
  CrashMeansStuck
  NoCrashForSleep
  StopReturns
  HangIsTerminated
CHECK_DEADLOCK FALSE
