SPECIFICATION WatchdogLiveSpec
CONSTANTS
  Apis = {"sendSync", "sendToRendererSync"}
  NoApi = ""
  Garbled = "?"
  SleepWaits = TRUE
  DeletesInOrder = TRUE
  MaxDepth = 1
  MaxTasks = 4
  MaxDeletes = 2
PROPERTIES
  StopAlwaysReturns
CHECK_DEADLOCK FALSE
