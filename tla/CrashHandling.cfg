SPECIFICATION HandlingSpec
CONSTANTS
  Threads = {"t1", "t2"}
  ChildTypes = {"renderer"}
  Data = {"file"}
  MaxTime = 1
  MaxSessions = 3
  MaxReports = 1
  MaxAttempts = 2
INVARIANTS
  ReportsAreWhole
  LastCrashIsTold
  NoFalseAlarm
  UploadedIsThere
PROPERTIES
  CrashEnds
CHECK_DEADLOCK FALSE
