SPECIFICATION FairSpec
CONSTANTS
  File <- LiveFile
  Content = {"a"}
  Dir = {"u", "l"}
  CaptureDir = {}
  CliDir = {"l"}
  DirOf <- LiveDirOf
  ContentOf <- LiveContentOf
  MaxJobs = 2
  MaxOriginals = 2
  MaxAttempts = 2
  MaxFaults = 2
  FaultKinds = {"file", "open", "sweep", "cli", "panic", "crash"}
CHECK_DEADLOCK FALSE
INVARIANTS RowHasOriginal
PROPERTIES JobsSettle
