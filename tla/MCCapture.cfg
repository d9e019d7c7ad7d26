SPECIFICATION CaptureSpec
CONSTANTS
  File <- OneFile
  Content = {"a"}
  Dir = {"s1"}
  CaptureDir = {"s1"}
  CliDir = {}
  DirOf <- OneDirOf
  ContentOf <- OneContentOf
  MaxJobs = 2
  MaxOriginals = 1
  MaxAttempts = 2
  MaxFaults = 2
  FaultKinds = {"expire", "start", "append", "enqueue", "disconnect", "statement", "janitor", "derivative", "finalize", "panic", "crash"}
  Handler = {h1, h2}
  Size = 2
CHECK_DEADLOCK FALSE
INVARIANTS CaptureTypeOK SessionIsSound
PROPERTIES CompletedStays
