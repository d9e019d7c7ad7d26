SPECIFICATION CaptureSpec
CONSTANTS
  File <- OneFile
  Content = {"a"}
  Dir = {"s1"}
  CaptureDir = {"s1"}
  CliDir = {}
  DirOf <- OneDirOf
  ContentOf <- OneContentOf
  MaxJobs = 2
  MaxOriginals = 1
  MaxAttempts = 2
  MaxFaults = 1
  FaultKinds = {"expire"}
  Handler = {h1}
  Size = 1
CHECK_DEADLOCK FALSE
INVARIANTS AcceptedKept
