SPECIFICATION FairCapture
CONSTANTS
  File <- TwoFile
  Content = {"a"}
  Dir = {"s1","s2"}
  CaptureDir = {"s1","s2"}
  CliDir = {}
  DirOf <- TwoDirOf
  ContentOf <- TwoContentOf
  MaxJobs = 2
  MaxOriginals = 1
  MaxAttempts = 2
  MaxFaults = 2
  FaultKinds = {"enqueue", "statement", "disconnect", "crash", "open"}
  Handler = {h1,h2}
  Size = 1
CHECK_DEADLOCK FALSE
PROPERTIES SucceededHasReceipt UploadsResolve
