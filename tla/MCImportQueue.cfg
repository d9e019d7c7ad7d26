SPECIFICATION Spec
CONSTANTS
  File <- QueueFile
  Content = {"a", "b"}
  Dir = {"u", "k"}
  CaptureDir = {"k"}
  CliDir = {}
  DirOf <- QueueDirOf
  ContentOf <- QueueContentOf
  MaxJobs = 2
  MaxOriginals = 3
  MaxAttempts = 2
  MaxFaults = 2
  FaultKinds = {"upload", "file", "derivative", "open", "finalize", "sweep", "panic", "crash", "migration", "record", "recover"}
CHECK_DEADLOCK FALSE
INVARIANTS TypeOK AcceptedKept SucceededIsComplete 
PROPERTIES ReceiptIsPublishedLive KeepsPromise
