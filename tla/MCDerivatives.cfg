SPECIFICATION DerivativesSpec
CONSTANTS
  Asset = {a1}
  MaxTime = 0
  Retention = 0
  Reader = {"import"}
  DrainLimit = 2
  MaxGeneration = 1
  RebuildFaults = {"encode", "record", "commit", "die"}
CHECK_DEADLOCK FALSE
INVARIANTS DerivativesTypeOK ServedIsRight
PROPERTIES LateRenderLoses
