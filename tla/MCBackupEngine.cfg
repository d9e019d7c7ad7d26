SPECIFICATION Spec
CONSTANTS
  MaxItem = 4
  FirstItems = 3
  AlbumOf <- Albums2
  Selection <- Selections
  Library = {l1, l2}
  First = l1
  Nowhere = Nowhere
  MaxPages = 2
  Budget = 2
  Broken = {3, 4}
  MaxEvent = 3
CHECK_DEADLOCK FALSE
INVARIANTS BackupEngineTypeOK SweepIsSound
PROPERTIES CatchesUp
