SPECIFICATION FairLibrary
CONSTANTS
  Asset = {a1}
  MaxTime = 2
  Retention = 1
  Reader = {"import", "backup", "verify"}
  DrainLimit = 2
  MaxGeneration = 0
CHECK_DEADLOCK FALSE
INVARIANTS LibraryTypeOK RowHasFile ArchiveComplete PurgedIsErased NoFalseAlarm
PROPERTIES CleanupCompletes
