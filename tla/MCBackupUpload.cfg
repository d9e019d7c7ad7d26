SPECIFICATION Spec
CONSTANTS
  Asset = {a}
  LivePhoto = {a}
  Spooled = {}
  Library = {l1, l2}
  First = l1
  Nowhere = Nowhere
  Size <- Sizes
  Restarts = 1
  MaxEvent = 2
CHECK_DEADLOCK FALSE
INVARIANTS BackupUploadTypeOK ReceiptIsTrue
PROPERTIES ReclaimKeepsOriginal BackedUp
