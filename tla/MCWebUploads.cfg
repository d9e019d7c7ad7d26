SPECIFICATION Spec
CONSTANTS
  Owner = {u1, u2}
  First = u1
  NoOwner = NoOwner
  Page = {p1}
  Worker = worker
  MaxBatch = 2
  Unsupported = {2}
  Lease = 1
  MaxEvent = 2
CHECK_DEADLOCK FALSE
INVARIANTS WebUploadsTypeOK UploadsLand OneSenderWithinLease
PROPERTIES UploadsDrain
