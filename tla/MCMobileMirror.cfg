SPECIFICATION Spec
CONSTANTS
  Asset = {a1, a2}
  MaxIntent = 2
  MaxEvent = 3
  Keep = 1
  FeedPage = 2
  FeedPages = 2
  Batch = 2
  Batches = 2
CHECK_DEADLOCK FALSE
INVARIANTS MobileMirrorTypeOK EditsAreOrderly MirrorFollows
PROPERTIES Synchronizes
