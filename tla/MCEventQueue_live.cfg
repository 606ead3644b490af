SPECIFICATION FairSpec
CONSTANTS
  Ids = {i1, i2}
  Handlers = {h1, h2, h3, h4}
  None = None
  MaxNotes = 5
  MaxCrashes = 1
INVARIANT IInv
PROPERTIES RemovedNotStarted QueuedEventStarted
CHECK_DEADLOCK FALSE
