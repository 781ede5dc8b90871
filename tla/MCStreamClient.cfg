SPECIFICATION FairSpec
CONSTANTS
  Pulls = {p1}
  Uploads = {u1}
  Capacity = 1
  MaxStreams = 1
  MaxItems = 2
INVARIANTS
  ItemsInOrder
  PanicNeedsFailedSend
PROPERTY PullsEnd
CHECK_DEADLOCK FALSE
