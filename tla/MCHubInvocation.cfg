SPECIFICATION FairSpec
CONSTANTS
  Invocations = {i1, i2}
  MaxCancels = 1
  MaxItems = 3
INVARIANTS
  CompletionIsLast
  CancelStopsItems
PROPERTY Answered
CHECK_DEADLOCK FALSE
