SPECIFICATION FairSpec
CONSTANTS
  Sizes <- SmallAndLarge
  MaxSize = 3
  ReadSize = 3
  RecvCap = 2
INVARIANT HandledAsSent
PROPERTIES
  Delivered
  GoroutinesEnd
CHECK_DEADLOCK FALSE
