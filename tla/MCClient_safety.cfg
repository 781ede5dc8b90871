SPECIFICATION BothSpec
CONSTANTS
  Calls = {c1, c2}
  Senders = {c2}
  None = None
  MaxCompletions = 1
  Waiters = {}
  Connector = TRUE
  MaxRuns = 2
INVARIANTS
  NoDoubleClose
  PanicNeedsRace
  OwnAnswer
  NothingStaleUsed
CHECK_DEADLOCK FALSE
