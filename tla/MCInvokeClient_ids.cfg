SPECIFICATION Spec
CONSTANTS
  Calls = {c1, c2}
  Senders = {}
  None = None
  MaxCompletions = 0
INVARIANT UniqueIDs
CHECK_DEADLOCK FALSE
