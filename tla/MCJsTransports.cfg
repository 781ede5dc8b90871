CONSTANTS
  Sends = {s1, s2}
  MaxMessages = 2
SPECIFICATION Spec
INVARIANTS PollsEndBeforeDelete NoOrphanSocket
PROPERTY Contract
CHECK_DEADLOCK FALSE
