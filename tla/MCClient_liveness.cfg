SPECIFICATION FairBoth
CONSTANTS
  Calls = {c1}
  Senders = {}
  None = None
  MaxCompletions = 2
  Waiters = {w1}
  Connector = FALSE
  MaxRuns = 1
INVARIANTS
  AnsweredOnce
  NoMissedWakeup
PROPERTIES
  EndedLoopReleases
  CanceledClientEnds
CHECK_DEADLOCK FALSE
