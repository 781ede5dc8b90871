CONSTANTS
  Calls = {c1, c2}
  Invokes = {c2}
  NoCall = NoCall
  MaxIds = 4
  MaxItems = 1
  MaxDisposals = 1
  MaxConnections = 2
  MaxPromises = 4
  MaxResolves = 2
  MaxThenables = 1
SPECIFICATION PartsSpec
INVARIANTS
  OwnAnswer
  NoCallForgotten
  
  
  NoItemAfterEnd
  NothingStranded
  HandlersInOrder
  OutcomesMatch
\* The application may stop calling, and the last connection may have closed.
CHECK_DEADLOCK FALSE
