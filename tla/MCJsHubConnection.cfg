CONSTANTS
  Frames = {1, 2}
  Stops = {u1}
  MaxConnects = 2
SPECIFICATION Spec
INVARIANTS
  StateAccounted
  
  
PROPERTIES
  AttemptsEnd
  StartedStopReturns
\* The application may stop using the connection.
CHECK_DEADLOCK FALSE
