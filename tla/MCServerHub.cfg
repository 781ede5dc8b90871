SPECIFICATION FairSpec
CONSTANTS
  Conns = {c1}
  MaxInvocations = 4
INVARIANT LeftoverServedNoMethod
 
CHECK_DEADLOCK FALSE
