SPECIFICATION PartsSpec
CONSTANTS
  Sessions = {n1, n2}
  Gets = {a1, a2}
  Posts = {p1}
  MaxPending = 1
  Writes = {d1, d2}
  Bodies = {b1, b2}
  MaxChunks = 2
  Conns = {a1, a2}
  Groups = {b1, b2}
  Calls = {d1, d2}
SYMMETRY Symmetry
INVARIANTS
  NoGap
  NoSendOnClosed
  MembersAccounted
  AllReceive
PROPERTY ServedStay
CHECK_DEADLOCK FALSE
