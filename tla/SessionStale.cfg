CONSTANTS
  NumEndpoints = 1
  MaxIdle = 1
  Conns = {c1, c2}
  NoConn = NoConn
  Sessions = {s1, s2}
SPECIFICATION Spec
PROPERTY StaleCompletionInert
CHECK_DEADLOCK FALSE
