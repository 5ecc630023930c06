CONSTANTS
  NumEndpoints = 1
  MaxIdle = 1
  Conns = {c1, c2}
  NoConn = NoConn
  Sessions = {s1, s2}
SPECIFICATION Spec
INVARIANTS TypeOK OneReader ClosedOnce
PROPERTIES ImplementsPool SessionReleased
CHECK_DEADLOCK FALSE
