\* Two sessions sharing one pool; requests and responses without a body,
\* filters that let everything through.
CONSTANTS
  HeadUnits = 1
  W = 2
  HighWatermark = 1
  NumEndpoints = 2
  MaxIdle = 1
  Conns = {c1, c2, c3, c4, c5}
  NoConn = NoConn
  Sessions = {s1, s2}
  MaxRequests = 2
  MaxBody = 0
  MaxRead = 1
  MaxDirect = 0
  MaxFree = 2
  ReqFramings = {"length"}
  RespFramings = {"length"}
  ReqHead = {"continue"}
  ReqBody = {"continue"}
  RespHead = {"continue"}
  RespBody = {"continue"}
SYMMETRY Symmetry
SPECIFICATION Spec
CHECK_DEADLOCK FALSE
INVARIANTS
  OperationHasConnection
  PooledQuiescent
  AwaitsOwnAnswer
  CountersAddUp
PROPERTIES
  ImplementsPool
