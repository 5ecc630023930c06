\* A response body filter that refuses a response being relayed.
CONSTANTS
  HeadUnits = 1
  W = 2
  HighWatermark = 1
  NumEndpoints = 1
  MaxIdle = 1
  Conns = {c1, c2, c3}
  NoConn = NoConn
  Sessions = {s1}
  MaxRequests = 2
  MaxBody = 3
  MaxRead = 2
  MaxDirect = 1
  MaxFree = 1
  ReqFramings = {"length", "chunked"}
  RespFramings = {"length", "chunked", "eof", "bodyless"}
  ReqHead = {"continue", "respond"}
  ReqBody = {"continue", "stop", "respond"}
  RespHead = {"continue", "respond"}
  RespBody = {"continue", "stop", "respond"}
SPECIFICATION Spec
CHECK_DEADLOCK FALSE
INVARIANT OneHeadPerRequest
