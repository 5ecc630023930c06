CONSTANTS
  Users = {u1, u2}
  NumEndpoints = 2
  MaxIdle = 1
  Conns = {c1, c2}
  NoConn = NoConn
  NumAddresses = 2
SPECIFICATION ResolverSpec
INVARIANTS SingleOwner RightHost
PROPERTY DnsConverges
