SPECIFICATION Spec
CONSTANTS
  s1 = s1
  u2 = u2
  u1 = u1
  d1 = d1
  NoServer = NoServer
  Servers = {s1}
  Requests = {u1, d1}
  Kind <- MCKind
  PoolSize = 1
  FaultKinds = {"stop"}
  MaxFaults = 1
PROPERTY StopsGracefully
