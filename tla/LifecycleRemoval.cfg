SPECIFICATION FairSpec
CONSTANTS
  a1 = a1
  a2 = a2
  alice = alice
  bob = bob
  w1 = w1
  w2 = w2
  NoId = NoId
  Ids = {a1}
  Users = {alice, bob}
  Owner <- MCOwner
  Requests <- MCOwnDeletes
  Workers = {w1, w2}
  Undecodable = {}
  FaultKinds = {"storage", "crash", "cut"}
  MaxFaults = 3
CHECK_DEADLOCK FALSE
INVARIANT ConsumedDeleteRemovesOriginal
PROPERTY DeletesReachStorage
