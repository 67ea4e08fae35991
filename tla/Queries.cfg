SPECIFICATION QuerySpec
CONSTANTS
  a1 = a1
  a2 = a2
  alice = alice
  bob = bob
  w1 = w1
  w2 = w2
  NoId = NoId
  Ids = {a1, a2}
  Users = {alice, bob}
  Owner <- MCOwner
  Requests <- MCCurrentDeletes
  Workers = {w1}
  Undecodable = {a2}
  FaultKinds = {"cut"}
  MaxFaults = 2
  CreatedAt <- MCCreatedAt
  Queries <- MCAll
  MaxQueries = 1
  QueryFaults = {"storage","repo"}
  MaxQueryFaults = 1
CHECK_DEADLOCK FALSE
INVARIANT QueryTypeOK
INVARIANT MissingMeansDeleted
INVARIANT NewestIsServed
INVARIANT NothingOutlivesDelete
