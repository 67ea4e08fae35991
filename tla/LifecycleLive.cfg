SPECIFICATION FairSpec
CONSTANTS
  a1 = a1
  a2 = a2
  alice = alice
  bob = bob
  w1 = w1
  w2 = w2
  NoId = NoId
  Ids = {a1}
  Users = {alice, bob}
  Owner <- MCOwner
  Requests <- MCRacingDeletes
  Workers = {w1, w2}
  Undecodable = {}
  FaultKinds = {"repo", "storage", "broker", "crash", "stop"}
  MaxFaults = 2
CHECK_DEADLOCK FALSE
INVARIANT AcceptedWorkIsPending
PROPERTY CompletedIsStable
PROPERTY UploadsSettle
