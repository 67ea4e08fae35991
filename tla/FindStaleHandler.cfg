SPECIFICATION Spec
CONSTANTS
  a1 = a1
  a2 = a2
  alice = alice
  bob = bob
  w1 = w1
  w2 = w2
  NoId = NoId
  Ids = {a1}
  Users = {alice, bob}
  Owner <- MCOwner
  Requests <- MCRacingDeletes
  Workers = {w1, w2}
  Undecodable = {}
  FaultKinds = {"cut", "storage"}
  MaxFaults = 2
CHECK_DEADLOCK FALSE
PROPERTY CompletedIsStable
