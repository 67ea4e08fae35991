SPECIFICATION FairSpec
CONSTANTS
  s1 = s1
  u2 = u2
  u1 = u1
  d1 = d1
  NoServer = NoServer
  Servers = {s1}
  Requests = {u1, d1}
  Kind <- MCKind
  PoolSize = 1
  FaultKinds = {"stop", "crash", "down", "hang", "cut", "call"}
  MaxFaults = 3
INVARIANT TypeOK
INVARIANT AnswersHold
PROPERTY FailureIsRecorded
PROPERTY ServesAgain
PROPERTY StopsInTheEnd
PROPERTY RequestsEnd
PROPERTY HealthSettles
