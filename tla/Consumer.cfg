SPECIFICATION FairSpec
CONSTANTS
  u1 = u1
  u2 = u2
  d1 = d1
  w1 = w1
  w2 = w2
  NoMessage = NoMessage
  Messages = {u1, u2, d1}
  QueueOf <- MCQueueOf
  Rank <- MCRank
  Poison = {u2}
  Workers = {w1, w2}
  FaultKinds = {"call", "consume", "cut", "stop", "crash"}
  MaxFaults = 2
CHECK_DEADLOCK TRUE
INVARIANT TypeOK
INVARIANT NothingLost
PROPERTY ReturnsDrained
PROPERTY GetsThrough
PROPERTY WorkersStop
PROPERTY ImplementsQueue
