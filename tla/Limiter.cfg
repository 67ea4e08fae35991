SPECIFICATION Spec
CONSTANTS
  k1 = k1
  k2 = k2
  r1 = r1
  r2 = r2
  Clients = {k1, k2}
  Requests = {r1, r2}
  Token = 2
  Rate = 1
  Burst = 2
  BucketTTL = 4
  CleanupInterval = 2
  MaxLag = 1
  MaxTime = 7
CHECK_DEADLOCK TRUE
INVARIANT TypeOK
INVARIANT AdmissionBound
INVARIANT LimiterInv
INVARIANT StaleBucketsGo
