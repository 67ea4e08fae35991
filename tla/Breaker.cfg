SPECIFICATION CallersSpec
CONSTANTS
  c1 = c1
  c2 = c2
  c3 = c3
  Callers = {c1, c2, c3}
  FailureThreshold = 2
  OpenTimeout = 2
  MaxHangUps = 2
CHECK_DEADLOCK TRUE
INVARIANT TypeOK
INVARIANT OpenAtThreshold
INVARIANT FlagHasProbe
PROPERTY KeepsAdmitting
PROPERTY Recovers
