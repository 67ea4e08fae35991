------------------------ MODULE CircuitBreaker_proofs ------------------------
(* Safety of the circuit breaker, for any callers, threshold and timeout.  *)
EXTENDS CircuitBreaker, TLAPS

BreakerInv == TypeOK /\ OpenAtThreshold /\ FlagHasProbe

LEMMA Bounds == /\ 0 \in 0..FailureThreshold
                /\ {0, OpenTimeout} \subseteq 0..OpenTimeout
                /\ 0 \in 0..MaxHangUps
BY BreakerAssumption DEF BreakerAssumption

LEMMA InitBreaker == Init => BreakerInv
<1> SUFFICES ASSUME Init PROVE BreakerInv
  OBVIOUS
<1>1. TypeOK
  BY Bounds DEF Init, TypeOK
<1>2. OpenAtThreshold /\ FlagHasProbe
  BY BreakerAssumption DEF BreakerAssumption, Init, OpenAtThreshold, FlagHasProbe
<1> QED BY <1>1, <1>2 DEF BreakerInv

LEMMA CountedBounds ==
  ASSUME failures \in 0..FailureThreshold
  PROVE  /\ Counted \in 0..FailureThreshold
         /\ failures = FailureThreshold => Counted = FailureThreshold
BY BreakerAssumption DEF BreakerAssumption, Counted

LEMMA ReturnTypes ==
  ASSUME BreakerInv, NEW c \in Callers, Return(c)
  PROVE  /\ call' \in [Callers -> {"none", "closed", "probe"}]
         /\ doomed' \in SUBSET Callers
         /\ healthy' \in BOOLEAN
         /\ hangUps' \in 0..MaxHangUps
BY DEF BreakerInv, TypeOK, Return

LEMMA AdmitTypes ==
  ASSUME BreakerInv, NEW c \in Callers, NEW as \in {"closed", "probe"}, Admit(c, as)
  PROVE  /\ call' \in [Callers -> {"none", "closed", "probe"}]
         /\ call'[c] = as
         /\ doomed' \in SUBSET Callers
BY DEF BreakerInv, TypeOK, Admit

LEMMA CallClosedInv ==
  ASSUME BreakerInv, NEW c \in Callers, CallClosed(c)
  PROVE  BreakerInv'
<1>1. ~halfOpenCall BY DEF BreakerInv, FlagHasProbe, CallClosed
<1>2. Admit(c, "closed") /\ UNCHANGED halfOpenCall BY DEF CallClosed
<1>3. TypeOK'
  BY <1>2, AdmitTypes DEF BreakerInv, TypeOK, Admit
<1>4. OpenAtThreshold'
  BY <1>2 DEF BreakerInv, OpenAtThreshold, Admit
<1>5. FlagHasProbe'
  BY <1>1, <1>2 DEF FlagHasProbe
<1> QED BY <1>3, <1>4, <1>5 DEF BreakerInv

LEMMA CallHalfOpenInv ==
  ASSUME BreakerInv, NEW c \in Callers, CallHalfOpen(c)
  PROVE  BreakerInv'
<1>1. Admit(c, "probe") /\ open /\ halfOpenCall' = TRUE BY DEF CallHalfOpen
<1>2. TypeOK'
  BY <1>1, AdmitTypes DEF BreakerInv, TypeOK, Admit
<1>3. OpenAtThreshold'
  BY <1>1 DEF BreakerInv, OpenAtThreshold, Admit
<1>4. call'[c] = "probe"
  BY <1>1, AdmitTypes
<1>5. FlagHasProbe'
  BY <1>1, <1>4 DEF FlagHasProbe, Admit
<1> QED BY <1>2, <1>3, <1>5 DEF BreakerInv

LEMMA SucceedInv ==
  ASSUME BreakerInv, NEW c \in Callers, Succeed(c)
  PROVE  BreakerInv'
<1>1. Return(c) BY DEF Succeed
<1>2. TypeOK'
  BY <1>1, ReturnTypes, Bounds DEF TypeOK, Succeed
<1>3. OpenAtThreshold' /\ FlagHasProbe'
  BY BreakerAssumption DEF BreakerAssumption, OpenAtThreshold, FlagHasProbe, Succeed
<1> QED BY <1>2, <1>3 DEF BreakerInv

LEMMA FailInv ==
  ASSUME BreakerInv, NEW c \in Callers, Fail(c)
  PROVE  BreakerInv'
<1>1. Return(c) /\ halfOpenCall' = FALSE /\ failures' = Counted BY DEF Fail
<1>2. failures \in 0..FailureThreshold BY DEF BreakerInv, TypeOK
<1>3. failures' \in 0..FailureThreshold
  BY <1>1, <1>2, CountedBounds
<1>4. CASE failures' >= FailureThreshold
  <2>1. open' = TRUE /\ remaining' = OpenTimeout BY <1>4 DEF Fail, OpenFor
  <2>2. TypeOK'
    BY <1>1, <1>3, <2>1, ReturnTypes, Bounds DEF TypeOK
  <2>3. OpenAtThreshold' /\ FlagHasProbe'
    BY <1>1, <1>4, <2>1 DEF OpenAtThreshold, FlagHasProbe
  <2> QED BY <2>2, <2>3 DEF BreakerInv
<1>5. CASE ~(failures' >= FailureThreshold)
  <2>1. open' = open /\ remaining' = remaining BY <1>5 DEF Fail
  <2>2. ~open
    BY <1>1, <1>2, <1>5, CountedBounds, BreakerAssumption
       DEF BreakerInv, OpenAtThreshold
  <2>3. TypeOK'
    BY <1>1, <1>3, <2>1, ReturnTypes DEF BreakerInv, TypeOK
  <2>4. OpenAtThreshold' /\ FlagHasProbe'
    BY <1>1, <1>5, <2>1, <2>2 DEF OpenAtThreshold, FlagHasProbe
  <2> QED BY <2>3, <2>4 DEF BreakerInv
<1> QED BY <1>4, <1>5

LEMMA TickInv == BreakerInv /\ Tick => BreakerInv'
BY BreakerAssumption DEF BreakerAssumption, BreakerInv, TypeOK, OpenAtThreshold, FlagHasProbe, Tick

LEMMA HealthInv == BreakerInv /\ HealthChanges => BreakerInv'
BY DEF BreakerInv, TypeOK, OpenAtThreshold, FlagHasProbe, HealthChanges

LEMMA HangUpInv ==
  ASSUME BreakerInv, NEW c \in Callers, HangUp(c)
  PROVE  BreakerInv'
<1>1. TypeOK'
  BY BreakerAssumption DEF BreakerAssumption, BreakerInv, TypeOK, HangUp
<1> QED
  BY <1>1 DEF BreakerInv, OpenAtThreshold, FlagHasProbe, HangUp

LEMMA NextBreaker == BreakerInv /\ [Next]_vars => BreakerInv'
<1> SUFFICES ASSUME BreakerInv, [Next]_vars PROVE BreakerInv'
  OBVIOUS
<1>1. ASSUME NEW c \in Callers, Execute(c) PROVE BreakerInv'
  BY <1>1, CallClosedInv, CallHalfOpenInv DEF Execute
<1>2. ASSUME NEW c \in Callers, AfterCall(c) PROVE BreakerInv'
  BY <1>2, SucceedInv, FailInv DEF AfterCall
<1>3. CASE Tick
  BY <1>3, TickInv
<1>4. CASE HealthChanges
  BY <1>4, HealthInv
<1>5. ASSUME NEW c \in Callers, HangUp(c) PROVE BreakerInv'
  BY <1>5, HangUpInv
<1>6. CASE UNCHANGED vars
  BY <1>6 DEF BreakerInv, TypeOK, OpenAtThreshold, FlagHasProbe, vars
<1> QED BY <1>1, <1>2, <1>3, <1>4, <1>5, <1>6 DEF Next

\* The breaker of circuit_breaker.go is open exactly from FailureThreshold
\* failures on, whatever the order in which beforeCall and afterCall of
\* concurrent callers run.
THEOREM BreakerOpensAtThreshold == Spec => []OpenAtThreshold
<1>1. BreakerInv => OpenAtThreshold BY DEF BreakerInv
<1> QED BY InitBreaker, NextBreaker, <1>1, PTL DEF Spec

\* halfOpenCall is never left set without a probe that will clear it.
THEOREM ProbeHoldsTheFlag == Spec => []FlagHasProbe
<1>1. BreakerInv => FlagHasProbe BY DEF BreakerInv
<1> QED BY InitBreaker, NextBreaker, <1>1, PTL DEF Spec

\* failures and the time left until openUntil stay in their ranges.
THEOREM BreakerTypes == Spec => []TypeOK
<1>1. BreakerInv => TypeOK BY DEF BreakerInv
<1> QED BY InitBreaker, NextBreaker, <1>1, PTL DEF Spec

=============================================================================
