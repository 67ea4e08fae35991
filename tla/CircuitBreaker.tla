---------------------------- MODULE CircuitBreaker ----------------------------
(***************************************************************************)
(* The breaker that GuardedRepository, GuardedStorage and GuardedBroker    *)
(* put around every call to a dependency.  beforeCall and afterCall run    *)
(* under one mutex, so each is one step; the operation between them is     *)
(* not, so results arrive in any order, also those of calls admitted       *)
(* before the breaker opened.                                              *)
(*                                                                         *)
(* Only now.Before(openUntil) reads the clock: the model keeps the time    *)
(* left until openUntil instead of the clock.  Of `failures' only the      *)
(* comparison with the threshold is observable: the model stops counting   *)
(* at the threshold.                                                       *)
(***************************************************************************)
EXTENDS Naturals

CONSTANTS
  Callers,           \* goroutines that use one breaker
  FailureThreshold,
  OpenTimeout,       \* in ticks of the clock
  MaxHangUps         \* bound: how many contexts are cancelled in a behaviour

\* NewCircuitBreaker replaces values that are not positive.
ASSUME BreakerAssumption ==
  /\ FailureThreshold \in Nat \ {0}
  /\ OpenTimeout \in Nat \ {0}
  /\ MaxHangUps \in Nat

VARIABLES
  failures,
  open,          \* openUntil is not the zero time
  remaining,     \* openUntil - now, 0 once it has passed
  halfOpenCall,
  call,          \* "none", or how the call in flight was admitted
  doomed,        \* calls in flight that met the dependency while it was down,
                 \* or whose context was cancelled
  healthy,       \* the dependency answers
  hangUps        \* cancelled contexts so far

vars == <<failures, open, remaining, halfOpenCall, call, doomed, healthy, hangUps>>

TypeOK ==
  /\ failures \in 0..FailureThreshold
  /\ open \in BOOLEAN
  /\ remaining \in 0..OpenTimeout
  /\ halfOpenCall \in BOOLEAN
  /\ call \in [Callers -> {"none", "closed", "probe"}]
  /\ doomed \in SUBSET Callers
  /\ healthy \in BOOLEAN
  /\ hangUps \in 0..MaxHangUps

Init ==
  /\ failures = 0
  /\ open = FALSE
  /\ remaining = 0
  /\ halfOpenCall = FALSE
  /\ call = [c \in Callers |-> "none"]
  /\ doomed = {}
  /\ healthy = TRUE
  /\ hangUps = 0

-----------------------------------------------------------------------------
\* beforeCall answers ErrCircuitOpen, which changes nothing.
Rejecting == open /\ (remaining > 0 \/ halfOpenCall)

Admit(c, as) ==
  /\ call[c] = "none"
  /\ ~Rejecting
  /\ call' = [call EXCEPT ![c] = as]
  /\ doomed' = IF healthy THEN doomed ELSE doomed \cup {c}
  /\ UNCHANGED <<failures, open, remaining, healthy, hangUps>>

CallClosed(c) ==
  /\ ~open
  /\ Admit(c, "closed")
  /\ UNCHANGED halfOpenCall

CallHalfOpen(c) ==
  /\ open
  /\ Admit(c, "probe")
  /\ halfOpenCall' = TRUE

Return(c) ==
  /\ call[c] # "none"
  /\ call' = [call EXCEPT ![c] = "none"]
  /\ doomed' = doomed \ {c}
  /\ UNCHANGED <<healthy, hangUps>>

\* Mutant: a success forgets openUntil.
BugSucceedStaysOpen(c) ==
  /\ Return(c)
  /\ failures' = 0
  /\ halfOpenCall' = FALSE
  /\ UNCHANGED <<open, remaining>>

\* Mutant: the failure counter survives a success.
BugSucceed(c) ==
  /\ Return(c)
  /\ open' = FALSE
  /\ remaining' = 0
  /\ halfOpenCall' = FALSE
  /\ UNCHANGED failures

\* afterCall of a nil error, or of one that is no dependency failure.
Succeed(c) ==
  /\ Return(c)
  /\ failures' = 0
  /\ open' = FALSE
  /\ remaining' = 0
  /\ halfOpenCall' = FALSE

\* Mutant: openUntil moves on from the old openUntil, not from now.
BugOpenFor == remaining + OpenTimeout

\* b.now().Add(b.openTimeout), relative to now.
OpenFor == OpenTimeout

Counted == IF failures < FailureThreshold THEN failures + 1 ELSE failures

\* Mutant: a failed probe leaves its flag behind.
BugFail(c) ==
  /\ ~healthy \/ c \in doomed
  /\ Return(c)
  /\ failures' = Counted
  /\ IF failures' >= FailureThreshold
       THEN open' = TRUE /\ remaining' = OpenFor
       ELSE UNCHANGED <<open, remaining>>
  /\ UNCHANGED halfOpenCall

\* afterCall of a dependency failure.
Fail(c) ==
  /\ ~healthy \/ c \in doomed
  /\ Return(c)
  /\ halfOpenCall' = FALSE
  /\ failures' = Counted
  /\ IF failures' >= FailureThreshold
       THEN open' = TRUE /\ remaining' = OpenFor
       ELSE UNCHANGED <<open, remaining>>

Tick ==
  /\ remaining > 0
  /\ remaining' = remaining - 1
  /\ UNCHANGED <<failures, open, halfOpenCall, call, doomed, healthy, hangUps>>

\* The dependency goes down under the calls in flight, or comes back.
HealthChanges ==
  /\ healthy' = ~healthy
  /\ doomed' = IF healthy THEN {c \in Callers : call[c] # "none"} ELSE doomed
  /\ UNCHANGED <<failures, open, remaining, halfOpenCall, call, hangUps>>

\* A client goes away, or SIGTERM reaches a worker: its call may end in
\* context.Canceled, which isDependencyFailure counts like any other error.
HangUp(c) ==
  /\ call[c] # "none" /\ c \notin doomed
  /\ hangUps < MaxHangUps
  /\ hangUps' = hangUps + 1
  /\ doomed' = doomed \cup {c}
  /\ UNCHANGED <<failures, open, remaining, halfOpenCall, call, healthy>>

Execute(c) == CallClosed(c) \/ CallHalfOpen(c)
AfterCall(c) == Succeed(c) \/ Fail(c)

Next ==
  \/ \E c \in Callers : Execute(c) \/ AfterCall(c) \/ HangUp(c)
  \/ Tick
  \/ HealthChanges

Spec == Init /\ [][Next]_vars

-----------------------------------------------------------------------------
(* Safety. *)

\* The breaker is open exactly when failures reached the threshold, however
\* late results interleave: it never rejects with a failure count below the
\* threshold and never admits freely at the threshold.
OpenAtThreshold == open <=> failures >= FailureThreshold

\* The half-open flag belongs to a probe that still runs: no order of late
\* results leaves a breaker that rejects for ever with nobody to clear it.
FlagHasProbe == halfOpenCall => open /\ \E c \in Callers : call[c] = "probe"

-----------------------------------------------------------------------------
(* Liveness.  Calls return and time passes; in CallersSpec, requests also  *)
(* keep coming.                                                            *)

FairSpec == Spec /\ WF_vars(Tick) /\ \A c \in Callers : WF_vars(AfterCall(c))

CallersSpec == FairSpec /\ \A c \in Callers : WF_vars(Execute(c))

\* The breaker lets a call through again and again.
KeepsAdmitting == []<>~Rejecting

\* Once the dependency stays healthy, contexts are no longer cancelled and
\* requests keep coming, the breaker closes and stays closed.
Recovers == <>[]healthy => <>[]~open

=============================================================================
