------------------------- MODULE ServerProcess_proofs -------------------------
(* Safety of server processes, for any servers, requests, pool and faults.  *)
EXTENDS ServerProcess, TLAPS

USE DEF Dependencies, Phases, Queries, Calls, Answers

-----------------------------------------------------------------------------
(* What holds between the calls of a request.                              *)

Unsent == {"new", "put", "create", "publish", "mark", "find", "remove"}

BetweenCalls ==
  \A r \in Requests :
    /\ step[r] \in Calls => at[r] \in Servers
    /\ step[r] \in Unsent => r \notin written
    /\ step[r] \in {"publish", "mark"} => row[r] = "processing"
    /\ step[r] = "notify" => row[r] = "deleted"
    /\ row[r] = "failed" => step[r] \in {"failed", "cut"}

ServerInv == TypeOK /\ BetweenCalls /\ AnswersHold

LEMMA InitServer == Init => ServerInv
<1> SUFFICES ASSUME Init PROVE ServerInv
  OBVIOUS
<1>1. TypeOK
  <2>1. /\ at \in [Requests -> Servers \cup {NoServer}]
        /\ step \in [Requests -> Calls \cup Answers \cup {"new", "cut"}]
        /\ conn \in SUBSET {r \in Requests : at[r] \in Servers /\ step[r] \in Queries}
        /\ row \in [Requests -> {"none", "processing", "failed", "active", "deleted"}]
        /\ written \in SUBSET Requests
        /\ faults \in 0..MaxFaults
    BY ServerAssumption DEF ServerAssumption, Init
  <2> QED
    BY <2>1 DEF Init, TypeOK
<1>2. BetweenCalls /\ AnswersHold
  BY DEF Init, BetweenCalls, AnswersHold, Unsent
<1> QED BY <1>1, <1>2 DEF ServerInv

LEMMA SpendType ==
  ASSUME TypeOK, NEW kind, Spend(kind) PROVE faults' \in 0..MaxFaults /\ faults' # faults
BY ServerAssumption DEF ServerAssumption, TypeOK, Spend

LEMMA SameRequests ==
  ASSUME ServerInv, UNCHANGED <<at, step, row, written>>
  PROVE  BetweenCalls' /\ AnswersHold'
BY DEF ServerInv, BetweenCalls, AnswersHold

-----------------------------------------------------------------------------
(* Dependencies, connections, starts and health checks touch no request.   *)

Aside(s) ==
  \/ LinkFails(s) \/ HeartbeatsMissed(s) \/ Start(s) \/ Stop(s)
  \/ StopListening(s) \/ CloseBroker(s) \/ ClosePool(s) \/ Check(s)

LEMMA EnvironmentStep ==
  ASSUME ServerInv, (\E d \in Dependencies : GoDown(d) \/ ComeUp(d)) \/ WorkerMakesBucket
  PROVE  ServerInv'
<1>1. UNCHANGED requestVars
  BY DEF GoDown, ComeUp, WorkerMakesBucket
<1>2. TypeOK'
  BY ZenonT(30), <1>1, SpendType DEF ServerInv, TypeOK, GoDown, ComeUp, WorkerMakesBucket,
     processVars, healthVars, requestVars
<1> QED
  BY <1>1, <1>2, SameRequests DEF ServerInv, requestVars

LEMMA LinkStep ==
  ASSUME TypeOK, NEW s \in Servers, LinkFails(s) \/ HeartbeatsMissed(s) \/ Stop(s)
  PROVE  TypeOK' /\ UNCHANGED requestVars
<1>1. UNCHANGED requestVars
  BY DEF LinkFails, HeartbeatsMissed, Stop
<1> QED
  BY ZenonT(30), <1>1, SpendType
  DEF TypeOK, LinkFails, HeartbeatsMissed, Stop, healthVars, requestVars

LEMMA StartStep ==
  ASSUME TypeOK, NEW s \in Servers, Start(s)
  PROVE  TypeOK' /\ UNCHANGED requestVars
<1>1. UNCHANGED requestVars
  BY DEF Start, OpenPool, LookForBucket, MakeBucket, DialBroker, GiveUp
<1>2. UNCHANGED <<up, healthVars, faults>> /\ bucket' \in BOOLEAN
  BY DEF TypeOK, Start, OpenPool, LookForBucket, MakeBucket, DialBroker, GiveUp
<1>3. PICK p \in Phases : Enter(s, p)
  BY DEF Start, OpenPool, LookForBucket, MakeBucket, DialBroker, GiveUp
<1>4. phase' \in [Servers -> Phases]
  BY <1>3 DEF TypeOK, Enter
<1>5. stopping' = stopping \/ stopping' = [stopping EXCEPT ![s] = FALSE]
  BY DEF Start, OpenPool, LookForBucket, MakeBucket, DialBroker, GiveUp
<1>6. link' = link \/ link' = [link EXCEPT ![s] = "open"]
  BY DEF Start, OpenPool, LookForBucket, MakeBucket, DialBroker, GiveUp
<1>7. /\ stopping' \in [Servers -> BOOLEAN]
      /\ link' \in [Servers -> {"none", "open", "stuck", "lost"}]
  BY ZenonT(30), <1>5, <1>6 DEF TypeOK
<1> QED
  BY <1>1, <1>2, <1>4, <1>7 DEF TypeOK, healthVars, requestVars

LEMMA EndStep ==
  ASSUME TypeOK, NEW s \in Servers, StopListening(s) \/ CloseBroker(s) \/ ClosePool(s)
  PROVE  TypeOK' /\ UNCHANGED requestVars
<1>1. UNCHANGED requestVars
  BY DEF StopListening, CloseBroker, ClosePool
<1>2. UNCHANGED <<up, bucket, stopping, healthVars, faults>>
  BY DEF StopListening, CloseBroker, ClosePool
<1>3. phase' \in [Servers -> Phases]
  BY DEF TypeOK, StopListening, CloseBroker, ClosePool, Enter
<1>4. link' \in [Servers -> {"none", "open", "stuck", "lost"}]
  BY DEF TypeOK, StopListening, CloseBroker, ClosePool
<1> QED
  BY <1>1, <1>2, <1>3, <1>4 DEF TypeOK, healthVars, requestVars

LEMMA CheckStep ==
  ASSUME TypeOK, NEW s \in Servers, Check(s)
  PROVE  TypeOK' /\ UNCHANGED requestVars
<1>1. UNCHANGED requestVars
  BY DEF Check, StartCheck, PingPostgres, AskMinio, AskBroker
<1>2. UNCHANGED <<up, bucket, processVars, faults>>
  BY DEF Check, StartCheck, PingPostgres, AskMinio, AskBroker
<1>3. check' \in [Servers -> Dependencies \cup {"idle"}]
  BY DEF TypeOK, Check, StartCheck, PingPostgres, AskMinio, AskBroker
<1>4. doubt' \in [Servers -> BOOLEAN]
  BY DEF TypeOK, Check, StartCheck, PingPostgres, AskMinio, AskBroker
<1>5. report' \in [Servers -> {"none", "ok", "degraded"}]
  BY DEF TypeOK, Check, StartCheck, PingPostgres, AskMinio, AskBroker
<1> QED
  BY <1>1, <1>2, <1>3, <1>4, <1>5 DEF TypeOK, processVars, requestVars

LEMMA AsideStep ==
  ASSUME ServerInv, NEW s \in Servers, Aside(s) PROVE ServerInv'
<1>1. TypeOK' /\ UNCHANGED requestVars
  BY LinkStep, StartStep, EndStep, CheckStep DEF Aside, ServerInv
<1> QED
  BY <1>1, SameRequests DEF ServerInv, requestVars

-----------------------------------------------------------------------------
(* The end of a process. *)

LEMMA GoneStep ==
  ASSUME ServerInv, NEW s \in Servers, Gone(s), faults' \in 0..MaxFaults
  PROVE  ServerInv'
<1>1. \A r \in Requests : step'[r] = IF r \in Running(s) THEN "cut" ELSE step[r]
  BY DEF Gone
<1>2. \A r \in conn' : step'[r] = step[r] /\ r \in conn
  BY <1>1 DEF ServerInv, TypeOK, Gone, Pool, Running
<1>3. TypeOK'
  BY <1>1, <1>2 DEF ServerInv, TypeOK, Gone, Enter
<1>4. BetweenCalls' /\ AnswersHold'
  BY <1>1 DEF ServerInv, BetweenCalls, AnswersHold, Gone, Unsent
<1> QED
  BY <1>3, <1>4 DEF ServerInv

-----------------------------------------------------------------------------
(* Requests. *)

\* A request that takes its next step, with what it needs to keep the types.
Moves(r, next) ==
  /\ step' = [step EXCEPT ![r] = next]
  /\ next \in Calls \cup Answers

LEMMA MoveTypes ==
  ASSUME TypeOK, NEW r \in Requests, NEW next, Moves(r, next),
         at' \in [Requests -> Servers \cup {NoServer}],
         row' \in [Requests -> {"none", "processing", "failed", "active", "deleted"}],
         written' \in SUBSET Requests, faults' \in 0..MaxFaults,
         conn' \subseteq conn \ {r}, \A q \in conn : at'[q] = at[q],
         UNCHANGED <<up, bucket, processVars, healthVars>>
  PROVE  TypeOK'
<1>1. \A q \in conn' : at'[q] \in Servers /\ step'[q] \in Queries /\ q \in Requests
  BY DEF TypeOK, Moves
<1> QED
  BY <1>1 DEF TypeOK, Moves, processVars, healthVars

\* The other requests are as they were.
LEMMA MoveKeeps ==
  ASSUME ServerInv, NEW r \in Requests, NEW next, Moves(r, next),
         next \in Calls => at'[r] \in Servers,
         \A q \in Requests \ {r} :
           at'[q] = at[q] /\ row'[q] = row[q] /\ (q \in written' <=> q \in written),
         next \in Unsent => r \notin written',
         next \in {"publish", "mark"} => row'[r] = "processing",
         next = "notify" => row'[r] = "deleted",
         row'[r] = "failed" => next = "failed",
         next = "processing" => row'[r] = "processing" /\ r \in written',
         next = "failed" => r \notin written',
         next = "deleted" => row'[r] = "deleted"
  PROVE  BetweenCalls' /\ AnswersHold'
<1>1. step'[r] = next /\ \A q \in Requests \ {r} : step'[q] = step[q]
  BY DEF ServerInv, TypeOK, Moves
<1>2. BetweenCalls'
  BY <1>1 DEF ServerInv, BetweenCalls
<1>3. AnswersHold'
  BY <1>1 DEF ServerInv, AnswersHold
<1> QED
  BY <1>2, <1>3

LEMMA AcceptStep ==
  ASSUME ServerInv, NEW r \in Requests, NEW s \in Servers, Accept(r, s)
  PROVE  ServerInv'
<1> DEFINE next == IF Kind[r] = "upload" THEN "put" ELSE "find"
<1>1. Moves(r, next) /\ r \notin conn /\ at' = [at EXCEPT ![r] = s]
  BY DEF ServerInv, TypeOK, Accept, Moves
<1>9. at'[r] = s /\ \A q \in Requests \ {r} : at'[q] = at[q]
  BY <1>1 DEF ServerInv, TypeOK
<1>2. TypeOK'
  BY <1>1, MoveTypes DEF ServerInv, TypeOK, Accept
<1>3. BetweenCalls' /\ AnswersHold'
  <2>1. next \in {"put", "find"} /\ r \notin written /\ row[r] # "failed"
    BY DEF ServerInv, BetweenCalls, Accept, Unsent
  <2> HIDE DEF next
  <2> QED
    BY <1>9, <1>1, <2>1, MoveKeeps DEF Accept
<1> QED
  BY <1>2, <1>3 DEF ServerInv

LEMMA AcquireStep ==
  ASSUME ServerInv, NEW r \in Requests, Acquire(r)
  PROVE  ServerInv'
<1>1. TypeOK'
  BY DEF ServerInv, TypeOK, BetweenCalls, Acquire, processVars, healthVars
<1> QED
  BY <1>1, SameRequests DEF ServerInv, Acquire

LEMMA PutStep ==
  ASSUME ServerInv, NEW r \in Requests, Put(r) PROVE ServerInv'
<1>1. PICK next \in {"create", "error"} : Moves(r, next)
  BY DEF Put, Succeed, Fail, Onwards, Instead, Moves
<1>2. r \notin conn /\ r \notin written /\ row[r] # "failed" /\ at[r] \in Servers
  BY DEF ServerInv, TypeOK, BetweenCalls, Put, Unsent
<1>3. TypeOK'
  BY <1>1, <1>2, SpendType, MoveTypes DEF ServerInv, TypeOK, Put
<1>4. BetweenCalls' /\ AnswersHold'
  BY <1>1, <1>2, MoveKeeps DEF Put
<1> QED
  BY <1>3, <1>4 DEF ServerInv

\* What the statement of a request makes of its row.
LEMMA ExecutedFacts ==
  ASSUME TypeOK, NEW r \in Requests, step[r] \in Queries, NEW new, new = Executed(r)
  PROVE /\ new \in [Requests -> {"none", "processing", "failed", "active", "deleted"}]
        /\ step[r] = "find" => new[r] = row[r]
        /\ step[r] = "create" => new[r] = "processing"
        /\ step[r] = "mark" => new[r] = "failed"
        /\ step[r] = "remove" => new[r] = "deleted"
        /\ \A q \in Requests \ {r} : new[q] = row[q]
BY DEF TypeOK, Executed, Written, Queries

\* A query that ends: what it wrote, and where the request goes on.
LEMMA QuerySucceedsStep ==
  ASSUME ServerInv, NEW r \in Requests, QuerySucceeds(r) PROVE ServerInv'
<1>1. r \notin written /\ step[r] \in Queries /\ at[r] \in Servers
  BY DEF ServerInv, BetweenCalls, QuerySucceeds, Asking, Unsent
<1>2. Moves(r, Onwards[step[r]])
  BY <1>1 DEF QuerySucceeds, Succeed, Moves, Onwards
<1>3. row' = Executed(r)
  BY DEF QuerySucceeds
<1>4. /\ row' \in [Requests -> {"none", "processing", "failed", "active", "deleted"}]
      /\ step[r] = "find" => row'[r] = row[r]
      /\ step[r] = "create" => row'[r] = "processing"
      /\ step[r] = "mark" => row'[r] = "failed"
      /\ step[r] = "remove" => row'[r] = "deleted"
      /\ \A q \in Requests \ {r} : row'[q] = row[q]
  BY <1>1, <1>3, ExecutedFacts DEF ServerInv
<1>5. TypeOK'
  BY <1>2, <1>4, MoveTypes DEF ServerInv, TypeOK, QuerySucceeds
<1>6. BetweenCalls' /\ AnswersHold'
  <2>1. row[r] = "failed" => step[r] \in {"failed", "cut"}
    BY DEF ServerInv, BetweenCalls
  <2>2. CASE step[r] = "create"
    BY <1>1, <1>2, <1>4, <2>2, MoveKeeps DEF QuerySucceeds, Onwards
  <2>3. CASE step[r] = "mark"
    BY <1>1, <1>2, <1>4, <2>3, MoveKeeps DEF QuerySucceeds, Onwards
  <2>4. CASE step[r] = "find"
    BY <1>1, <1>2, <1>4, <2>1, <2>4, MoveKeeps DEF QuerySucceeds, Onwards
  <2>5. CASE step[r] = "remove"
    BY <1>1, <1>2, <1>4, <2>5, MoveKeeps DEF QuerySucceeds, Onwards
  <2> QED
    BY <1>1, <2>2, <2>3, <2>4, <2>5
<1> QED
  BY <1>5, <1>6 DEF ServerInv

\* A query that fails, before or after it was executed.
LEMMA QueryFailsStep ==
  ASSUME ServerInv, NEW r \in Requests, Refuse(r) \/ QueryFails(r) PROVE ServerInv'
<1>1. r \notin written /\ row[r] # "failed" /\ step[r] \in Queries
  BY DEF ServerInv, BetweenCalls, Refuse, QueryFails, Asking, Unsent
<1>2. PICK next \in {"failed", "error"} :
        Moves(r, next) /\ (step[r] = "mark" => next = "failed")
  BY <1>1 DEF Refuse, QueryFails, Fail, Instead, Moves
<1>3. row' = row \/ row' = Executed(r)
  BY DEF Refuse, QueryFails
<1>4. /\ row' \in [Requests -> {"none", "processing", "failed", "active", "deleted"}]
      /\ row'[r] = "failed" => next = "failed"
      /\ \A q \in Requests \ {r} : row'[q] = row[q]
  <2>1. CASE row' = row
    BY <1>1, <2>1 DEF ServerInv, TypeOK
  <2>2. CASE row' = Executed(r)
    BY <1>1, <1>2, <2>2, ExecutedFacts DEF ServerInv, Queries
  <2> QED
    BY <1>3, <2>1, <2>2
<1>5. TypeOK'
  BY <1>2, <1>4, SpendType, MoveTypes DEF ServerInv, TypeOK, Refuse, QueryFails
<1>6. BetweenCalls' /\ AnswersHold'
  BY <1>1, <1>2, <1>4, MoveKeeps DEF Refuse, QueryFails
<1> QED
  BY <1>5, <1>6 DEF ServerInv

LEMMA PublishStep ==
  ASSUME ServerInv, NEW r \in Requests, Publish(r) PROVE ServerInv'
<1>1. /\ r \notin conn /\ row[r] # "failed" /\ at[r] \in Servers
      /\ step[r] = "publish" => row[r] = "processing" /\ r \notin written
      /\ step[r] = "notify" => row[r] = "deleted"
  BY DEF ServerInv, TypeOK, BetweenCalls, Publish, Unsent
<1>2. PICK next \in {"processing", "mark", "deleted"} :
        /\ Moves(r, next)
        /\ next = "processing" => step[r] = "publish" /\ written' = written \cup {r}
        /\ next = "mark" => step[r] = "publish" /\ written' = written
        /\ next = "deleted" => step[r] = "notify"
  BY DEF Publish, Succeed, Fail, Onwards, Instead, Moves
<1>3. written' \in {written, written \cup {r}}
  BY DEF Publish
<1>4. TypeOK'
  BY <1>1, <1>2, <1>3, SpendType, MoveTypes DEF ServerInv, TypeOK, Publish
<1>5. BetweenCalls' /\ AnswersHold'
  BY <1>1, <1>2, <1>3, MoveKeeps DEF Publish, Unsent
<1> QED
  BY <1>4, <1>5 DEF ServerInv

LEMMA ServerStep == ServerInv /\ [Next]_vars => ServerInv'
<1> SUFFICES ASSUME ServerInv, [Next]_vars PROVE ServerInv'
  OBVIOUS
<1>1. ASSUME NEW s \in Servers, Aside(s) PROVE ServerInv'
  BY <1>1, AsideStep
<1>2. ASSUME NEW s \in Servers, Exit(s) \/ Crash(s) PROVE ServerInv'
  BY <1>2, GoneStep, SpendType DEF Exit, Crash, ServerInv, TypeOK
<1>3. ASSUME NEW r \in Requests, NEW s \in Servers, Accept(r, s) PROVE ServerInv'
  BY <1>3, AcceptStep
<1>4. ASSUME NEW r \in Requests, Handle(r) PROVE ServerInv'
  BY <1>4, PutStep, AcquireStep, QuerySucceedsStep, QueryFailsStep, PublishStep DEF Handle
<1>5. CASE UNCHANGED vars
  <2>1. TypeOK'
    BY <1>5 DEF ServerInv, TypeOK, vars, processVars, healthVars, requestVars
  <2> QED
    BY <1>5, <2>1, SameRequests DEF ServerInv, vars, requestVars
<1> QED
  BY <1>1, <1>2, <1>3, <1>4, <1>5, EnvironmentStep DEF Next, End, Aside

-----------------------------------------------------------------------------
\* Processes, checks and requests of any servers stay well typed, and a
\* connection is held by nothing but a query.
THEOREM ServersAreTyped == Spec => []TypeOK
<1>1. ServerInv => TypeOK
  BY DEF ServerInv
<1> QED
  BY <1>1, InitServer, ServerStep, PTL DEF Spec

\* However many requests run when connections break, dependencies go and
\* come, and servers are stopped or die: what was answered holds.
THEOREM AnswersAlwaysHold == Spec => []AnswersHold
<1>1. ServerInv => AnswersHold
  BY DEF ServerInv
<1> QED
  BY <1>1, InitServer, ServerStep, PTL DEF Spec

-----------------------------------------------------------------------------
(* What it takes to lose the broker, and what it takes to lose the pool too. *)

\* A server with requests has its connections until it was told to stop.
ServerFits ==
  /\ \A s \in Servers :
       /\ phase[s] \in {"serving", "closing"} => link[s] # "none"
       /\ phase[s] \in {"closing", "unlinked", "releasing"} => stopping[s]
  /\ \A r \in Requests :
       step[r] \in Calls => phase[at[r]] \in {"serving", "closing", "unlinked", "releasing"}

\* A server without a broker, or on its way there, or a request that met one.
Troubled ==
  \/ \E s \in Servers : stopping[s] \/ link[s] \in {"stuck", "lost"}
  \/ \E r \in Requests : step[r] = "mark"

PostgresDown == "postgres" \notin up

\* Neither comes without a fault of its own.
FaultsCounted ==
  /\ Troubled \/ PostgresDown => faults > 0
  /\ Troubled /\ PostgresDown => faults > 1

FaultInv == ServerInv /\ ServerFits /\ FaultsCounted

LEMMA InitFaults == Init => FaultInv
BY InitServer DEF Init, FaultInv, ServerFits, FaultsCounted, Troubled, PostgresDown

\* A step that brings no new trouble, or one fault and one trouble.
Quiet == faults' >= faults /\ (Troubled' => Troubled) /\ (PostgresDown' => PostgresDown)
Costly == faults' = faults + 1 /\ ((Troubled' => Troubled) \/ (PostgresDown' => PostgresDown))

LEMMA CountKeeps ==
  ASSUME TypeOK, TypeOK', FaultsCounted, Quiet \/ Costly PROVE FaultsCounted'
<1>1. faults \in Nat /\ faults' \in Nat
  BY ServerAssumption DEF ServerAssumption, TypeOK
<1> QED
  BY <1>1 DEF FaultsCounted, Quiet, Costly

LEMMA SpendCosts ==
  ASSUME TypeOK, NEW kind, Spend(kind) PROVE faults' = faults + 1 /\ faults' >= faults
BY ServerAssumption DEF ServerAssumption, TypeOK, Spend

LEMMA EnvironmentCounts ==
  ASSUME FaultInv, (\E d \in Dependencies : GoDown(d) \/ ComeUp(d)) \/ WorkerMakesBucket
  PROVE  ServerFits' /\ (Quiet \/ Costly)
<1>0. TypeOK /\ faults >= faults
  BY ServerAssumption DEF ServerAssumption, TypeOK, FaultInv, ServerInv
<1>1. ServerFits'
  BY DEF FaultInv, ServerInv, TypeOK, ServerFits, GoDown, ComeUp, WorkerMakesBucket,
     processVars, requestVars
<1>2. ASSUME NEW d \in Dependencies, GoDown(d) PROVE Costly
  <2>1. CASE d = "postgres"
    BY <1>0, <1>2, <2>1, SpendCosts DEF GoDown, Costly, Troubled, requestVars
  <2>2. CASE d # "postgres"
    BY <1>0, <1>2, <2>2, SpendCosts DEF GoDown, Costly, PostgresDown
  <2> QED BY <2>1, <2>2
<1>3. ASSUME (\E d \in Dependencies : ComeUp(d)) \/ WorkerMakesBucket PROVE Quiet
  BY <1>0, <1>3 DEF ComeUp, WorkerMakesBucket, Quiet, Troubled, PostgresDown,
     processVars, requestVars
<1> QED BY <1>1, <1>2, <1>3

LEMMA AsideCounts ==
  ASSUME FaultInv, NEW s \in Servers, Aside(s)
  PROVE  ServerFits' /\ (Quiet \/ Costly)
<1>0. /\ TypeOK /\ ServerFits /\ faults >= faults
      /\ UNCHANGED requestVars
  BY LinkStep, StartStep, EndStep, CheckStep, ServerAssumption
  DEF ServerAssumption, FaultInv, ServerInv, Aside, TypeOK
<1>1. CASE LinkFails(s) \/ Stop(s)
  <2>1. ServerFits'
    BY <1>0, <1>1 DEF TypeOK, ServerFits, LinkFails, Stop, requestVars
  <2>2. Costly
    BY <1>0, <1>1, SpendCosts DEF LinkFails, Stop, Costly, PostgresDown
  <2> QED BY <2>1, <2>2
<1>2. CASE HeartbeatsMissed(s)
  BY <1>0, <1>2
  DEF TypeOK, ServerFits, HeartbeatsMissed, Quiet, Troubled, PostgresDown, requestVars
<1>3. CASE Start(s)
  <2>1. UNCHANGED <<up, faults>>
    BY <1>3 DEF Start, OpenPool, LookForBucket, MakeBucket, DialBroker, GiveUp
  <2>4. phase[s] \in {"down", "pooled", "bucketless", "stored"}
    BY <1>3 DEF Start, OpenPool, LookForBucket, MakeBucket, DialBroker, GiveUp
  <2>5. /\ phase'[s] \in {"down", "pooled", "bucketless", "stored", "serving"}
        /\ phase'[s] = "serving" => link'[s] = "open"
    BY <1>0, <1>3 DEF TypeOK, Start, OpenPool, LookForBucket, MakeBucket, DialBroker,
       GiveUp, Enter
  <2>6. \A q \in Servers \ {s} :
          phase'[q] = phase[q] /\ link'[q] = link[q] /\ stopping'[q] = stopping[q]
    BY <1>0, <1>3 DEF TypeOK, Start, OpenPool, LookForBucket, MakeBucket, DialBroker,
       GiveUp, Enter
  <2>2. ServerFits'
    <3>1. \A r \in Requests : step[r] \in Calls => at[r] \in Servers \ {s}
      BY <1>0, <2>4 DEF ServerFits, FaultInv, ServerInv, BetweenCalls
    <3> QED
      BY <1>0, <2>5, <2>6, <3>1 DEF ServerFits, requestVars
  <2>3. Troubled' => Troubled
    BY <1>0, <1>3 DEF TypeOK, Troubled, Start, OpenPool, LookForBucket, MakeBucket,
       DialBroker, GiveUp, requestVars
  <2> QED BY <1>0, <2>1, <2>2, <2>3 DEF Quiet, PostgresDown
<1>4. CASE StopListening(s) \/ CloseBroker(s) \/ ClosePool(s)
  <2>3. /\ \A q \in Servers \ {s} : phase'[q] = phase[q] /\ link'[q] = link[q]
        /\ stopping' = stopping /\ stopping[s]
    BY <1>0, <1>4
    DEF TypeOK, ServerFits, StopListening, CloseBroker, ClosePool, Enter
  <2>4. /\ phase'[s] \in {"closing", "unlinked", "releasing"}
        /\ phase'[s] = "closing" => link'[s] # "none"
    BY <1>0, <1>4
    DEF TypeOK, ServerFits, StopListening, CloseBroker, ClosePool, Enter
  <2>1. ServerFits'
    BY <1>0, <2>3, <2>4 DEF ServerFits, FaultInv, ServerInv, BetweenCalls, requestVars
  <2>2. Quiet
    BY <1>0, <1>4 DEF TypeOK, Quiet, Troubled, PostgresDown, StopListening, CloseBroker,
       ClosePool, requestVars
  <2> QED BY <2>1, <2>2
<1>5. CASE Check(s)
  <2>1. UNCHANGED <<up, processVars, faults>>
    BY <1>5 DEF Check, StartCheck, PingPostgres, AskMinio, AskBroker
  <2> QED
    BY <1>0, <2>1 DEF ServerFits, Quiet, Troubled, PostgresDown, processVars, requestVars
<1> QED BY <1>1, <1>2, <1>3, <1>4, <1>5 DEF Aside

LEMMA GoneCounts ==
  ASSUME FaultInv, NEW s \in Servers, Exit(s) \/ Crash(s)
  PROVE  ServerFits' /\ Quiet
<1>0. Gone(s) /\ TypeOK /\ ServerFits /\ faults' >= faults
  BY SpendCosts, ServerAssumption
  DEF ServerAssumption, FaultInv, ServerInv, TypeOK, Exit, Crash
<1>1. \A r \in Requests : step'[r] = IF r \in Running(s) THEN "cut" ELSE step[r]
  BY <1>0 DEF Gone
<1>2. ServerFits'
  BY <1>0, <1>1 DEF TypeOK, ServerFits, Gone, Enter, Running
<1>3. Troubled' => Troubled
  BY <1>0, <1>1 DEF TypeOK, Troubled, Gone
<1> QED
  BY <1>0, <1>2, <1>3 DEF Quiet, Gone, PostgresDown

LEMMA AcceptCounts ==
  ASSUME FaultInv, NEW r \in Requests, NEW s \in Servers, Accept(r, s)
  PROVE  ServerFits' /\ Quiet
<1>0. TypeOK /\ ServerFits /\ faults >= faults
  BY ServerAssumption DEF ServerAssumption, FaultInv, ServerInv, TypeOK
<1> QED
  BY <1>0 DEF TypeOK, ServerFits, Accept, Quiet, Troubled, PostgresDown, processVars

\* A publication that fails has lost its connection, with the fault that took
\* it, or is the fault.
LEMMA HandleCounts ==
  ASSUME FaultInv, NEW r \in Requests, Handle(r)
  PROVE  ServerFits' /\ (Quiet \/ Costly)
<1>0. /\ TypeOK /\ ServerFits /\ faults' >= faults
      /\ at[r] \in Servers /\ step[r] \in Calls
      /\ UNCHANGED <<up, processVars, at>>
  <2>1. step[r] \in Calls /\ UNCHANGED <<up, processVars, at>>
    BY DEF Handle, Put, Acquire, Refuse, QuerySucceeds, QueryFails, Asking, Publish
  <2>2. \/ UNCHANGED faults
        \/ Spend("call")
    BY DEF Handle, Put, Acquire, Refuse, QuerySucceeds, QueryFails, Publish
  <2> QED
    BY <2>1, <2>2, SpendCosts, ServerAssumption
    DEF ServerAssumption, FaultInv, ServerInv, TypeOK, BetweenCalls
<1>1. \A q \in Requests \ {r} : step'[q] = step[q]
  BY DEF Handle, Put, Acquire, Refuse, QuerySucceeds, QueryFails, Publish, Succeed, Fail,
     FaultInv, ServerInv, TypeOK
<1>2. ServerFits'
  BY <1>0, <1>1 DEF ServerFits, processVars
<1>3. CASE step'[r] # "mark" \/ step[r] = "mark"
  <2>1. Troubled' => Troubled
    BY <1>0, <1>1, <1>3 DEF Troubled, processVars
  <2> QED
    BY <1>0, <1>2, <2>1 DEF Quiet, PostgresDown
<1>4. CASE step'[r] = "mark" /\ step[r] # "mark"
  <2>1. Publish(r) /\ Fail(r)
    BY <1>4 DEF Handle, Put, Acquire, Refuse, QuerySucceeds, QueryFails, Publish, Asking,
       Succeed, Fail, Onwards, Instead, FaultInv, ServerInv, TypeOK
  <2>2. CASE Troubled
    BY <1>0, <1>2, <2>2 DEF Quiet, PostgresDown
  <2>3. CASE ~Troubled
    <3>1. link[at[r]] = "open"
      BY <1>0, <2>3 DEF Troubled, ServerFits, TypeOK
    <3>2. Spend("call")
      BY <1>4, <2>1, <3>1 DEF Publish, Succeed, Onwards, FaultInv, ServerInv, TypeOK
    <3> QED
      BY <1>0, <1>2, <3>2, SpendCosts DEF Costly, PostgresDown
  <2> QED BY <2>2, <2>3
<1> QED BY <1>3, <1>4

LEMMA FaultStep == FaultInv /\ [Next]_vars => FaultInv'
<1> SUFFICES ASSUME FaultInv, [Next]_vars PROVE FaultInv'
  OBVIOUS
<1>1. ServerInv /\ ServerInv'
  BY ServerStep DEF FaultInv
<1>2. CASE UNCHANGED vars
  BY <1>1, <1>2 DEF FaultInv, ServerFits, FaultsCounted, Troubled, PostgresDown, vars,
     processVars, requestVars
<1>3. CASE Next
  <2>1. ServerFits' /\ (Quiet \/ Costly)
    BY <1>3, EnvironmentCounts, AsideCounts, GoneCounts, AcceptCounts, HandleCounts
    DEF Next, End, Aside
  <2> QED
    BY <1>1, <2>1, CountKeeps DEF FaultInv, ServerInv
<1> QED BY <1>2, <1>3

\* In no number of servers and requests does one fault lose both the event of an
\* upload and the note of that in its row, unless its pool is being closed.
THEOREM FailuresAreRecorded == Spec => FailureIsRecorded
<1>1. ASSUME FaultInv, [Next]_vars
      PROVE  [\A r \in Requests :
                step[r] \in Calls /\ step'[r] = "failed" /\ row'[r] # "failed"
                => faults' > 1 \/ phase[at[r]] = "releasing"]_vars
  <2> SUFFICES ASSUME NEW r \in Requests, step[r] \in Calls, step'[r] = "failed",
                      row'[r] # "failed", phase[at[r]] # "releasing"
               PROVE  faults' > 1
    OBVIOUS
  <2>0. TypeOK /\ FaultsCounted /\ faults \in Nat /\ step[r] # "failed"
    BY <1>1, ServerAssumption DEF ServerAssumption, FaultInv, ServerInv, TypeOK
  <2>1. Handle(r)
    <3>1. ASSUME NEW s \in Servers, Aside(s) PROVE FALSE
      BY <2>0, <3>1, LinkStep, StartStep, EndStep, CheckStep DEF Aside, requestVars
    <3>2. ASSUME NEW s \in Servers, Exit(s) \/ Crash(s) PROVE FALSE
      BY <2>0, <3>2 DEF Exit, Crash, Gone
    <3>3. ASSUME NEW q \in Requests, NEW s \in Servers, Accept(q, s) PROVE FALSE
      BY <2>0, <3>3 DEF Accept, TypeOK
    <3>4. ASSUME NEW q \in Requests, Handle(q) PROVE q = r
      BY <2>0, <3>4 DEF TypeOK, Handle, Put, Acquire, Refuse, QuerySucceeds, QueryFails,
         Publish, Succeed, Fail
    <3> QED
      BY <1>1, <2>0, <3>1, <3>2, <3>3, <3>4
      DEF Next, End, Aside, GoDown, ComeUp, WorkerMakesBucket, requestVars, vars
  <2>2. step[r] = "mark" /\ (Refuse(r) \/ QueryFails(r))
    <3>1. CASE QuerySucceeds(r)
      BY <2>0, <3>1 DEF TypeOK, QuerySucceeds, Succeed, Onwards, Asking, Executed, Written
    <3> QED
      BY <2>0, <2>1, <3>1 DEF TypeOK, Handle, Put, Acquire, Refuse, QueryFails, Asking,
         Publish, Succeed, Fail, Onwards, Instead
  <2>3. Troubled /\ faults > 0
    BY <2>0, <2>2 DEF Troubled, FaultsCounted
  <2>4. CASE Spend("call")
    BY <2>0, <2>3, <2>4, SpendCosts
  <2>5. CASE PostgresDown /\ UNCHANGED faults
    BY <2>0, <2>3, <2>5 DEF FaultsCounted
  <2> QED
    BY <2>2, <2>4, <2>5 DEF Refuse, QueryFails, PostgresDown
<1> QED
  BY <1>1, InitFaults, FaultStep, PTL DEF Spec, FailureIsRecorded

=============================================================================
