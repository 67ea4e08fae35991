----------------------------- MODULE ServerProcess -----------------------------
(***************************************************************************)
(* Server processes from start to end: RunServer with what it opens and    *)
(* closes, the requests that run in its handlers' goroutines meanwhile,    *)
(* the pool of connections to PostgreSQL they share, and the health check. *)
(*                                                                         *)
(* AvatarLifecycle has what uploads and deletes do to an avatar.  Here the *)
(* same calls are seen from the process: which of them still find their    *)
(* connection, and what a request that does not is told.                   *)
(***************************************************************************)
EXTENDS Naturals, FiniteSets

CONSTANTS
  Servers,
  Requests,
  Kind,         \* Kind[r]: "upload", "delete"
  PoolSize,     \* connections a pool may open
  FaultKinds,
  MaxFaults,    \* bound: how many faults happen in a behaviour
  NoServer

Dependencies == {"postgres", "minio", "rabbitmq"}
Fault == {"stop", "crash", "down", "hang", "cut", "call"}

ASSUME ServerAssumption ==
  /\ Kind \in [Requests -> {"upload", "delete"}]
  /\ PoolSize \in Nat \ {0}
  /\ FaultKinds \subseteq Fault
  /\ MaxFaults \in Nat
  /\ NoServer \notin Servers

VARIABLES
  up,         \* dependencies that answer
  bucket,     \* the bucket exists
  phase,      \* where RunServer is in each process
  stopping,   \* SIGTERM has cancelled the context
  link,       \* AMQP connection: "none", "open", "stuck", "lost"
  check,      \* the dependency a health check asks next, or "idle"
  doubt,      \* whether that check has found a degraded component
  report,     \* the status of the last answer to GET /health
  at,         \* the server that accepted each request
  step,       \* the call a request makes next, or how it ended
  conn,       \* requests that hold a connection of their server's pool
  row,        \* the row each request is about
  written,    \* requests whose event was written to an AMQP connection
  faults      \* faults so far

processVars == <<phase, stopping, link>>
healthVars  == <<check, doubt, report>>
requestVars == <<at, step, conn, row, written>>
vars == <<up, bucket, processVars, healthVars, requestVars, faults>>

Phases  == {"down", "pooled", "bucketless", "stored", "serving",
            "closing", "unlinked", "releasing"}
Queries == {"create", "mark", "find", "remove"}
Calls   == Queries \cup {"put", "publish", "notify"}
Answers == {"processing", "failed", "deleted", "error"}

\* Every variable has its type, and only a query keeps a connection.
TypeOK ==
  /\ up \in SUBSET Dependencies
  /\ bucket \in BOOLEAN
  /\ phase \in [Servers -> Phases]
  /\ stopping \in [Servers -> BOOLEAN]
  /\ link \in [Servers -> {"none", "open", "stuck", "lost"}]
  /\ check \in [Servers -> Dependencies \cup {"idle"}]
  /\ doubt \in [Servers -> BOOLEAN]
  /\ report \in [Servers -> {"none", "ok", "degraded"}]
  /\ at \in [Requests -> Servers \cup {NoServer}]
  /\ step \in [Requests -> Calls \cup Answers \cup {"new", "cut"}]
  /\ conn \in SUBSET {r \in Requests : at[r] \in Servers /\ step[r] \in Queries}
  /\ row \in [Requests -> {"none", "processing", "failed", "active", "deleted"}]
  /\ written \in SUBSET Requests
  /\ faults \in 0..MaxFaults

Init ==
  /\ up = Dependencies /\ bucket = FALSE
  /\ phase = [s \in Servers |-> "down"]
  /\ stopping = [s \in Servers |-> FALSE]
  /\ link = [s \in Servers |-> "none"]
  /\ check = [s \in Servers |-> "idle"]
  /\ doubt = [s \in Servers |-> FALSE]
  /\ report = [s \in Servers |-> "none"]
  /\ at = [r \in Requests |-> NoServer]
  /\ step = [r \in Requests |-> "new"]
  /\ conn = {}
  /\ row = [r \in Requests |-> IF Kind[r] = "upload" THEN "none" ELSE "active"]
  /\ written = {}
  /\ faults = 0

Spend(kind) ==
  /\ kind \in FaultKinds
  /\ faults < MaxFaults
  /\ faults' = faults + 1

Enter(s, p) == phase' = [phase EXCEPT ![s] = p]

-----------------------------------------------------------------------------
(* The dependencies. *)

\* A broker that goes down takes its connections with it.
GoDown(d) ==
  /\ d \in up
  /\ Spend("down")
  /\ up' = up \ {d}
  /\ link' = IF d = "rabbitmq"
               THEN [s \in Servers |-> IF link[s] = "none" THEN "none" ELSE "lost"]
               ELSE link
  /\ UNCHANGED <<bucket, phase, stopping, healthVars, requestVars>>

ComeUp(d) ==
  /\ d \notin up
  /\ up' = up \cup {d}
  /\ UNCHANGED <<bucket, processVars, healthVars, requestVars, faults>>

\* The connection breaks, or its peer is silent.
LinkFails(s) ==
  /\ link[s] = "open"
  /\ \/ Spend("cut")  /\ link' = [link EXCEPT ![s] = "lost"]
     \/ Spend("hang") /\ link' = [link EXCEPT ![s] = "stuck"]
  /\ UNCHANGED <<up, bucket, phase, stopping, healthVars, requestVars>>

\* The AMQP client misses the heartbeats of a silent peer.
HeartbeatsMissed(s) ==
  /\ link[s] = "stuck"
  /\ link' = [link EXCEPT ![s] = "lost"]
  /\ UNCHANGED <<up, bucket, phase, stopping, healthVars, requestVars, faults>>

-----------------------------------------------------------------------------
(* RunServer up to ListenAndServe. *)

\* pgrepo.Open makes a pool and pings.
OpenPool(s) ==
  /\ phase[s] = "down"
  /\ "postgres" \in up
  /\ Enter(s, "pooled")
  /\ UNCHANGED <<up, bucket, stopping, link, healthVars, requestVars, faults>>

\* Mutant: the bucket is made without a look whether it exists.
BugLookForBucket(s) ==
  /\ phase[s] = "pooled"
  /\ "minio" \in up /\ ~stopping[s]
  /\ Enter(s, "bucketless")
  /\ UNCHANGED <<up, bucket, stopping, link, healthVars, requestVars, faults>>

LookForBucket(s) ==
  /\ phase[s] = "pooled"
  /\ "minio" \in up /\ ~stopping[s]
  /\ Enter(s, IF bucket THEN "stored" ELSE "bucketless")
  /\ UNCHANGED <<up, bucket, stopping, link, healthVars, requestVars, faults>>

\* A worker that starts, which opens the stores in the same way.
WorkerMakesBucket ==
  /\ ~bucket /\ "minio" \in up
  /\ bucket' = TRUE
  /\ UNCHANGED <<up, processVars, healthVars, requestVars, faults>>

\* MakeBucket fails if another process was first, and the process exits.
MakeBucket(s) ==
  /\ phase[s] = "bucketless"
  /\ "minio" \in up /\ ~stopping[s]
  /\ IF bucket THEN Enter(s, "down") ELSE Enter(s, "stored")
  /\ bucket' = TRUE
  /\ UNCHANGED <<up, stopping, link, healthVars, requestVars, faults>>

\* Dial does not look at the context.
DialBroker(s) ==
  /\ phase[s] = "stored"
  /\ "rabbitmq" \in up
  /\ Enter(s, "serving")
  /\ link' = [link EXCEPT ![s] = "open"]
  /\ UNCHANGED <<up, bucket, stopping, healthVars, requestVars, faults>>

\* A start that fails ends the process; it is started again.
GiveUp(s) ==
  /\ \/ phase[s] \in {"pooled", "bucketless"} /\ ("minio" \notin up \/ stopping[s])
     \/ phase[s] = "stored" /\ "rabbitmq" \notin up
  /\ Enter(s, "down")
  /\ stopping' = [stopping EXCEPT ![s] = FALSE]
  /\ UNCHANGED <<up, bucket, link, healthVars, requestVars, faults>>

-----------------------------------------------------------------------------
(* RunServer from SIGTERM on. *)

Stop(s) ==
  /\ phase[s] \notin {"down", "closing", "unlinked", "releasing"} /\ ~stopping[s]
  /\ Spend("stop")
  /\ stopping' = [stopping EXCEPT ![s] = TRUE]
  /\ UNCHANGED <<up, bucket, phase, link, healthVars, requestVars>>

\* Connections given out, and requests whose handlers run.
Pool(s)    == {r \in conn : at[r] = s}
Running(s) == {r \in Requests : at[r] = s /\ step[r] \in Calls}

\* Mutant: waits for a moment without requests, and accepts them meanwhile.
BugStopListening(s) ==
  /\ phase[s] = "serving" /\ stopping[s]
  /\ check[s] = "idle" /\ Running(s) = {}
  /\ Enter(s, "closing")
  /\ UNCHANGED <<up, bucket, stopping, link, healthVars, requestVars, faults>>

\* Shutdown closes the listener; ListenAndServe returns at once, and
\* RunServer does not wait for Shutdown.
StopListening(s) ==
  /\ phase[s] = "serving" /\ stopping[s]
  /\ Enter(s, "closing")
  /\ UNCHANGED <<up, bucket, stopping, link, healthVars, requestVars, faults>>

\* The deferred brokerRuntime.close waits for the peer's close-ok.
CloseBroker(s) ==
  /\ phase[s] = "closing"
  /\ link[s] # "stuck"
  /\ Enter(s, "unlinked")
  /\ link' = [link EXCEPT ![s] = "none"]
  /\ UNCHANGED <<up, bucket, stopping, healthVars, requestVars, faults>>

\* The deferred storeRuntime.close: no connection is given out any more.
ClosePool(s) ==
  /\ phase[s] = "unlinked"
  /\ Enter(s, "releasing")
  /\ UNCHANGED <<up, bucket, stopping, link, healthVars, requestVars, faults>>

\* The end of a process cuts what its handlers have not answered.
Gone(s) ==
  /\ Enter(s, "down")
  /\ stopping' = [stopping EXCEPT ![s] = FALSE]
  /\ link' = [link EXCEPT ![s] = "none"]
  /\ check' = [check EXCEPT ![s] = "idle"]
  /\ doubt' = [doubt EXCEPT ![s] = FALSE]
  /\ report' = [report EXCEPT ![s] = "none"]
  /\ step' = [r \in Requests |-> IF r \in Running(s) THEN "cut" ELSE step[r]]
  /\ conn' = conn \ Pool(s)
  /\ UNCHANGED <<up, bucket, at, row, written>>

\* Pool.Close returns when every connection has come back.
Exit(s) ==
  /\ phase[s] = "releasing"
  /\ Pool(s) = {}
  /\ Gone(s)
  /\ UNCHANGED faults

Crash(s) == phase[s] # "down" /\ Spend("crash") /\ Gone(s)

-----------------------------------------------------------------------------
(* Upload and DeleteByID. *)

Accept(r, s) ==
  /\ step[r] = "new"
  /\ phase[s] = "serving"
  /\ at' = [at EXCEPT ![r] = s]
  /\ step' = [step EXCEPT ![r] = IF Kind[r] = "upload" THEN "put" ELSE "find"]
  /\ UNCHANGED <<up, bucket, processVars, healthVars, conn, row, written, faults>>

\* What follows a call that succeeds, and one that fails.
Onwards ==
  [put |-> "create", create |-> "publish", publish |-> "processing", mark |-> "failed",
   find |-> "remove", remove |-> "notify", notify |-> "deleted"]

\* Mutant: the error of Publish is only recorded.
BugInstead ==
  [put |-> "error", create |-> "error", publish |-> "processing", mark |-> "failed",
   find |-> "error", remove |-> "error", notify |-> "deleted"]

Instead ==
  [put |-> "error", create |-> "error", publish |-> "mark", mark |-> "failed",
   find |-> "error", remove |-> "error", notify |-> "deleted"]

Written ==
  [create |-> "processing", mark |-> "failed", remove |-> "deleted"]

Succeed(r) == step' = [step EXCEPT ![r] = Onwards[step[r]]]
Fail(r)    == step' = [step EXCEPT ![r] = Instead[step[r]]]

Put(r) ==
  /\ step[r] = "put"
  /\ \/ "minio" \in up /\ Succeed(r) /\ UNCHANGED faults
     \/ "minio" \notin up /\ Fail(r) /\ UNCHANGED faults
     \/ Spend("call") /\ Fail(r)
  /\ UNCHANGED <<up, bucket, processVars, healthVars, at, conn, row, written>>

\* A query waits until the pool has a connection for it.
Acquire(r) ==
  /\ step[r] \in Queries /\ r \notin conn
  /\ phase[at[r]] # "releasing"
  /\ Cardinality(Pool(at[r])) < PoolSize
  /\ conn' = conn \cup {r}
  /\ UNCHANGED <<up, bucket, processVars, healthVars, at, step, row, written, faults>>

\* Mutant: requests run under the context that SIGTERM cancels.
BugRefuse(r) ==
  /\ step[r] \in Queries /\ r \notin conn
  /\ IF stopping[at[r]] THEN UNCHANGED faults ELSE Spend("call")
  /\ Fail(r)
  /\ UNCHANGED <<up, bucket, processVars, healthVars, at, conn, row, written>>

\* A closed pool refuses those who wait, and an open breaker everybody.
Refuse(r) ==
  /\ step[r] \in Queries /\ r \notin conn
  /\ IF phase[at[r]] = "releasing" THEN UNCHANGED faults ELSE Spend("call")
  /\ Fail(r)
  /\ UNCHANGED <<up, bucket, processVars, healthVars, at, conn, row, written>>

Asking(r) == r \in conn /\ step[r] \in Queries

\* The table after the statement of r.
Executed(r) == [row EXCEPT ![r] = IF step[r] = "find" THEN @ ELSE Written[step[r]]]

\* Mutant: rows that are not closed keep their connection.
BugQuerySucceeds(r) ==
  /\ Asking(r) /\ "postgres" \in up
  /\ row' = Executed(r)
  /\ Succeed(r)
  /\ UNCHANGED <<up, bucket, processVars, healthVars, at, conn, written, faults>>

QuerySucceeds(r) ==
  /\ Asking(r) /\ "postgres" \in up
  /\ row' = Executed(r)
  /\ conn' = conn \ {r}
  /\ Succeed(r)
  /\ UNCHANGED <<up, bucket, processVars, healthVars, at, written, faults>>

\* An error does not tell whether the statement was executed.
QueryFails(r) ==
  /\ Asking(r)
  /\ IF "postgres" \in up THEN Spend("call") ELSE UNCHANGED faults
  /\ row' \in {row, Executed(r)}
  /\ conn' = conn \ {r}
  /\ Fail(r)
  /\ UNCHANGED <<up, bucket, processVars, healthVars, at, written>>

\* Mutant: a publication waits for a connection that works.
BugPublish(r) ==
  /\ step[r] \in {"publish", "notify"}
  /\ link[at[r]] \in {"open", "stuck"}
  /\ written' = written \cup {r}
  /\ Succeed(r)
  /\ UNCHANGED <<up, bucket, processVars, healthVars, at, conn, row, faults>>

\* Without confirms, a message written to a silent peer counts as published.
Publish(r) ==
  /\ step[r] \in {"publish", "notify"}
  /\ \/ /\ link[at[r]] \in {"open", "stuck"}
        /\ written' = written \cup {r}
        /\ Succeed(r)
        /\ UNCHANGED faults
     \/ /\ IF link[at[r]] \in {"open", "stuck"} THEN Spend("call") ELSE UNCHANGED faults
        /\ Fail(r)
        /\ UNCHANGED written
  /\ UNCHANGED <<up, bucket, processVars, healthVars, at, conn, row>>

-----------------------------------------------------------------------------
(* GET /health: three probes, one after the other.  It always answers 200. *)

StartCheck(s) ==
  /\ phase[s] = "serving"
  /\ check[s] = "idle"
  /\ check' = [check EXCEPT ![s] = "postgres"]
  /\ doubt' = [doubt EXCEPT ![s] = FALSE]
  /\ UNCHANGED <<up, bucket, processVars, report, requestVars, faults>>

\* Ping needs a connection: a closed pool has none for it, and one in use may
\* let it time out.
PingPostgres(s) ==
  /\ check[s] = "postgres"
  /\ check' = [check EXCEPT ![s] = "minio"]
  /\ \E late \in {FALSE, Cardinality(Pool(s)) = PoolSize} :
       doubt' = [doubt EXCEPT ![s] = "postgres" \notin up \/ phase[s] = "releasing" \/ late]
  /\ UNCHANGED <<up, bucket, processVars, report, requestVars, faults>>

AskMinio(s) ==
  /\ check[s] = "minio"
  /\ check' = [check EXCEPT ![s] = "rabbitmq"]
  /\ doubt' = [doubt EXCEPT ![s] = @ \/ "minio" \notin up \/ ~bucket]
  /\ UNCHANGED <<up, bucket, processVars, report, requestVars, faults>>

\* Mutant: the check looks at c.conn only.
BugAskBroker(s) ==
  /\ check[s] = "rabbitmq"
  /\ check' = [check EXCEPT ![s] = "idle"]
  /\ report' = [report EXCEPT ![s] = IF doubt[s] THEN "degraded" ELSE "ok"]
  /\ doubt' = [doubt EXCEPT ![s] = FALSE]
  /\ UNCHANGED <<up, bucket, processVars, requestVars, faults>>

\* A channel on the connection of the publisher: Channel takes no context,
\* so a silent peer blocks it until the heartbeats are missed.
AskBroker(s) ==
  /\ check[s] = "rabbitmq"
  /\ link[s] # "stuck"
  /\ check' = [check EXCEPT ![s] = "idle"]
  /\ report' = [report EXCEPT ![s] = IF doubt[s] \/ link[s] # "open" THEN "degraded" ELSE "ok"]
  /\ doubt' = [doubt EXCEPT ![s] = FALSE]
  /\ UNCHANGED <<up, bucket, processVars, requestVars, faults>>

-----------------------------------------------------------------------------
Start(s)  == OpenPool(s) \/ LookForBucket(s) \/ MakeBucket(s) \/ DialBroker(s) \/ GiveUp(s)
End(s)    == StopListening(s) \/ CloseBroker(s) \/ ClosePool(s) \/ Exit(s)
Check(s)  == StartCheck(s) \/ PingPostgres(s) \/ AskMinio(s) \/ AskBroker(s)
Handle(r) == Put(r) \/ Acquire(r) \/ Refuse(r) \/ QuerySucceeds(r) \/ QueryFails(r) \/ Publish(r)

Next ==
  \/ \E d \in Dependencies : GoDown(d) \/ ComeUp(d)
  \/ WorkerMakesBucket
  \/ \E s \in Servers :
       \/ LinkFails(s) \/ HeartbeatsMissed(s)
       \/ Start(s) \/ Stop(s) \/ End(s) \/ Crash(s) \/ Check(s)
       \/ \E r \in Requests : Accept(r, s)
  \/ \E r \in Requests : Handle(r)

Spec == Init /\ [][Next]_vars

-----------------------------------------------------------------------------
(* Safety. *)

\* What a client was told holds, and a row that no worker will be asked to
\* process is not left waiting by an answer that says otherwise: an upload
\* answered "processing" has its row and its event, a "failed" one or a row
\* that says so has none, a delete that succeeded has hidden the row.
AnswersHold ==
  \A r \in Requests :
    /\ step[r] = "processing" => row[r] = "processing" /\ r \in written
    /\ step[r] = "failed" \/ row[r] = "failed" => r \notin written
    /\ step[r] = "deleted" => row[r] = "deleted"

\* One thing going wrong is not enough for Upload to answer "failed" over a row
\* that stays "processing" without an event.  It discards what MarkPublishFailed
\* returns; but what takes RabbitMQ away, a broken connection, an outage or the
\* end of the own process, which closes the broker first, leaves it the pool.
FailureIsRecorded ==
  [][\A r \in Requests :
       step[r] \in Calls /\ step'[r] = "failed" /\ row'[r] # "failed"
       => faults' > 1 \/ phase[at[r]] = "releasing"]_vars

\* SIGTERM lets the requests that were accepted come to an end.
StopsGracefully ==
  [][faults' = faults => \A r \in Requests : step[r] # "cut" => step'[r] # "cut"]_vars

-----------------------------------------------------------------------------
(* Liveness.  Handlers and probes go on, a dependency that is down comes   *)
(* up, a silent peer is noticed, and a process that ended is started again.*)

Fairness ==
  /\ \A d \in Dependencies : WF_vars(ComeUp(d))
  /\ \A s \in Servers :
       WF_vars(HeartbeatsMissed(s)) /\ WF_vars(Start(s)) /\ WF_vars(End(s)) /\ WF_vars(Check(s))
  /\ \A r \in Requests : WF_vars(Handle(r))

FairSpec == Spec /\ Fairness

\* Processes that start together and race for the bucket, and those that
\* were stopped or cut off at any point, serve for good in the end.
ServesAgain == \A s \in Servers : <>[](phase[s] = "serving")

\* A process that got SIGTERM ends, whoever holds or awaits a connection.
StopsInTheEnd == \A s \in Servers : stopping[s] ~> phase[s] = "down"

\* A request is answered or cut off: nobody waits for a connection for ever.
RequestsEnd ==
  \A r \in Requests : step[r] \in Calls ~> step[r] \in Answers \cup {"cut"}

\* In the end the report tells whether the server can publish: a connection
\* that is lost is never replaced, and never reported as healthy.
HealthSettles ==
  \A s \in Servers : <>[](report[s] = IF link[s] = "open" THEN "ok" ELSE "degraded")

=============================================================================
