# Verification of go-avatar-service

TLA+ modules that model the concurrent and failing parts of the avatar service,
TLC configurations that check them on small instances, and proofs checked by
TLAPS for every value of the constants. Paths are relative to the repository.

## The system

A client uploads an avatar. The server stores the original in MinIO, creates a
row in PostgreSQL, publishes `avatar.uploaded` and answers 201. A worker renders
two thumbnails, stores them and records their keys in the row. A DELETE sets
`deleted_at` and publishes `avatar.delete_requested`; a worker then removes the
objects. Reads list rows first and ask MinIO afterwards.

| Component | State | Operations | Hard behaviour |
| --- | --- | --- | --- |
| `AvatarService` (`internal/service/service.go`) | none of its own | upload, delete, reads, list, gallery | three remote calls per write without a transaction; reads from stale rows; racing DELETEs |
| `Runner`, `UploadHandler`, `DeleteHandler` (`internal/worker`) | the message in hand | one handler per event, ack and nack | redelivery, shutdown with a message in hand, two workers on one avatar |
| RabbitMQ client (`internal/broker/rabbitmq`) | two durable queues, prefetch 1 each; two merge goroutines per worker | `Dial`, `Publish`, `Consume`, `HealthCheck`, `Close` | publish without confirms, loss of the connection, endless requeue, a peer that falls silent |
| PostgreSQL repository (`internal/repository/postgres`) | table `avatars`, a pool of connections | create, soft delete, record a result, lists, open, close | statements that decide a race by their `WHERE`; a pool closed under its users |
| MinIO storage (`internal/storage/minio`) | bucket of deterministic keys | put, get, exists, delete, open | writes that report an error and were applied; a bucket two processes make |
| `CircuitBreaker` and guards (`internal/service`) | failures, `openUntil`, half-open flag | `Execute` around every call of a dependency | results of concurrent calls in any order |
| `RateLimiter` (`internal/http/rate_limit.go`) | a bucket per client | `allow`, `cleanup` | clock read before the mutex, buckets dropped and made anew |
| `RunServer`, `RunWorker` (`internal/app/app.go`) | processes and what they hold open | start, SIGTERM, deferred closes | `RunServer` does not wait for `Shutdown` |
| Health service (`internal/service/health_service.go`) | none | three probes, one after another | what it reports of connections shared with requests |
| Migrations, configuration, image processing, HTTP parsing, observability | none at run time | | |

Actors share only PostgreSQL, MinIO and RabbitMQ. The breaker sits between the
server or a worker and the first two (and the server's publisher); the rate
limiter in front of the router.

What makes each part correct:

* lifecycle: objects are written before the rows that name them and removed
  after the row is hidden; one DELETE wins; accepted work is not lost; removal
  happens in the end and leaves nothing behind;
* reads: what they leave out has been deleted, and the newest avatar is chosen;
* breaker: open exactly at the threshold, and never shut for ever;
* consumers: no published message is lost, messages that always fail hold up
  only those behind them, and a worker that is stopped hands everything in;
* server process: what a client was told holds however the process ends,
  it ends, comes back, and its health report is true in the end;
* limiter: a client gets a burst and what time refills, no more, however
  readings of the clock are ordered and buckets come and go.

## Modules

| Module | Models |
| --- | --- |
| `AvatarContract` | abstract: what a client is promised; `AvatarLifecycle` implements it |
| `MessageQueue` | abstract: a broker that delivers at least once; `AvatarLifecycle` and `EventConsumer` implement it |
| `AvatarLifecycle` | uploads, deletes, both handlers, the broker, faults |
| `AvatarQueries` | reads, metadata, gallery, DELETE of the current avatar, composed with `AvatarLifecycle` |
| `EventConsumer` | worker processes as consumers: queues in order, merge goroutines, `Runner.Run`, start and end |
| `ServerProcess` | server processes: start, requests in flight, pool, AMQP connection, health checks, end |
| `CircuitBreaker` | one breaker with concurrent callers |
| `RateLimiter` | one limiter with concurrent requests |
| `MC...` | constants of the small instances |
| `..._proofs` | theorems |

`AvatarLifecycle` and `EventConsumer` divide the workers between them: the first
has every call of the handlers and lets any ready message come next, the second
has the order of messages and reduces a handler to its outcome. `ServerProcess`
and `AvatarLifecycle` divide the requests in the same way.

### AvatarLifecycle

`rows` is the table (status, the thumbnail keys it names, `deleted_at`),
`stored` the bucket. `uploads[id]` and `deletes[r]` say which call a request
makes next, or its answer. `queues` holds ready messages, `held[w]` what worker
`w` has received and not finished, `job[w]` the message its `Runner` handles and
the next call of the handler, `mode[w]` whether its process is up, has a
cancelled context, or has lost its AMQP connection.

One action is one remote call with the local code up to the next call
(`UploadPut`, `UploadCreate`, ... for `Upload`; `DeleteGet`, `DeleteSoft`,
`DeletePublish` for `DeleteByID`; `HandleUpload`, `GetOriginal`, `PutThumb100`,
... for `UploadHandler.Handle`; `HandleDelete` and one `DeleteObject` per key for
`DeleteHandler.Handle`). Rendering happens in memory and belongs to
`GetOriginal`. `RecordFailure` is the discarded `UpdateProcessingResult(id, "", "")`
of each error path.

Faults, each spent from `MaxFaults`:

| Kind | Meaning |
| --- | --- |
| `repo`, `storage` | a call fails; a write that fails may have been applied (`lost_reply`). An open breaker is one such failure |
| `broker` | `Publish` reports an error and nothing is enqueued |
| `lost` | `Publish` succeeds and the message is dropped: there are no confirms |
| `crash` | the server dies between two calls of a request, or a worker with messages in hand dies and is replaced |
| `cut` | a worker's connection dies: its messages are ready again while it still handles them; its ack or nack has no effect |
| `stop` | SIGTERM: the context of a worker's calls is cancelled, so its later calls fail, yet what it holds is handled and answered |

Abstractions: the order inside a queue (any ready message may come next), bytes
and keys (an object is one of three names), timestamps, validation of input. An
avatar in `Undecodable` stands for a webp upload, which the router accepts
without decoding and `ThumbnailJPEG` rejects. SIGTERM cancels the context and both
consumers in one step, and a stopping worker keeps its connection; in `EventConsumer`
each consumer ends on its own and the connection may break meanwhile. A call in
flight at SIGTERM that was applied is a `lost_reply` just before it.

### AvatarQueries

A request takes its rows in one step (`QueryById`, `QueryByUser`) and asks MinIO
for one object per step (`AskStorage`), newest avatar first. Steps of the
lifecycle run in between. DELETE of the current avatar ends as a DELETE by id,
which is a request of `AvatarLifecycle` that waits until it is chosen
(`MayStart`). Its path user and its owner are the same; a request where they
differ is refused before any call. `ListByUser` is a single statement and left
out. Failures of queries are counted apart from
those of the lifecycle. `CreatedAt` is a fixed rank: `Upload` draws
`created_at` before its first call, so rows may appear in another order.

### AvatarContract

Four variables a client could keep: the `phase` of an avatar (unborn, shown,
hidden for ever), the variants `offered` in its metadata, those `kept` so that a
GET would find them, and the DELETEs `answered` with 204. One action per change
a client can see, and two (`Keep`, `Remove`) for objects that come and go behind
his back. `Contract` in `AvatarLifecycle` is the refinement mapping; a step
of the lifecycle is a step of the contract or none.

### MessageQueue

The broker as handlers may rely on it: what was `sent`, what is `ready`, what each
worker has `unacked`. A message is sent once, is delivered to one worker at a
time, comes back by a nack or with the connection it was delivered on, and goes
with its acknowledgement. `Queue` maps it in both models of the workers. In
`AvatarLifecycle` a message is sent when its request is answered, and a worker
whose connection is lost (`mode[w] = "cut"`) has nothing unacknowledged although
its handler goes on; in `EventConsumer` the broker counts what is in the slots of
an open connection. Both implementing one specification is what lets the one keep
handlers and the other connections and order.

### EventConsumer

`ready` and the `slot` of each worker and queue (prefetch 1) say where a message
is; `stage` follows it from the wire through the merge goroutine's blocked send
to the handler. `line` is the order in which the senders blocked at the unbuffered
channel, which Go serves first come, first served. `Rank` is the order of
publication: RabbitMQ requeues a message to its old place, so the oldest ready one
is next. `Consume` is two steps (`ConsumeUploads`, `ConsumeDeletes`), since
the second subscription may fail after the first. The end of a worker is the
cancelling of each consumer, the draining of each merge goroutine, the return
of `Run` and the deferred closes. Messages in `Poison` fail whatever happens: a
body without an id, or a webp upload. Faults: a failing call of a handler
(`call`), a failing subscription (`consume`), a lost connection (`cut`), SIGTERM
(`stop`), the death of a process (`crash`).

### ServerProcess

`phase` is where `RunServer` is, from opening the pool over looking for and making
the bucket and dialling RabbitMQ to serving, and then through its deferred closes:
the broker, the pool, whose `Close` waits for connections given out, the end of
the process. `step[r]` is the call a request makes next or its answer, `conn` the
requests that hold a connection of the pool, `row` and `written` what they have
done so far to their row and to the AMQP connection. `link` is that
connection, with `stuck` for a peer that no longer answers: what is written to it
vanishes, and `Channel` and `Close` wait until the client misses its heartbeats.
`check`, `doubt` and `report` are a health check between its probes. Workers are
seen only as those who may make the bucket first. The ping of a health check finds a
pool in use too late or in time, and takes no connection of it. Faults: SIGTERM (`stop`),
`crash`, a dependency that goes `down`, a connection that breaks (`cut`) or
falls silent (`hang`), a call that fails (`call`), executed or not.

### CircuitBreaker

`beforeCall` and `afterCall` are one step each, under the mutex; the operation
is not, so results come in any order. Time is what remains until `openUntil`. The failure count
stops at the threshold, beyond which it is not observable. A call may fail only if
the dependency was down at some time during it, or if its context was cancelled
(`HangUp`, at most `MaxHangUps` times): `isDependencyFailure` counts that too. A disabled breaker is not modelled: it
passes every call through.

### RateLimiter

`Arrive` reads the clock, `Admit` and `Refuse` are the code under the mutex, at most `MaxLag`
later. Tokens are counted in integer units where the code has float64. `start` and
`spent` are not in the code: from an arbitrary moment on they count what a
client was admitted for. `RefillsWithinTTL` says that a bucket older than the TTL
would have been full. The defaults (20 per second, burst 40, TTL of 300 s)
satisfy it with minutes to spare; the configuration does not enforce it.

## Runs

| Run | Instance | Shows |
| --- | --- | --- |
| `lifecycle_faults` | 1 avatar, 3 DELETEs (2 by the owner), 2 workers, 3 faults of any kind | types, the ordering invariant, objects present, one DELETE wins, removal after soft delete, the contract, the queue, one handler per event |
| `lifecycle_live` | the same with 2 faults of `repo`, `storage`, `broker`, `crash`, `stop` | accepted work stays owed; completed stays completed; accepted uploads settle |
| `lifecycle_removal` | 1 avatar, 1 DELETE, 2 workers, 3 faults of `storage`, `crash`, `cut` | a consumed delete event has removed the original; the original goes for good |
| `queries` | 2 avatars (the newer one undecodable), one of 5 requests, 1 DELETE by id, 1 worker, 2 `cut`s, 1 failing query | types; what is missing or passed over was deleted; the newest is chosen; nothing outlives a delete, on one worker without storage errors |
| `consumer` | 2 workers, 2 uploads (the second always fails), 1 delete, 2 faults of any kind | no message is lost; `Run` returns with nothing in hand; messages get through; SIGTERM ends a worker; the queue |
| `server` | 1 server, an upload and a delete, 1 connection, 3 faults of any kind | answers hold; one fault leaves no upload both without an event and unmarked; it stops, serves again and reports the truth; requests end |
| `breaker` | 3 callers, threshold 2, timeout 2, 2 cancelled contexts | open at the threshold; the flag has a probe; keeps admitting; recovers |
| `limiter` | 2 clients, 2 requests, half tokens, 7 ticks | the admission bound and its balance; stale buckets go |

Why the bounds are enough: the properties relate one avatar's row, objects,
messages and requests, avatars meet only in a worker and in lists, and two handlers
of one avatar are the most that one redelivery makes. Two DELETEs race, a third is
someone else's. The workers of `lifecycle_faults` are symmetric: its
properties are about safety and name no worker. Two or three faults allow a failing call inside a redelivery
after a crash. Requests that read do not meet each other, so one at a time is
enough. Three messages give each queue of a worker one in hand and one behind it,
and two workers a redelivery. A pool of one connection with two requests is
a pool at its limit, and a third fault still finds the process between two
closes. A probe and two late results are every order of results that matters to a
breaker. In 7 ticks a bucket is made, emptied, cleaned up and made again. Where a
fault kind is left out of a passing run, the property is false with it, and a run
below shows so or the code promises nothing: a lost message is lost. The system
comes to rest when all requests are answered, so lifecycle and query runs do not
check deadlock; the other runs do.

### Runs that end in a counterexample

| Run | What the code does | What the documents say |
| --- | --- | --- |
| `find_shutdown_delete` | `DeleteHandler` takes any error of `GetByID` for a duplicate, so a worker that is stopped acknowledges a removal it did not do | `docs/specs/01-avatar-service-v1.md:248` |
| `find_orphan_thumbs` | two workers: the delete handler reads the row before the upload handler records the thumbnails it stored | `docs/specs/01-avatar-service-v1.md:413` |
| `find_stale_handler` | a handler that lost its connection fails late and turns a completed row to failed | `docs/specs/01-avatar-service-v1.md:171` |
| `find_graceful_shutdown` | `RunServer` returns without waiting for `Shutdown`: after SIGTERM the process ends under a request it accepted, between two of its calls | `docs/specs/01-avatar-service-v1.md:1213` |

Two more disagreements are single steps of the models and have no run: `Metadata`
fails when MinIO does (`docs/specs/01-avatar-service-v1.md:118` has an answer even
then), and an upload whose `MarkPublishFailed` fails too is answered `failed`
with a row that stays `processing` (`:245` has it `failed`). `FailureIsRecorded`
says what the second takes: a fault besides the one that took RabbitMQ away, or a
shutdown that has reached the pool. With a lost AMQP connection, the
server answers and reports itself degraded, and does not reconnect; the probes
of the Helm chart see 200 and do not restart it (`HealthSettles`).

## Fairness

`FairSpec` of the lifecycle: the broker delivers when it can, and each worker
process takes its next step (`Runner.Run` loops over deliveries, calls return,
a process that ended is replaced by the orchestrator). Requests are not fair: clients need
not call. Faults are bounded, so they stop; with an undecodable avatar the
requeueing never does, which is why it is not part of the live runs.

`EventConsumer`: each goroutine of a worker goes on when it can (its main
goroutine, each merge goroutine, each consumer's wait for the context), and the
broker serves each consumer with credit. That weak fairness is enough for
`GetsThrough` rests on `line`: a plain choice among blocked senders would need strong
fairness, which Go does not promise. A process that ended is started again.

`ServerProcess`: handlers and probes go on, a dependency that is down comes up,
a silent peer is noticed, a process that ended is started again by Kubernetes.
Neither requests nor faults nor the worker that makes the bucket are fair.

`CircuitBreaker`: admitted calls return and time passes. `CallersSpec`, which the run
uses, adds that requests keep coming, without which an open breaker has nobody to
probe.

## Proofs

For every value of the constants, from the named assumptions of each module.

`AvatarLifecycle_proofs`. `ActiveObjectsPresent` is not inductive: a step that
creates a row is safe only if its Put succeeded, a step that records thumbnails
only if both Puts did, and a removal only if the row is hidden. `WritesAreOrdered`
adds these three: `UploadIsOrdered` (row after object), `ThumbsAreOrdered` (keys
after objects, unless a delete overtook the handler) and `RemovalIsOrdered`
(everything on the way to a removal, from the request about to publish through
queue and worker to the loop of the handler, is about a deleted row).
`DeleteSucceedsOnce` follows from the same part: whoever got past the soft
delete left the row deleted. Proved: `TypeCorrect`, `OrderInvariant`,
`ActiveObjectsArePresent`, `DeletesSucceedOnce`, `RemovalIsAfterSoftDelete`.

The same module has the refinement of `AvatarContract`, which needs more than the
ordering invariant: that a request past the soft delete is its owner's
(`OwnersDelete`), and that an avatar which is deleted or asked to be deleted
exists (`DeletedExist`). With these, each action maps to one action of the
contract or to none. Proved: `LifecycleImplementsContract`.

`Delivery_proofs`: what holds under a choice of faults, each theorem with an
assumption on `FaultKinds`. `UploadWork` (no lost connection): a message is in
its queue or with one worker (`OneCopy`), so nobody else works on a handler's row
(`WorkLeft`: not completed before the result is recorded, completed or hidden
before the acknowledgement). `RemovalWork` (no errors of PostgreSQL and the publisher,
no SIGTERM; connections may be lost): a delete event stays owed, or the original is
gone (`DeletesAreOwed`), because a handler starts with the original
(`RemovesOriginal`). Proved: `CompletedStaysCompleted`, `AcceptedWorkStaysPending`,
`ConsumedDeletesRemoveOriginals`.

`GoneWork` (lost connections only) is about what is left of a deleted avatar: a
thumbnail in the bucket is named by its row or about to be (`ThumbsNamed`), a
delete handler has on its list all there is (`RemovesAll`), and a delete event stays
pending until everything is gone (`OwedOrGone`). Each is preserved only while the
handlers of one avatar stay `Apart`: a delete handler that reads the row while an
upload handler stores thumbnails misses them, which is `find_orphan_thumbs`. So
`NothingOutlivesDeletesApart` has `[]Apart` as a hypothesis and any number of
workers, and says that nothing else leaves objects behind;
`NothingOutlivesDeletes` is without it for one worker, whose Runner has one handler
at a time. With failing calls the property is false even then: a Put may
succeed and the next one fail.

Under all faults: the refinement of `MessageQueue`. An answer is about a message that
its worker holds (`JobsHold`), so on a live connection it is an `Ack` or `Nack` of
the queue, and on a lost one nothing; that an event is sent once comes from
`DeleteSucceedsOnce`. Proved: `LifecycleImplementsQueue`. The theorems of
`MessageQueue_proofs`, instantiated with the same mapping, then give
`HandlersMeetOnlyWhenCut` and `EventsStayGone`.

`SettlingIsFinal` and `RemovalIsFinal` are the safety half of the two liveness
properties of the lifecycle: from `P ~> Q` they conclude `P ~> []Q`.

`MessageQueue_proofs`. `OnePlace` and `Prefetch` are inductive together. Proved:
`MessagesHaveOnePlace`, `PrefetchIsKept`, `AcknowledgedIsGone`.

`AvatarQueries_proofs`. The queries leave the lifecycle as it is
(`QueriesKeepLifecycle`), so the ordering invariant holds under them. From it: an
object that a request saw named is there until the avatar is deleted (`Kept`), as
deletions are final and objects of rows not deleted are kept. With that, by one
lemma per kind of step, every object a request passed over is explained
(`Explained`) and what it chose is the newest (`Newest`). A read by user is
excepted once a call failed (`Misread`): the code takes a failing `Get` for an
absent object and goes on. Proved: `QueriesKeepLifecycle`, `QueriesAreTyped`,
`MissingWasDeleted`, `NewestWasServed`.

`EventConsumer_proofs`. `NothingLost` is not inductive: a message goes back to the
broker from wherever the worker has it. `ConsumerInv` adds that slots and stages
agree (`SlotsFit`), that `line` lists exactly the blocked senders (`LineFits`), and that
a message on the way to the Runner has a running merge goroutine (`MergesFit`),
which is what `RunReturnsDrained` rests on. For the refinement of `MessageQueue`,
`BrokerInv` adds that a slot holds messages of its own queue (`SlotsKeepQueue`), so
that answering one leaves the other unanswered, and that a process that is down has
none (`DownIsEmpty`), so that connecting delivers nothing. Proved:
`ConsumersAreTyped`, `ConsumersLoseNothing`, `RunReturnsDrained`,
`ConsumersImplementQueue`, `MessagesStayInOnePlace`, `MessagesStayGone`.

`ServerProcess_proofs`. `BetweenCalls` says what a request has done before each call
(a row before it publishes, nothing written before it marks the row failed), and
with `TypeOK` makes `AnswersHold` inductive. `FailureIsRecorded` counts faults, so
its invariant does: whoever is without a broker (`Troubled`: a connection lost or
silent, a server told to stop, an upload about to mark its row) has cost a fault,
PostgreSQL being down has cost one, and both together two (`FaultsCounted`). A
server with requests and no connection was told to stop (`ServerFits`), so no
publication fails for free. Proved: `ServersAreTyped`, `AnswersAlwaysHold`,
`FailuresAreRecorded`.

`CircuitBreaker_proofs`. The three safety properties are inductive together. Proved: `BreakerTypes`,
`BreakerOpensAtThreshold`, `ProbeHoldsTheFlag`.

`RateLimiter_proofs`. `LimiterInv` is a balance: what a client spent and what
its bucket holds is at most a burst and the refill up to the bucket's last
reading; without a bucket, what it spent is at most the refill of the time up to
`MaxLag` ago, which is where `RefillsWithinTTL` is needed. Readings are ordered only up
to `MaxLag`, which `ReadingsAreRecent` keeps. Proved: `LimiterBalance`,
`LimiterIsBounded`, `LimiterForgets`, `LimiterIsTyped`.

Only model-checked: liveness (`UploadsSettle`, `DeletesReachStorage`, `GetsThrough`,
`WorkersStop`, `KeepsAdmitting`, `Recovers` and those of `ServerProcess`), which is
out of the prover's reach. `NothingOutlivesDelete` is checked in the run
`queries`, with requests that read; `QueriesKeepLifecycle` carries its theorem
there.

## Not modelled

* Migrations: one call of golang-migrate applies one schema version; its lock and
  its dirty flag are the library's.
* Configuration: it is parsed before anything is opened, and an error ends the
  process. The fallback to memory and to a broker that drops everything is a
  choice of the deployment.
* Image processing, HTTP parsing and rendering: no state. What they decide is
  an input of the models (`Undecodable`, `Poison`).
* Metrics, traces and logs do not feed back into what the service does. The
  worker's metrics server is one of them.
* The in-memory adapters keep the contracts of the real ones inside one process.
* Durations: which of two timeouts ends first, and how long a health check takes.
* An operation that panics behind a breaker: none is known to, and every call returns.

## Plan

Done: everything above. What would come next: a model of a rolling upgrade (old
and new processes on one schema), once there is a second schema version.
