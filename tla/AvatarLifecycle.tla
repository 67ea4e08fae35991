--------------------------- MODULE AvatarLifecycle ---------------------------
(***************************************************************************)
(* The life of avatars across the server, PostgreSQL, MinIO, RabbitMQ and  *)
(* the workers: uploads, soft deletes, thumbnail generation and physical   *)
(* removal.  A step is one remote call of one goroutine together with the  *)
(* local code up to the next call, so any two actors interleave between    *)
(* two calls.  Every remote call may fail, and a write that reports an     *)
(* error may still have been applied.                                      *)
(*                                                                         *)
(* Order inside a queue is abstracted: any ready message may be delivered  *)
(* next.  The queues, `held' and prefetch stand for RabbitMQ as            *)
(* src/internal/broker/rabbitmq/rabbitmq.go uses it.                       *)
(***************************************************************************)
EXTENDS Naturals, FiniteSets

CONSTANTS
  Ids,          \* avatar ids; nextID draws a fresh one for every upload
  Users,
  Owner,        \* Owner[id]: the user whose upload draws id
  Requests,     \* DELETE calls that may arrive: records with id, by and call
  Workers,      \* worker processes
  Undecodable,  \* uploads that pass Sniff but that ThumbnailJPEG cannot decode
  FaultKinds,   \* which faults may happen, see Fault
  MaxFaults,    \* bound: how many faults happen in a behaviour
  NoId          \* the avatar id of an idle worker

Fault == {"repo", "storage", "broker", "lost", "crash", "cut", "stop"}

ASSUME LifecycleAssumption ==
  /\ Owner \in [Ids -> Users]
  /\ Requests \subseteq [id : Ids, by : Users, call : Nat]
  /\ Undecodable \subseteq Ids
  /\ FaultKinds \subseteq Fault
  /\ MaxFaults \in Nat
  /\ NoId \notin Ids

VARIABLES
  rows,      \* avatars table: status, stored thumbnail keys, deleted_at
  stored,    \* MinIO bucket: the objects kept for each avatar
  uploads,   \* POST /avatars handler of each avatar: next call, or its answer
  deletes,   \* DELETE handler of each request: next call, or its answer
  queues,    \* messages ready for delivery in avatars.uploads/.deletes
  held,      \* messages received by each worker and not finished by it
  mode,      \* "up", "stopping" (context cancelled), "cut" (connection lost)
  job,       \* the message a worker's Runner handles and its next call
  faults     \* faults so far

vars == <<rows, stored, uploads, deletes, queues, held, mode, job, faults>>

-----------------------------------------------------------------------------
(* Types and the values records start from. *)

Thumbs  == {"thumb100", "thumb300"}
Objects == {"original"} \cup Thumbs
Events  == {"uploaded", "delete_requested"}

Row == [status  : {"none", "processing", "completed", "failed"},
        thumbs  : SUBSET Thumbs,
        deleted : BOOLEAN]

UploadState == {"put", "create", "publish", "mark",
                "accepted", "accepted_failed", "error", "died"}

DeleteState == {"get", "soft_delete", "publish",
                "no_content", "not_found", "forbidden", "error", "died"}

JobPc == {"get_original", "put100", "put300", "record", "record_failed",
          "delete", "ack", "nack"}

NoJob == [pc |-> "idle", event |-> "uploaded", id |-> NoId, todo |-> {}]
Job   == [pc : JobPc, event : Events, id : Ids, todo : SUBSET Objects]

NoRow == [status |-> "none", thumbs |-> {}, deleted |-> FALSE]

TypeOK ==
  /\ rows \in [Ids -> Row]
  /\ stored \in [Ids -> SUBSET Objects]
  /\ uploads \in [Ids -> UploadState]
  /\ deletes \in [Requests -> DeleteState]
  /\ queues \in [Events -> SUBSET Ids]
  /\ held \in [Workers -> [Events -> SUBSET Ids]]
  /\ mode \in [Workers -> {"up", "stopping", "cut"}]
  /\ job \in [Workers -> Job \cup {NoJob}]
  /\ faults \in 0..MaxFaults

Init ==
  /\ rows = [id \in Ids |-> NoRow]
  /\ stored = [id \in Ids |-> {}]
  /\ uploads = [id \in Ids |-> "put"]
  /\ deletes = [r \in Requests |-> "get"]
  /\ queues = [e \in Events |-> {}]
  /\ held = [w \in Workers |-> [e \in Events |-> {}]]
  /\ mode = [w \in Workers |-> "up"]
  /\ job = [w \in Workers |-> NoJob]
  /\ faults = 0

-----------------------------------------------------------------------------
(* Remote calls. *)

Spend(kind) ==
  /\ kind \in FaultKinds
  /\ faults < MaxFaults
  /\ faults' = faults + 1

\* What the caller of a remote call and the dependency may disagree on:
\* "lost_reply" is an error for the caller of a call that was applied.
Outcome == {"ok", "failed", "lost_reply"}
Applied(o) == o # "failed"

\* A request handler's call on dependency dep ends in outcome o.
ServerCall(dep, o) ==
  \/ o = "ok" /\ UNCHANGED faults
  \/ o # "ok" /\ Spend(dep)

\* A worker's call; once its context is cancelled, every call is refused.
WorkerCall(w, dep, o) ==
  \/ mode[w] # "stopping" /\ ServerCall(dep, o)
  \/ mode[w] = "stopping" /\ o = "failed" /\ UNCHANGED faults

-----------------------------------------------------------------------------
(* The bucket: keys are deterministic, so a second Put replaces the first, *)
(* and removing an object that is not there succeeds.                      *)

PutObject(id, object) == stored' = [stored EXCEPT ![id] = @ \cup {object}]

RemoveObject(id, object) == stored' = [stored EXCEPT ![id] = @ \ {object}]

-----------------------------------------------------------------------------
(* The avatars table. *)

CreateRow(id) == rows' = [rows EXCEPT ![id] = [NoRow EXCEPT !.status = "processing"]]

MarkPublishFailed(id) == rows' = [rows EXCEPT ![id].status = "failed"]

Active(id) == rows[id].status # "none" /\ ~rows[id].deleted

\* Mutant: the duplicate check of the upload handler is missing.
BugCompleted(id) == FALSE

Completed(id) == rows[id].status = "completed" /\ rows[id].thumbs = Thumbs

\* Mutant: the original's key lands in a thumbnail column.
BugProcessed(row, keys) == [row EXCEPT !.thumbs = keys \cup {"original"}]

\* The row UpdateProcessingResult leaves: both keys, or neither and "failed".
Processed(row, keys) ==
  [row EXCEPT !.thumbs = keys,
              !.status = IF keys = Thumbs THEN "completed" ELSE "failed"]

UpdateProcessingResult(id, keys) ==
  rows' = [rows EXCEPT ![id] = Processed(@, keys)]

-----------------------------------------------------------------------------
(* RabbitMQ: the exchange routes by key, so one queue per kind of event.   *)

Enqueue(e, id) == queues' = [queues EXCEPT ![e] = @ \cup {id}]

\* Publish without confirms: success may hide a message that never arrives.
PublishCall(e, id, o) ==
  \/ o = "ok" /\ Enqueue(e, id) /\ UNCHANGED faults
  \/ o = "ok" /\ Spend("lost") /\ UNCHANGED queues
  \/ o = "failed" /\ Spend("broker") /\ UNCHANGED queues

\* The broker delivers to a consumer that has nothing unacknowledged.
Deliver(w, e, id) ==
  /\ mode[w] = "up"
  /\ held[w][e] = {}
  /\ id \in queues[e]
  /\ queues' = [queues EXCEPT ![e] = @ \ {id}]
  /\ held' = [held EXCEPT ![w][e] = {id}]
  /\ UNCHANGED <<rows, stored, uploads, deletes, mode, job, faults>>

\* Mutant: messages count as acknowledged once delivered.
BugRequeued(w) == queues

Requeued(w) == [e \in Events |-> queues[e] \cup held[w][e]]

\* The AMQP connection dies: its messages are ready again, yet the process
\* still handles what it had received, without a broker to answer to.
ConnectionLost(w) ==
  /\ mode[w] = "up"
  /\ Spend("cut")
  /\ queues' = Requeued(w)
  /\ mode' = [mode EXCEPT ![w] = "cut"]
  /\ UNCHANGED <<rows, stored, uploads, deletes, held, job>>

-----------------------------------------------------------------------------
(* POST /avatars: AvatarService.Upload. *)

\* Mutant: the error of Put is dropped.
BugUploadPut(id) ==
  /\ uploads[id] = "put"
  /\ \E o \in Outcome :
       /\ ServerCall("storage", o)
       /\ IF Applied(o) THEN PutObject(id, "original") ELSE UNCHANGED stored
  /\ uploads' = [uploads EXCEPT ![id] = "create"]
  /\ UNCHANGED <<rows, deletes, queues, held, mode, job>>

UploadPut(id) ==
  /\ uploads[id] = "put"
  /\ \E o \in Outcome :
       /\ ServerCall("storage", o)
       /\ IF Applied(o) THEN PutObject(id, "original") ELSE UNCHANGED stored
       /\ uploads' = [uploads EXCEPT ![id] = IF o = "ok" THEN "create" ELSE "error"]
  /\ UNCHANGED <<rows, deletes, queues, held, mode, job>>

UploadCreate(id) ==
  /\ uploads[id] = "create"
  /\ \E o \in Outcome :
       /\ ServerCall("repo", o)
       /\ IF Applied(o) THEN CreateRow(id) ELSE UNCHANGED rows
       /\ uploads' = [uploads EXCEPT ![id] = IF o = "ok" THEN "publish" ELSE "error"]
  /\ UNCHANGED <<stored, deletes, queues, held, mode, job>>

UploadPublish(id) ==
  /\ uploads[id] = "publish"
  /\ \E o \in Outcome :
       /\ PublishCall("uploaded", id, o)
       /\ uploads' = [uploads EXCEPT ![id] = IF o = "ok" THEN "accepted" ELSE "mark"]
  /\ UNCHANGED <<rows, stored, deletes, held, mode, job>>

\* The answer says "failed" whether or not MarkPublishFailed succeeds.
UploadMarkFailed(id) ==
  /\ uploads[id] = "mark"
  /\ \E o \in Outcome :
       /\ ServerCall("repo", o)
       /\ IF Applied(o) THEN MarkPublishFailed(id) ELSE UNCHANGED rows
  /\ uploads' = [uploads EXCEPT ![id] = "accepted_failed"]
  /\ UNCHANGED <<stored, deletes, queues, held, mode, job>>

\* The server process dies between two calls of the request.
UploadDies(id) ==
  /\ uploads[id] \in {"create", "publish", "mark"}
  /\ Spend("crash")
  /\ uploads' = [uploads EXCEPT ![id] = "died"]
  /\ UNCHANGED <<rows, stored, deletes, queues, held, mode, job>>

-----------------------------------------------------------------------------
(* DELETE /avatars/{id}: AvatarService.DeleteByID. *)

\* Mutant: the event is published without the soft delete.
BugAfterCheck(r) == IF Owner[r.id] = r.by THEN "publish" ELSE "forbidden"

AfterCheck(r) == IF Owner[r.id] = r.by THEN "soft_delete" ELSE "forbidden"

DeleteGet(r) ==
  /\ deletes[r] = "get"
  /\ \/ /\ Spend("repo")
        /\ deletes' = [deletes EXCEPT ![r] = "error"]
     \/ /\ ~Active(r.id)
        /\ deletes' = [deletes EXCEPT ![r] = "not_found"]
        /\ UNCHANGED faults
     \/ /\ Active(r.id)
        /\ deletes' = [deletes EXCEPT ![r] = AfterCheck(r)]
        /\ UNCHANGED faults
  /\ UNCHANGED <<rows, stored, uploads, queues, held, mode, job>>

\* Mutant: no deleted_at IS NULL in the WHERE clause.
BugSoftDeleteMatches(row) == row.status # "none"

\* SoftDeleteByID updates only a row that is not deleted yet.
SoftDeleteMatches(row) == row.status # "none" /\ ~row.deleted

DeleteSoft(r) ==
  /\ deletes[r] = "soft_delete"
  /\ \E o \in Outcome :
       /\ ServerCall("repo", o)
       /\ rows' = IF Applied(o) /\ SoftDeleteMatches(rows[r.id])
                    THEN [rows EXCEPT ![r.id].deleted = TRUE]
                    ELSE rows
       /\ deletes' = [deletes EXCEPT ![r] =
                        IF o # "ok" THEN "error"
                        ELSE IF SoftDeleteMatches(rows[r.id]) THEN "publish" ELSE "not_found"]
  /\ UNCHANGED <<stored, uploads, queues, held, mode, job>>

\* The result of Publish is discarded.
DeletePublish(r) ==
  /\ deletes[r] = "publish"
  /\ \E o \in Outcome : PublishCall("delete_requested", r.id, o)
  /\ deletes' = [deletes EXCEPT ![r] = "no_content"]
  /\ UNCHANGED <<rows, stored, uploads, held, mode, job>>

DeleteDies(r) ==
  /\ deletes[r] \in {"soft_delete", "publish"}
  /\ Spend("crash")
  /\ deletes' = [deletes EXCEPT ![r] = "died"]
  /\ UNCHANGED <<rows, stored, uploads, queues, held, mode, job>>

-----------------------------------------------------------------------------
(* UploadHandler.Handle, called by Runner for a message of avatars.uploads. *)

Begin(w, e, id, pc, todo) ==
  job' = [job EXCEPT ![w] = [pc |-> pc, event |-> e, id |-> id, todo |-> todo]]
Goto(w, pc) == job' = [job EXCEPT ![w].pc = pc]

\* GetActiveByID; an avatar already deleted or completed needs no work.
HandleUpload(w, id) ==
  /\ job[w].pc = "idle"
  /\ id \in held[w]["uploaded"]
  /\ \/ /\ WorkerCall(w, "repo", "failed")
        /\ Begin(w, "uploaded", id, "nack", {})
     \/ /\ WorkerCall(w, "repo", "ok")
        /\ Begin(w, "uploaded", id,
                 IF Active(id) /\ ~Completed(id) THEN "get_original" ELSE "ack", {})
  /\ UNCHANGED <<rows, stored, uploads, deletes, queues, held, mode>>

\* Get the original and render both thumbnails in memory.
GetOriginal(w) ==
  /\ job[w].pc = "get_original"
  /\ \/ /\ WorkerCall(w, "storage", "failed")
        /\ Goto(w, "record_failed")
     \/ /\ WorkerCall(w, "storage", "ok")
        /\ Goto(w, IF "original" \in stored[job[w].id] /\ job[w].id \notin Undecodable
                     THEN "put100" ELSE "record_failed")
  /\ UNCHANGED <<rows, stored, uploads, deletes, queues, held, mode>>

PutThumb(w, pc, thumb, next) ==
  /\ job[w].pc = pc
  /\ \E o \in Outcome :
       /\ WorkerCall(w, "storage", o)
       /\ IF Applied(o) THEN PutObject(job[w].id, thumb) ELSE UNCHANGED stored
       /\ Goto(w, IF o = "ok" THEN next ELSE "record_failed")
  /\ UNCHANGED <<rows, uploads, deletes, queues, held, mode>>

\* Mutant: the result is recorded once the first thumbnail is stored.
BugPutThumb100(w) == PutThumb(w, "put100", "thumb100", "record")

PutThumb100(w) == PutThumb(w, "put100", "thumb100", "put300")
PutThumb300(w) == PutThumb(w, "put300", "thumb300", "record")

RecordResult(w) ==
  /\ job[w].pc = "record"
  /\ \E o \in Outcome :
       /\ WorkerCall(w, "repo", o)
       /\ IF Applied(o) THEN UpdateProcessingResult(job[w].id, Thumbs)
                        ELSE UNCHANGED rows
       /\ Goto(w, IF o = "ok" THEN "ack" ELSE "nack")
  /\ UNCHANGED <<stored, uploads, deletes, queues, held, mode>>

\* Best effort: the handler returns its first error either way.
RecordFailure(w) ==
  /\ job[w].pc = "record_failed"
  /\ \E o \in Outcome :
       /\ WorkerCall(w, "repo", o)
       /\ IF Applied(o) THEN UpdateProcessingResult(job[w].id, {})
                        ELSE UNCHANGED rows
  /\ Goto(w, "nack")
  /\ UNCHANGED <<stored, uploads, deletes, queues, held, mode>>

-----------------------------------------------------------------------------
(* DeleteHandler.Handle. *)

\* Mutant: only the original is removed.
BugKeysOf(row) == {"original"}

KeysOf(row) == {"original"} \cup row.thumbs

\* GetByID; any error is taken for a duplicate event.  The keys to remove
\* are those the row names now.
HandleDelete(w, id) ==
  /\ job[w].pc = "idle"
  /\ id \in held[w]["delete_requested"]
  /\ \/ /\ WorkerCall(w, "repo", "failed")
        /\ Begin(w, "delete_requested", id, "ack", {})
     \/ /\ WorkerCall(w, "repo", "ok")
        /\ IF rows[id].status = "none"
             THEN Begin(w, "delete_requested", id, "ack", {})
             ELSE Begin(w, "delete_requested", id, "delete", KeysOf(rows[id]))
  /\ UNCHANGED <<rows, stored, uploads, deletes, queues, held, mode>>

NextKey(todo) ==
  IF "original" \in todo THEN "original"
  ELSE IF "thumb100" \in todo THEN "thumb100" ELSE "thumb300"

\* The first key that cannot be removed ends the loop.
DeleteObject(w) ==
  LET j   == job[w]
      key == NextKey(j.todo)
  IN  /\ j.pc = "delete"
      /\ \E o \in Outcome :
           /\ WorkerCall(w, "storage", o)
           /\ IF Applied(o) THEN RemoveObject(j.id, key) ELSE UNCHANGED stored
           /\ IF o # "ok"
                THEN Goto(w, "nack")
                ELSE job' = [job EXCEPT
                       ![w].todo = @ \ {key},
                       ![w].pc = IF j.todo = {key} THEN "ack" ELSE "delete"]
      /\ UNCHANGED <<rows, uploads, deletes, queues, held, mode>>

-----------------------------------------------------------------------------
(* Runner.Run: the answer to the broker, and the end of a worker process.  *)

Finish(w) ==
  /\ held' = [held EXCEPT ![w][job[w].event] = @ \ {job[w].id}]
  /\ job' = [job EXCEPT ![w] = NoJob]

Ack(w) ==
  /\ job[w].pc = "ack"
  /\ Finish(w)
  /\ UNCHANGED <<rows, stored, uploads, deletes, queues, mode, faults>>

\* Mutant: Nack(requeue = false).
BugNack(w) ==
  /\ job[w].pc = "nack"
  /\ Finish(w)
  /\ UNCHANGED <<rows, stored, uploads, deletes, queues, mode, faults>>

\* Mutant: the answer of a lost connection still reaches the broker.
BugLateNack(w) ==
  /\ job[w].pc = "nack"
  /\ Finish(w)
  /\ Enqueue(job[w].event, job[w].id)
  /\ UNCHANGED <<rows, stored, uploads, deletes, mode, faults>>

\* Nack(requeue = true); on a lost connection the broker requeued already.
Nack(w) ==
  /\ job[w].pc = "nack"
  /\ Finish(w)
  /\ IF mode[w] = "cut" THEN UNCHANGED queues ELSE Enqueue(job[w].event, job[w].id)
  /\ UNCHANGED <<rows, stored, uploads, deletes, mode, faults>>

\* Mutant: SIGTERM closes the AMQP connection under the handler.
BugStopWorker(w) ==
  /\ mode[w] = "up"
  /\ Spend("stop")
  /\ queues' = Requeued(w)
  /\ mode' = [mode EXCEPT ![w] = "stopping"]
  /\ UNCHANGED <<rows, stored, uploads, deletes, held, job>>

\* SIGTERM cancels the context of the calls and of the two consumers.
StopWorker(w) ==
  /\ mode[w] = "up"
  /\ Spend("stop")
  /\ mode' = [mode EXCEPT ![w] = "stopping"]
  /\ UNCHANGED <<rows, stored, uploads, deletes, queues, held, job>>

NothingHeld(w) == \A e \in Events : held[w][e] = {}

\* Both consumers are drained: Run returns and the process is replaced.
WorkerRestarts(w) ==
  /\ mode[w] # "up"
  /\ job[w].pc = "idle" /\ NothingHeld(w)
  /\ mode' = [mode EXCEPT ![w] = "up"]
  /\ UNCHANGED <<rows, stored, uploads, deletes, queues, held, job, faults>>

\* The process dies with messages in hand, and is replaced.
WorkerCrashes(w) ==
  /\ ~NothingHeld(w)
  /\ Spend("crash")
  /\ queues' = IF mode[w] = "cut" THEN queues ELSE Requeued(w)
  /\ held' = [held EXCEPT ![w] = [e \in Events |-> {}]]
  /\ mode' = [mode EXCEPT ![w] = "up"]
  /\ job' = [job EXCEPT ![w] = NoJob]
  /\ UNCHANGED <<rows, stored, uploads, deletes>>

-----------------------------------------------------------------------------
Upload(id) ==
  \/ UploadPut(id) \/ UploadCreate(id) \/ UploadPublish(id)
  \/ UploadMarkFailed(id) \/ UploadDies(id)

Delete(r) == DeleteGet(r) \/ DeleteSoft(r) \/ DeletePublish(r) \/ DeleteDies(r)

Broker(w) ==
  \/ \E e \in Events, id \in Ids : Deliver(w, e, id)
  \/ ConnectionLost(w)

Handler(w) ==
  \/ \E id \in Ids : HandleUpload(w, id) \/ HandleDelete(w, id)
  \/ GetOriginal(w) \/ PutThumb100(w) \/ PutThumb300(w)
  \/ RecordResult(w) \/ RecordFailure(w)
  \/ DeleteObject(w)
  \/ Ack(w) \/ Nack(w) \/ WorkerRestarts(w)

Process(w) == StopWorker(w) \/ WorkerCrashes(w)

Next ==
  \/ \E id \in Ids : Upload(id)
  \/ \E r \in Requests : Delete(r)
  \/ \E w \in Workers : Broker(w) \/ Handler(w) \/ Process(w)

Spec == Init /\ [][Next]_vars

-----------------------------------------------------------------------------
(* Safety. *)

\* A message the broker still owes to some handler.
Pending(e, id) == id \in queues[e] \/ \E w \in Workers : id \in held[w][e]

\* An avatar that the API still shows has its original, and every thumbnail
\* its row names, in the bucket: Upload stores before it creates the row,
\* the upload handler stores before it records, and the delete handler
\* works only on rows DeleteByID has hidden.
ActiveObjectsPresent ==
  \A id \in Ids : Active(id) => {"original"} \cup rows[id].thumbs \subseteq stored[id]

\* Objects disappear only after the soft delete of their row, whatever
\* redeliveries, crashes and stale handlers do.
RemovalFollowsSoftDelete ==
  [][\A id \in Ids : stored[id] \subseteq stored'[id] \/ rows[id].deleted]_vars

\* Of several DELETE calls for one avatar at most one gets past
\* SoftDeleteByID to publish an event and to answer 204.
DeleteSucceedsOnce ==
  \A r, s \in Requests :
    /\ r.id = s.id
    /\ deletes[r] \in {"publish", "no_content"}
    /\ deletes[s] \in {"publish", "no_content"}
    => r = s

\* An upload answered 201 "processing" is completed, deleted, or still owed
\* to a worker: no retry, crash or shutdown of workers drops the work.
AcceptedWorkIsPending ==
  \A id \in Ids :
    uploads[id] = "accepted" /\ Active(id) /\ rows[id].status # "completed"
      => Pending("uploaded", id)

\* Once completed, an avatar stays completed: redelivered upload events do
\* not take its thumbnails away.
CompletedIsStable ==
  [][\A id \in Ids :
       rows[id].status = "completed" => rows'[id].status = "completed"]_vars

\* When a DELETE was answered 204 and no worker owes anything for its event,
\* the original is gone from the bucket.
ConsumedDeleteRemovesOriginal ==
  \A r \in Requests :
    deletes[r] = "no_content" /\ ~Pending("delete_requested", r.id)
      => "original" \notin stored[r.id]

\* When nothing is owed for either event of a deleted avatar, the bucket
\* keeps none of its objects.
NothingOutlivesDelete ==
  \A r \in Requests :
    /\ deletes[r] = "no_content"
    /\ \A e \in Events : ~Pending(e, r.id)
    => stored[r.id] = {}

\* Two workers handle one event at once only when the broker has given one
\* of them up: stops, crashes and redeliveries alone never make them meet.
OneHandlerPerEvent ==
  \A v, w \in Workers :
    /\ v # w /\ job[v].pc # "idle" /\ job[w].pc # "idle"
    /\ job[v].event = job[w].event /\ job[v].id = job[w].id
    => "cut" \in {mode[v], mode[w]}

-----------------------------------------------------------------------------
(* Why objects are there: the order in which the actors write. *)

\* Row after object: an upload stores before it creates the row.
UploadIsOrdered ==
  \A id \in Ids :
    /\ uploads[id] \in {"put", "create"} => rows[id] = NoRow
    /\ uploads[id] = "create" => "original" \in stored[id]
    /\ uploads[id] \in {"publish", "mark"} => rows[id].status # "none"

\* Keys after objects: a thumbnail handler stores before it records,
\* unless a delete overtook it.
ThumbsAreOrdered ==
  \A w \in Workers :
    LET id == job[w].id
    IN  /\ job[w].pc \in {"get_original", "put100", "put300", "record", "record_failed"}
             => rows[id].status # "none"
        /\ job[w].pc \in {"put300", "record"}
             => "thumb100" \in stored[id] \/ rows[id].deleted
        /\ job[w].pc = "record"
             => "thumb300" \in stored[id] \/ rows[id].deleted

\* Removal after soft delete: whatever leads to a removal, from the request
\* about to publish to the handler in its loop, is about a hidden row.
RemovalIsOrdered ==
  /\ \A r \in Requests : deletes[r] \in {"publish", "no_content"} => rows[r.id].deleted
  /\ \A id \in queues["delete_requested"] : rows[id].deleted
  /\ \A w \in Workers :
       /\ \A id \in held[w]["delete_requested"] : rows[id].deleted
       /\ job[w].pc # "idle" /\ job[w].event = "delete_requested"
            => rows[job[w].id].deleted
       /\ job[w].pc = "delete" => job[w].event = "delete_requested"

\* The inductive invariant: objects are written before what refers to them
\* and removed after it, across requests, messages and handlers.
WritesAreOrdered ==
  /\ TypeOK
  /\ UploadIsOrdered
  /\ ThumbsAreOrdered
  /\ RemovalIsOrdered
  /\ ActiveObjectsPresent
  /\ DeleteSucceedsOnce

-----------------------------------------------------------------------------
(* Refinement: what a client can see of the lifecycle. *)

Phase(id) ==
  CASE rows[id].status = "none" -> "unborn"
    [] Active(id)               -> "shown"
    [] OTHER                    -> "hidden"

Offered(id) == IF Active(id) THEN {"original"} \cup rows[id].thumbs ELSE {}

Contract == INSTANCE AvatarContract WITH
  phase    <- [id \in Ids |-> Phase(id)],
  offered  <- [id \in Ids |-> Offered(id)],
  kept     <- stored,
  answered <- {r \in Requests : deletes[r] = "no_content"}

\* Requests, messages, workers and faults together do nothing that a client
\* could tell from the contract: the code's three calls per write look to
\* him like one step each.
ImplementsContract == Contract!Spec

-----------------------------------------------------------------------------
(* Refinement: where the broker has each message. *)

\* A message is the pair of its event and its avatar.
Messages == Events \X Ids

Sent ==
  {<<"uploaded", id>> : id \in {i \in Ids : uploads[i] = "accepted"}}
    \cup {<<"delete_requested", r.id>> : r \in {s \in Requests : deletes[s] = "no_content"}}

Ready == {m \in Messages : m[2] \in queues[m[1]]}

Unacked(w) == IF mode[w] = "cut" THEN {} ELSE {m \in Messages : m[2] \in held[w][m[1]]}

Queue == INSTANCE MessageQueue WITH
  QueueOf <- [m \in Messages |-> m[1]],
  sent    <- Sent,
  ready   <- Ready,
  unacked <- [w \in Workers |-> Unacked(w)]

\* Each event is published once, and from then on it is in one place for the
\* broker, whatever a handler that lost its connection still does with it.
ImplementsQueue == Queue!Spec

-----------------------------------------------------------------------------
(* Liveness.  The broker delivers what it can, and worker processes run.   *)

Fairness ==
  /\ WF_vars(\E w \in Workers, e \in Events, id \in Ids : Deliver(w, e, id))
  /\ \A w \in Workers : WF_vars(Handler(w))

FairSpec == Spec /\ Fairness

\* An upload answered 201 "processing" is completed or deleted, for good,
\* once faults stop.
UploadsSettle ==
  \A id \in Ids :
    uploads[id] = "accepted"
      ~> [](rows[id].status = "completed" \/ rows[id].deleted)

\* The original of an avatar deleted with 204 is removed for good.
DeletesReachStorage ==
  \A r \in Requests :
    deletes[r] = "no_content" ~> []("original" \notin stored[r.id])

=============================================================================
