----------------------------- MODULE Delivery_proofs -----------------------------
(***************************************************************************)
(* What at-least-once delivery is good for: theorems about AvatarLifecycle *)
(* under the faults that the properties admit.                             *)
(***************************************************************************)
EXTENDS AvatarLifecycle_proofs

-----------------------------------------------------------------------------
(* Without lost connections, at most one handler works on an upload.       *)

UploadSteps == {"get_original", "put100", "put300", "record", "record_failed"}

NoCuts == "cut" \notin FaultKinds /\ \A w \in Workers : mode[w] # "cut"

\* A handler works on a message that its worker holds.
JobsHold ==
  \A w \in Workers :
    /\ job[w].pc # "idle" => job[w].id \in held[w][job[w].event]
    /\ job[w].pc \in UploadSteps => job[w].event = "uploaded"

\* There is one message per accepted upload.
OneCopy ==
  \A id \in Ids :
    /\ Pending("uploaded", id) => uploads[id] = "accepted"
    /\ \A w \in Workers :
         id \in held[w]["uploaded"] =>
           /\ id \notin queues["uploaded"]
           /\ \A v \in Workers : id \in held[v]["uploaded"] => v = w

CompletedRows ==
  \A id \in Ids :
    rows[id].status = "completed" => uploads[id] = "accepted" /\ rows[id].thumbs = Thumbs

\* A handler on its way has a row that needs work, one about to acknowledge
\* leaves none.
WorkLeft ==
  \A w \in Workers :
    /\ job[w].pc \in UploadSteps => rows[job[w].id].status # "completed"
    /\ job[w].pc = "ack" /\ job[w].event = "uploaded" /\ Active(job[w].id)
         => rows[job[w].id].status = "completed"

UploadWork == NoCuts /\ JobsHold /\ OneCopy /\ CompletedRows /\ WorkLeft

LEMMA KeepsJobs ==
  ASSUME UploadWork, UNCHANGED <<held, job>> PROVE JobsHold'
BY DEF UploadWork, JobsHold

LEMMA KeepsCopies ==
  ASSUME UploadWork, UNCHANGED held, queues'["uploaded"] = queues["uploaded"],
         \A id \in Ids : uploads[id] = "accepted" => uploads'[id] = "accepted"
  PROVE  OneCopy'
BY DEF UploadWork, OneCopy, Pending

LEMMA KeepsCompleted ==
  ASSUME UploadWork, UNCHANGED rows,
         \A id \in Ids : uploads[id] = "accepted" => uploads'[id] = "accepted"
  PROVE  CompletedRows'
BY DEF UploadWork, CompletedRows

LEMMA KeepsLeft ==
  ASSUME UploadWork, UNCHANGED <<rows, job>> PROVE WorkLeft'
BY DEF UploadWork, WorkLeft, Active

LEMMA KeepsNoCuts ==
  ASSUME UploadWork, UNCHANGED mode PROVE NoCuts'
BY DEF UploadWork, NoCuts

\* Where a handler's avatar stands: its event came with an accepted upload.
LEMMA BusyId ==
  ASSUME TypeOK, UploadWork, NEW w \in Workers, job[w].pc # "idle"
  PROVE  /\ job[w] \in Job /\ job[w].id \in Ids /\ job[w].event \in Events
         /\ job[w].id \in held[w][job[w].event]
         /\ job[w].event = "uploaded" => uploads[job[w].id] = "accepted"
<1>1. job[w] \in Job
  BY DEF TypeOK, NoJob
<1>2. job[w].id \in Ids /\ job[w].event \in Events
  BY <1>1 DEF Job
<1> QED
  BY <1>1, <1>2 DEF UploadWork, JobsHold, OneCopy, Pending

\* Requests: what they do to rows is not about accepted uploads.
LEMMA UploadWorkStep ==
  ASSUME WritesAreOrdered, UploadWork, NEW id \in Ids, Upload(id) PROVE UploadWork'
<1>1. NoCuts' /\ JobsHold'
  BY KeepsJobs, KeepsNoCuts
  DEF Upload, UploadPut, UploadCreate, UploadPublish, UploadMarkFailed, UploadDies, PutObject,
      CreateRow, MarkPublishFailed
<1>2. CASE UploadPut(id) \/ UploadDies(id)
  <2>1. \A i \in Ids : uploads[i] = "accepted" => uploads'[i] = "accepted"
    BY <1>2 DEF UploadPut, UploadDies, WritesAreOrdered, TypeOK
  <2> QED
    BY <1>1, <1>2, <2>1, KeepsCopies, KeepsCompleted, KeepsLeft
    DEF UploadWork, UploadPut, UploadDies
<1>3. CASE UploadPublish(id)
  <2>1. \A i \in Ids : uploads[i] = "accepted" => uploads'[i] = "accepted"
    BY <1>3 DEF UploadPublish, WritesAreOrdered, TypeOK
  <2>2. OneCopy'
    <3>1. \A w \in Workers : id \notin held[w]["uploaded"]
      BY <1>3 DEF UploadPublish, UploadWork, OneCopy, Pending
    <3>2. \/ queues' = queues
          \/ /\ queues' = [queues EXCEPT !["uploaded"] = @ \cup {id}]
             /\ uploads' = [uploads EXCEPT ![id] = "accepted"]
      BY <1>3 DEF UploadPublish, PublishCall, Enqueue
    <3>3. CASE queues' = queues
      BY <1>3, <2>1, <3>3, KeepsCopies DEF UploadPublish
    <3>4. CASE queues' # queues
      <4>1. queues'["uploaded"] = queues["uploaded"] \cup {id} /\ uploads'[id] = "accepted"
        BY <3>2, <3>4 DEF WritesAreOrdered, TypeOK, Events
      <4> QED
        BY <1>3, <2>1, <3>1, <4>1 DEF UploadPublish, UploadWork, OneCopy, Pending
    <3> QED
      BY <3>3, <3>4
  <2> QED
    BY <1>1, <1>3, <2>1, <2>2, KeepsCompleted, KeepsLeft DEF UploadWork, UploadPublish
<1>4. CASE UploadCreate(id) \/ UploadMarkFailed(id)
  <2>1. \A i \in Ids : uploads[i] = "accepted" => i # id /\ uploads'[i] = "accepted"
    BY <1>4 DEF UploadCreate, UploadMarkFailed, WritesAreOrdered, TypeOK
  <2>2. \A i \in Ids \ {id} : rows'[i] = rows[i]
    BY <1>4 DEF UploadCreate, CreateRow, UploadMarkFailed, MarkPublishFailed, WritesAreOrdered, TypeOK
  <2>3. rows'[id].status # "completed"
    <3>1. rows[id].status # "completed"
      BY <1>4 DEF UploadCreate, UploadMarkFailed, UploadWork, CompletedRows
    <3>2. CASE rows' = rows
      BY <3>1, <3>2
    <3>3. CASE rows' # rows
      BY <1>4, <3>3
      DEF UploadCreate, CreateRow, UploadMarkFailed, MarkPublishFailed, WritesAreOrdered, TypeOK,
          NoRow, Row
    <3> QED
      BY <3>2, <3>3
  <2>4. CompletedRows'
    BY <2>1, <2>2, <2>3 DEF UploadWork, CompletedRows
  <2>5. WorkLeft'
    <3>1. \A w \in Workers : job[w].pc # "idle" /\ job[w].event = "uploaded"
             => job[w].id \in Ids \ {id}
      BY <2>1, BusyId DEF WritesAreOrdered
    <3>2. \A w \in Workers : job[w].pc \in UploadSteps => job[w].event = "uploaded"
      BY DEF UploadWork, JobsHold
    <3>3. job' = job
      BY <1>4 DEF UploadCreate, UploadMarkFailed
    <3> QED
      BY <2>2, <3>1, <3>2, <3>3 DEF UploadWork, WorkLeft, UploadSteps, Active
  <2> QED
    BY <1>1, <1>4, <2>1, <2>4, <2>5, KeepsCopies
    DEF UploadWork, UploadCreate, UploadMarkFailed
<1> QED
  BY <1>2, <1>3, <1>4 DEF Upload

\* A DELETE hides a row, and publishes to the other queue.
LEMMA DeleteWorkStep ==
  ASSUME WritesAreOrdered, UploadWork, NEW r \in Requests, Delete(r) PROVE UploadWork'
<1>1. UNCHANGED <<uploads, held, mode, job>> /\ queues'["uploaded"] = queues["uploaded"]
  BY DEF Delete, DeleteGet, DeleteSoft, DeletePublish, DeleteDies, PublishCall, Enqueue,
         WritesAreOrdered, TypeOK, Events
<1>2. \A i \in Ids : /\ rows'[i].status = rows[i].status
                     /\ rows'[i].thumbs = rows[i].thumbs
                     /\ rows[i].deleted => rows'[i].deleted
  <2>1. CASE rows' = rows
    BY <2>1
  <2>2. CASE rows' = [rows EXCEPT ![r.id].deleted = TRUE]
    BY <2>2, LifecycleAssumption DEF WritesAreOrdered, TypeOK, Row
  <2> QED
    BY <2>1, <2>2 DEF Delete, DeleteGet, DeleteSoft, DeletePublish, DeleteDies
<1>3. CompletedRows'
  BY <1>1, <1>2 DEF UploadWork, CompletedRows
<1>4. WorkLeft'
  <2>1. \A w \in Workers : job[w].pc # "idle" => job[w].id \in Ids
    BY BusyId DEF WritesAreOrdered
  <2> QED
    BY <1>1, <1>2, <2>1 DEF UploadWork, WorkLeft, UploadSteps, Active
<1> QED
  BY <1>1, <1>3, <1>4, KeepsJobs, KeepsCopies, KeepsNoCuts DEF UploadWork

\* Messages move between queue and worker, all copies of one at once.
LEMMA BrokerWorkStep ==
  ASSUME WritesAreOrdered, UploadWork, NEW w \in Workers, Broker(w) PROVE UploadWork'
<1>1. PICK e \in Events, id \in Ids : Deliver(w, e, id)
  BY DEF Broker, ConnectionLost, Spend, UploadWork, NoCuts
<1>2. UNCHANGED <<rows, uploads, mode, job>>
  BY <1>1 DEF Deliver
<1>3. /\ id \in queues[e]
      /\ queues' = [queues EXCEPT ![e] = @ \ {id}]
      /\ held' = [held EXCEPT ![w][e] = {id}]
      /\ held[w][e] = {}
  BY <1>1 DEF Deliver
<1>4. /\ \A v \in Workers, f \in Events :
           held'[v][f] = IF v = w /\ f = e THEN {id} ELSE held[v][f]
      /\ \A f \in Events : queues'[f] = IF f = e THEN queues[e] \ {id} ELSE queues[f]
  BY <1>3 DEF WritesAreOrdered, TypeOK
<1>5. JobsHold'
  <2>1. \A v \in Workers : job[v].pc # "idle" => job[v].event \in Events
    BY BusyId DEF WritesAreOrdered
  <2> QED
    BY <1>2, <1>3, <1>4, <2>1 DEF UploadWork, JobsHold, UploadSteps
<1>6. OneCopy'
  <2>1. CASE e = "uploaded"
    BY <1>2, <1>3, <1>4, <2>1 DEF UploadWork, OneCopy, Pending
  <2>2. CASE e # "uploaded"
    BY <1>2, <1>4, <2>2 DEF UploadWork, OneCopy, Pending, Events
  <2> QED
    BY <2>1, <2>2
<1> QED
  BY <1>2, <1>5, <1>6, KeepsCompleted, KeepsLeft, KeepsNoCuts DEF UploadWork

\* A handler takes a message that its worker holds.
LEMMA BeginWorkStep ==
  ASSUME WritesAreOrdered, UploadWork, NEW w \in Workers, NEW id \in Ids,
         HandleUpload(w, id) \/ HandleDelete(w, id)
  PROVE  UploadWork'
<1>1. UNCHANGED <<rows, uploads, queues, held, mode>>
  BY DEF HandleUpload, HandleDelete
<1>2. PICK e, pc, todo :
        /\ e \in Events
        /\ job' = [job EXCEPT ![w] = [pc |-> pc, event |-> e, id |-> id, todo |-> todo]]
        /\ id \in held[w][e]
        /\ \/ e = "uploaded" /\ pc = "nack"
           \/ e = "uploaded" /\ pc = "get_original" /\ ~Completed(id)
           \/ e = "uploaded" /\ pc = "ack" /\ (Active(id) => Completed(id))
           \/ e = "delete_requested" /\ pc \in {"ack", "delete"}
  BY DEF HandleUpload, HandleDelete, Begin, Events
<1>3. /\ job'[w].pc = pc /\ job'[w].event = e /\ job'[w].id = id
      /\ \A v \in Workers \ {w} : job'[v] = job[v]
  BY <1>2 DEF WritesAreOrdered, TypeOK
<1>4. JobsHold'
  BY <1>1, <1>2, <1>3 DEF UploadWork, JobsHold, UploadSteps
<1>5. WorkLeft'
  BY <1>1, <1>2, <1>3 DEF UploadWork, WorkLeft, UploadSteps, CompletedRows, Completed, Active
<1> QED
  BY <1>1, <1>4, <1>5, KeepsCopies, KeepsCompleted, KeepsNoCuts DEF UploadWork

\* A handler that goes on without a change of rows.
LEMMA GoOnWorkStep ==
  ASSUME WritesAreOrdered, UploadWork, NEW w \in Workers,
         UNCHANGED <<rows, uploads, queues, held, mode>>,
         NEW j, job' = [job EXCEPT ![w] = j],
         job[w].pc # "idle", j.id = job[w].id, j.event = job[w].event,
         \/ job[w].pc \in UploadSteps /\ j.pc \in UploadSteps \cup {"nack"}
         \/ job[w].pc = "delete" /\ job[w].event = "delete_requested" /\ j.pc \in {"delete", "ack", "nack"}
  PROVE  UploadWork'
<1>1. job'[w] = j /\ \A v \in Workers \ {w} : job'[v] = job[v]
  BY DEF WritesAreOrdered, TypeOK
<1>2. JobsHold'
  BY <1>1 DEF UploadWork, JobsHold, UploadSteps
<1>3. WorkLeft'
  BY <1>1 DEF UploadWork, WorkLeft, UploadSteps, Active
<1> QED
  BY <1>2, <1>3, KeepsCopies, KeepsCompleted, KeepsNoCuts DEF UploadWork

LEMMA CallWorkStep ==
  ASSUME WritesAreOrdered, UploadWork, NEW w \in Workers,
         GetOriginal(w) \/ PutThumb100(w) \/ PutThumb300(w) \/ DeleteObject(w)
  PROVE  UploadWork'
<1>1. UNCHANGED <<rows, uploads, queues, held, mode>>
  BY DEF GetOriginal, PutThumb100, PutThumb300, PutThumb, DeleteObject
<1>2. job[w].pc # "idle" /\ job[w] \in Job
  BY BusyId
  DEF WritesAreOrdered, GetOriginal, PutThumb100, PutThumb300, PutThumb, DeleteObject
<1>3. CASE DeleteObject(w)
  <2>1. job[w].event = "delete_requested" /\ job[w].pc = "delete"
    BY <1>3 DEF DeleteObject, WritesAreOrdered, RemovalIsOrdered
  <2>2. PICK j : /\ job' = [job EXCEPT ![w] = j]
                 /\ j.id = job[w].id /\ j.event = job[w].event
                 /\ j.pc \in {"delete", "ack", "nack"}
    <3>1. CASE Goto(w, "nack")
      <4> DEFINE j == [job[w] EXCEPT !.pc = "nack"]
      <4>1. job' = [job EXCEPT ![w] = j]
        BY <3>1 DEF Goto
      <4>2. j.id = job[w].id /\ j.event = job[w].event /\ j.pc = "nack"
        BY <1>2 DEF Job
      <4> QED
        BY <4>1, <4>2
    <3>2. CASE ~Goto(w, "nack")
      <4> DEFINE key == NextKey(job[w].todo)
                 j == [job[w] EXCEPT !.todo = @ \ {key},
                                     !.pc = IF job[w].todo = {key} THEN "ack" ELSE "delete"]
      <4>1. job' = [job EXCEPT ![w] = j]
        BY <1>3, <3>2 DEF DeleteObject, WritesAreOrdered, TypeOK
      <4>2. j.id = job[w].id /\ j.event = job[w].event /\ j.pc \in {"delete", "ack", "nack"}
        BY <1>2 DEF Job
      <4> QED
        BY <4>1, <4>2
    <3> QED
      BY <3>1, <3>2
  <2> QED
    BY <1>1, <1>2, <2>1, <2>2, GoOnWorkStep
<1>4. CASE ~DeleteObject(w)
  <2>1. PICK pc \in UploadSteps : Goto(w, pc)
    BY <1>4 DEF GetOriginal, PutThumb100, PutThumb300, PutThumb, UploadSteps
  <2>2. job[w].pc \in UploadSteps
    BY <1>4 DEF GetOriginal, PutThumb100, PutThumb300, PutThumb, UploadSteps
  <2> DEFINE j == [job[w] EXCEPT !.pc = pc]
  <2>3. job' = [job EXCEPT ![w] = j] /\ j.pc = pc /\ j.id = job[w].id /\ j.event = job[w].event
    BY <1>2, <2>1 DEF Goto, Job
  <2> QED
    BY <1>1, <1>2, <2>1, <2>2, <2>3, GoOnWorkStep
<1> QED
  BY <1>3, <1>4

\* A handler that records its result is the only one with its message, so
\* nobody else has looked at the row meanwhile.
LEMMA RecordWorkStep ==
  ASSUME WritesAreOrdered, UploadWork, NEW w \in Workers,
         RecordResult(w) \/ RecordFailure(w)
  PROVE  UploadWork'
<1> DEFINE id == job[w].id
<1>1. UNCHANGED <<uploads, queues, held, mode>>
  BY DEF RecordResult, RecordFailure
<1>2. job[w].pc \in {"record", "record_failed"}
  BY DEF RecordResult, RecordFailure
<1>3. job[w] \in Job /\ id \in Ids /\ job[w].event = "uploaded"
      /\ uploads[id] = "accepted" /\ id \in held[w]["uploaded"]
  BY <1>2, BusyId DEF WritesAreOrdered, UploadWork, JobsHold, UploadSteps
<1>4. \A v \in Workers \ {w} :
        job[v].pc # "idle" /\ job[v].event = "uploaded" => job[v].id \in Ids \ {id}
  BY <1>3, BusyId DEF WritesAreOrdered, UploadWork, OneCopy
<1>5. PICK pc \in {"ack", "nack"} : Goto(w, pc) /\ (pc = "ack" => UpdateProcessingResult(id, Thumbs))
  BY DEF RecordResult, RecordFailure, Applied
<1>6. /\ job'[w].pc = pc /\ job'[w].event = "uploaded" /\ job'[w].id = id
      /\ \A v \in Workers \ {w} : job'[v] = job[v]
  BY <1>3, <1>5 DEF Goto, Job, WritesAreOrdered, TypeOK
<1>7. \/ rows' = rows
      \/ UpdateProcessingResult(id, Thumbs)
      \/ UpdateProcessingResult(id, {})
  BY DEF RecordResult, RecordFailure
<1>8. /\ \A i \in Ids \ {id} : rows'[i] = rows[i]
      /\ rows'[id].status = "completed" => rows'[id].thumbs = Thumbs
      /\ UpdateProcessingResult(id, Thumbs) => rows'[id].status = "completed"
  <2>1. rows \in [Ids -> Row]
    BY DEF WritesAreOrdered, TypeOK
  <2>2. UpdateProcessingResult(id, Thumbs) => rows'[id].status = "completed"
    BY <2>1, <1>3 DEF UpdateProcessingResult, Processed, Row
  <2>5. CASE rows' = rows
    BY <2>2, <2>5, <1>3 DEF UploadWork, CompletedRows
  <2>3. CASE UpdateProcessingResult(id, Thumbs)
    BY <2>1, <2>3, <1>3 DEF UpdateProcessingResult, Processed, Row
  <2>4. CASE UpdateProcessingResult(id, {})
    BY ZenonT(30), <2>1, <2>4, <1>3 DEF UpdateProcessingResult, Processed, Row, Thumbs
  <2> QED
    BY <1>7, <2>3, <2>4, <2>5
<1>9. JobsHold'
  BY <1>1, <1>3, <1>6 DEF UploadWork, JobsHold, UploadSteps
<1>10. CompletedRows'
  BY <1>1, <1>3, <1>8 DEF UploadWork, CompletedRows
<1>11. WorkLeft'
  <2>1. \A v \in Workers \ {w} : job[v].pc \in UploadSteps => job[v].event = "uploaded"
    BY DEF UploadWork, JobsHold
  <2> QED
    BY <1>4, <1>5, <1>6, <1>8, <2>1 DEF UploadWork, WorkLeft, UploadSteps, Active
<1> QED
  BY <1>1, <1>9, <1>10, <1>11, KeepsCopies, KeepsNoCuts DEF UploadWork

\* The answer to the broker: the message is gone, or in its queue again.
LEMMA AnswerWorkStep ==
  ASSUME WritesAreOrdered, UploadWork, NEW w \in Workers, Ack(w) \/ Nack(w)
  PROVE  UploadWork'
<1> DEFINE id == job[w].id
           e == job[w].event
<1>1. UNCHANGED <<rows, uploads, mode>> /\ Finish(w)
  BY DEF Ack, Nack
<1>2. job[w].pc # "idle" /\ id \in Ids /\ e \in Events /\ id \in held[w][e]
  BY BusyId DEF WritesAreOrdered, Ack, Nack
<1>3. /\ \A v \in Workers, f \in Events :
           held'[v][f] = IF v = w /\ f = e THEN held[v][f] \ {id} ELSE held[v][f]
      /\ job'[w] = NoJob /\ \A v \in Workers \ {w} : job'[v] = job[v]
  BY <1>1, <1>2 DEF Finish, WritesAreOrdered, TypeOK
<1>4. \/ queues' = queues
      \/ \A f \in Events : queues'[f] = IF f = e THEN queues[f] \cup {id} ELSE queues[f]
  BY <1>2 DEF Ack, Nack, Enqueue, WritesAreOrdered, TypeOK
<1>5. \A v \in Workers : job[v].pc # "idle" => job[v].event \in Events
  BY BusyId DEF WritesAreOrdered
<1>6. JobsHold'
  <2>1. job'[w].pc = "idle"
    BY <1>3 DEF NoJob
  <2>2. \A v \in Workers \ {w}, f \in Events : held'[v][f] = held[v][f]
    BY <1>3
  <2> QED
    BY <1>3, <1>5, <2>1, <2>2 DEF UploadWork, JobsHold, UploadSteps
<1>7. OneCopy'
  <2>1. CASE e = "uploaded"
    <3>1. /\ uploads[id] = "accepted" /\ id \notin queues["uploaded"]
          /\ \A v \in Workers : id \notin held'[v]["uploaded"]
      BY <1>2, <1>3, <2>1 DEF UploadWork, OneCopy, Pending, Events
    <3>2. \A i \in Ids \ {id} :
            /\ i \in queues'["uploaded"] <=> i \in queues["uploaded"]
            /\ \A v \in Workers : i \in held'[v]["uploaded"] <=> i \in held[v]["uploaded"]
      BY <1>3, <1>4, <2>1 DEF Events
    <3> QED
      BY <1>1, <3>1, <3>2 DEF UploadWork, OneCopy, Pending
  <2>2. CASE e # "uploaded"
    BY <1>1, <1>2, <1>3, <1>4, <2>2 DEF UploadWork, OneCopy, Pending, Events
  <2> QED
    BY <2>1, <2>2
<1>8. WorkLeft'
  BY <1>1, <1>3 DEF UploadWork, WorkLeft, NoJob, UploadSteps, Active
<1> QED
  BY <1>1, <1>6, <1>7, <1>8, KeepsCompleted, KeepsNoCuts DEF UploadWork

\* A worker that dies gives everything back.
LEMMA CrashWorkStep ==
  ASSUME WritesAreOrdered, UploadWork, NEW w \in Workers, WorkerCrashes(w)
  PROVE  UploadWork'
<1>1. /\ UNCHANGED <<rows, uploads>>
      /\ \A f \in Events : queues'[f] = queues[f] \cup held[w][f]
      /\ \A v \in Workers, f \in Events : held'[v][f] = IF v = w THEN {} ELSE held[v][f]
      /\ job'[w] = NoJob /\ \A v \in Workers \ {w} : job'[v] = job[v]
      /\ \A v \in Workers : mode'[v] = IF v = w THEN "up" ELSE mode[v]
  BY DEF WorkerCrashes, Requeued, UploadWork, NoCuts, WritesAreOrdered, TypeOK
<1>2. NoCuts'
  BY <1>1 DEF UploadWork, NoCuts
<1>3. JobsHold'
  <2>1. \A v \in Workers : job[v].pc # "idle" => job[v].event \in Events
    BY BusyId DEF WritesAreOrdered
  <2> QED
    BY <1>1, <2>1 DEF UploadWork, JobsHold, NoJob, UploadSteps
<1>4. OneCopy'
  BY <1>1 DEF UploadWork, OneCopy, Pending, Events
<1>5. WorkLeft'
  BY <1>1 DEF UploadWork, WorkLeft, NoJob, UploadSteps, Active
<1> QED
  BY <1>1, <1>2, <1>3, <1>4, <1>5, KeepsCompleted DEF UploadWork

LEMMA UploadWorkInit == Init /\ "cut" \notin FaultKinds => UploadWork
BY DEF Init, UploadWork, NoCuts, JobsHold, OneCopy, Pending, CompletedRows, WorkLeft, NoRow, NoJob,
       UploadSteps, Events

LEMMA UploadWorkNext ==
  WritesAreOrdered /\ UploadWork /\ [Next]_vars => UploadWork'
<1> SUFFICES ASSUME WritesAreOrdered, UploadWork, [Next]_vars PROVE UploadWork'
  OBVIOUS
<1>1. ASSUME NEW w \in Workers, Handler(w) \/ Process(w) PROVE UploadWork'
  <2>1. CASE StopWorker(w) \/ WorkerRestarts(w)
    <3>1. NoCuts'
      BY <2>1 DEF StopWorker, WorkerRestarts, UploadWork, NoCuts, WritesAreOrdered, TypeOK
    <3> QED
      BY <2>1, <3>1, KeepsJobs, KeepsCopies, KeepsCompleted, KeepsLeft
      DEF UploadWork, StopWorker, WorkerRestarts
  <2> QED
    BY <1>1, <2>1, BeginWorkStep, CallWorkStep, RecordWorkStep, AnswerWorkStep, CrashWorkStep
    DEF Handler, Process
<1>2. CASE UNCHANGED vars
  BY <1>2, KeepsJobs, KeepsCopies, KeepsCompleted, KeepsLeft, KeepsNoCuts DEF UploadWork, vars
<1> QED
  BY <1>1, <1>2, UploadWorkStep, DeleteWorkStep, BrokerWorkStep DEF Next

\* No step shows a hidden row again.
LEMMA HiddenStays ==
  ASSUME WritesAreOrdered, [Next]_vars, NEW id \in Ids, rows[id].deleted PROVE rows'[id].deleted
<1>1. rows \in [Ids -> Row]
  BY DEF WritesAreOrdered, TypeOK
<1>2. ASSUME NEW i \in Ids, Upload(i) PROVE rows'[id].deleted
  BY <1>1, <1>2
  DEF Upload, UploadPut, UploadCreate, CreateRow, UploadPublish, UploadMarkFailed,
      MarkPublishFailed, UploadDies, WritesAreOrdered, UploadIsOrdered, NoRow, Row
<1>3. ASSUME NEW r \in Requests, Delete(r) PROVE rows'[id].deleted
  BY <1>1, <1>3 DEF Delete, DeleteGet, DeleteSoft, DeletePublish, DeleteDies, Row
<1>4. ASSUME NEW w \in Workers, RecordResult(w) \/ RecordFailure(w) PROVE rows'[id].deleted
  <2>1. \A keys : Processed(rows[id], keys).deleted = rows[id].deleted
    BY <1>1 DEF Processed, Row
  <2>2. \/ rows' = rows
        \/ UpdateProcessingResult(job[w].id, Thumbs)
        \/ UpdateProcessingResult(job[w].id, {})
    BY <1>4 DEF RecordResult, RecordFailure
  <2>3. rows'[id] = rows[id] \/ \E keys : rows'[id] = Processed(rows[id], keys)
    <3>1. CASE job[w].id = id
      BY <1>1, <2>2, <3>1 DEF UpdateProcessingResult
    <3>2. CASE job[w].id # id
      BY <1>1, <2>2, <3>2 DEF UpdateProcessingResult
    <3> QED
      BY <3>1, <3>2
  <2> QED
    BY <2>1, <2>3
<1> QED
  BY ZenonT(30), <1>2, <1>3, <1>4
  DEF Next, vars, Broker, Deliver, ConnectionLost, Handler, HandleUpload, HandleDelete, GetOriginal,
      PutThumb100, PutThumb300, PutThumb, DeleteObject, Ack, Nack, WorkerRestarts, Process,
      StopWorker, WorkerCrashes

\* Only a handler at work, on a row not completed, or an upload that has not
\* published yet changes the outcome a row records.
LEMMA RecordedStep ==
  ASSUME WritesAreOrdered, UploadWork, [Next]_vars, NEW id \in Ids,
         rows'[id].status # rows[id].status
  PROVE  /\ rows[id].status # "completed"
         /\ \/ uploads[id] # "accepted" /\ uploads'[id] # "accepted"
            \/ Pending("uploaded", id) /\ Pending("uploaded", id)'
<1>1. rows \in [Ids -> Row] /\ uploads \in [Ids -> UploadState]
  BY DEF WritesAreOrdered, TypeOK
<1>2. ASSUME NEW i \in Ids, Upload(i)
      PROVE  rows[id].status # "completed" /\ uploads[id] # "accepted" /\ uploads'[id] # "accepted"
  <2>1. UploadCreate(i) \/ UploadMarkFailed(i)
    BY <1>2 DEF Upload, UploadPut, UploadPublish, UploadDies
  <2>2. i = id
    BY <1>1, <2>1 DEF UploadCreate, CreateRow, UploadMarkFailed, MarkPublishFailed
  <2>3. uploads[id] # "accepted" /\ uploads'[id] # "accepted"
    BY <1>1, <2>1, <2>2 DEF UploadCreate, UploadMarkFailed
  <2> QED
    BY <2>3 DEF UploadWork, CompletedRows
<1>3. ASSUME NEW w \in Workers, RecordResult(w) \/ RecordFailure(w)
      PROVE  /\ rows[id].status # "completed"
             /\ Pending("uploaded", id) /\ Pending("uploaded", id)'
  <2>1. job[w].pc \in UploadSteps /\ job[w].pc # "idle" /\ held' = held
    BY <1>3 DEF RecordResult, RecordFailure, UploadSteps
  <2>2. job[w].id = id
    BY <1>1, <1>3 DEF RecordResult, RecordFailure, UpdateProcessingResult
  <2>3. job[w].id \in held[w]["uploaded"]
    BY <2>1 DEF UploadWork, JobsHold
  <2> QED
    BY <2>1, <2>2, <2>3 DEF UploadWork, WorkLeft, Pending
<1>4. ASSUME NEW r \in Requests, Delete(r) PROVE FALSE
  BY <1>1, <1>4, LifecycleAssumption
  DEF Delete, DeleteGet, DeleteSoft, DeletePublish, DeleteDies, Row
<1>5. rows' # rows
  OBVIOUS
<1> QED
  BY ZenonT(30), <1>2, <1>3, <1>4, <1>5
  DEF Next, vars, Broker, Deliver, ConnectionLost, Handler, HandleUpload, HandleDelete, GetOriginal,
      PutThumb100, PutThumb300, PutThumb, DeleteObject, Ack, Nack, WorkerRestarts, Process,
      StopWorker, WorkerCrashes

\* A message is dropped only by the acknowledgement of a handler that left
\* its row completed or found it hidden.
LEMMA PendingStep ==
  ASSUME WritesAreOrdered, UploadWork, [Next]_vars, NEW id \in Ids,
         Pending("uploaded", id), Active(id)', rows'[id].status # "completed"
  PROVE  Pending("uploaded", id)'
<1>1. ASSUME queues'["uploaded"] = queues["uploaded"] /\ held' = held
      PROVE  Pending("uploaded", id)'
  BY <1>1 DEF Pending
<1>2. ASSUME NEW i \in Ids, UploadPublish(i) PROVE Pending("uploaded", id)'
  BY <1>2 DEF UploadPublish, PublishCall, Enqueue, Pending, WritesAreOrdered, TypeOK, Events
<1>3. ASSUME NEW r \in Requests, DeletePublish(r) PROVE Pending("uploaded", id)'
  <2>1. queues'["uploaded"] = queues["uploaded"]
    BY <1>3 DEF DeletePublish, PublishCall, Enqueue, WritesAreOrdered, TypeOK, Events
  <2> QED
    BY <1>1, <1>3, <2>1 DEF DeletePublish
<1>4. ASSUME NEW w \in Workers, Broker(w) PROVE Pending("uploaded", id)'
  <2>1. PICK e \in Events, i \in Ids : Deliver(w, e, i)
    BY <1>4 DEF Broker, ConnectionLost, Spend, UploadWork, NoCuts
  <2>2. /\ \A v \in Workers, f \in Events :
             held'[v][f] = IF v = w /\ f = e THEN {i} ELSE held[v][f]
        /\ \A f \in Events : queues'[f] = IF f = e THEN queues[e] \ {i} ELSE queues[f]
        /\ held[w][e] = {}
    BY <2>1 DEF Deliver, WritesAreOrdered, TypeOK
  <2> QED
    BY <2>2 DEF Pending, Events
<1>5. ASSUME NEW w \in Workers, Ack(w) \/ Nack(w) PROVE Pending("uploaded", id)'
  <2>1. /\ job[w].event \in Events /\ job[w].id \in Ids
        /\ job[w].id \in held[w][job[w].event]
    BY <1>5, BusyId DEF WritesAreOrdered, Ack, Nack
  <2>2. \A v \in Workers, f \in Events :
          held'[v][f] = IF v = w /\ f = job[w].event THEN held[v][f] \ {job[w].id} ELSE held[v][f]
    <3> DEFINE i == job[w].id
               e == job[w].event
    <3>1. held' = [held EXCEPT ![w][e] = @ \ {i}]
      BY <1>5 DEF Ack, Nack, Finish
    <3>2. e \in Events /\ held \in [Workers -> [Events -> SUBSET Ids]]
      BY <2>1 DEF WritesAreOrdered, TypeOK
    <3> HIDE DEF i, e
    <3>3. \A v \in Workers, f \in Events :
            held'[v][f] = IF v = w /\ f = e THEN held[v][f] \ {i} ELSE held[v][f]
      BY <3>1, <3>2
    <3> QED
      BY <3>3 DEF i, e
  <2>3. queues["uploaded"] \subseteq queues'["uploaded"]
    BY <1>5, <2>1 DEF Ack, Nack, Enqueue, WritesAreOrdered, TypeOK, Events
  <2>4. CASE job[w].event # "uploaded" \/ job[w].id # id
    BY <2>2, <2>3, <2>4 DEF Pending, Events
  <2>5. CASE job[w].event = "uploaded" /\ job[w].id = id
    <3>1. ~Ack(w)
      BY <2>5 DEF Ack, UploadWork, WorkLeft, Active
    <3>2. Nack(w) /\ mode[w] # "cut"
      BY <1>5, <3>1 DEF UploadWork, NoCuts
    <3>3. id \in queues'["uploaded"]
      BY <2>5, <3>2 DEF Nack, Enqueue, WritesAreOrdered, TypeOK, Events
    <3> QED
      BY <3>3 DEF Pending
  <2> QED
    BY <2>4, <2>5
<1>6. ASSUME NEW w \in Workers, WorkerCrashes(w) PROVE Pending("uploaded", id)'
  <2>1. /\ queues'["uploaded"] = queues["uploaded"] \cup held[w]["uploaded"]
        /\ \A v \in Workers \ {w} : held'[v] = held[v]
    BY <1>6 DEF WorkerCrashes, Requeued, UploadWork, NoCuts, WritesAreOrdered, TypeOK, Events
  <2> QED
    BY <2>1 DEF Pending
<1> QED
  BY <1>1, <1>2, <1>3, <1>4, <1>5, <1>6
  DEF Next, vars, Upload, UploadPut, UploadCreate, UploadMarkFailed, UploadDies, Delete, DeleteGet,
      DeleteSoft, DeleteDies, Handler, HandleUpload, HandleDelete, GetOriginal, PutThumb100,
      PutThumb300, PutThumb, RecordResult, RecordFailure, DeleteObject, WorkerRestarts, Process,
      StopWorker

\* Every publication that succeeds reaches the queue.
LEMMA AcceptedStep ==
  ASSUME WritesAreOrdered, UploadWork, AcceptedWorkIsPending, "lost" \notin FaultKinds, [Next]_vars
  PROVE  AcceptedWorkIsPending'
<1> SUFFICES ASSUME NEW id \in Ids, uploads'[id] = "accepted", Active(id)',
                    rows'[id].status # "completed"
             PROVE  Pending("uploaded", id)'
  BY DEF AcceptedWorkIsPending
<1>1. CASE uploads[id] # "accepted"
  <2>1. PICK i \in Ids : UploadPublish(i) /\ uploads' # uploads
    BY ZenonT(30), <1>1
    DEF Next, vars, Upload, UploadPut, UploadCreate, UploadMarkFailed, UploadDies, Delete, DeleteGet,
        DeleteSoft, DeletePublish, DeleteDies, Broker, Deliver, ConnectionLost, Handler,
        HandleUpload, HandleDelete, GetOriginal, PutThumb100, PutThumb300, PutThumb, RecordResult,
        RecordFailure, DeleteObject, Ack, Nack, WorkerRestarts, Process, StopWorker, WorkerCrashes,
        WritesAreOrdered, TypeOK
  <2>2. i = id
    BY <1>1, <2>1 DEF UploadPublish, WritesAreOrdered, TypeOK
  <2>3. PublishCall("uploaded", id, "ok")
    BY <2>1, <2>2 DEF UploadPublish, WritesAreOrdered, TypeOK
  <2>4. id \in queues'["uploaded"]
    BY <2>3 DEF PublishCall, Spend, Enqueue, WritesAreOrdered, TypeOK, Events
  <2> QED
    BY <2>4 DEF Pending
<1>2. CASE uploads[id] = "accepted" /\ rows'[id].status # rows[id].status
  BY <1>2, RecordedStep
<1>3. CASE uploads[id] = "accepted" /\ rows'[id].status = rows[id].status
  <2>1. ~rows[id].deleted
    BY HiddenStays DEF Active
  <2> QED
    BY <1>3, <2>1, PendingStep DEF AcceptedWorkIsPending, Active
<1> QED
  BY <1>1, <1>2, <1>3

\* While no connection is lost, no redelivery, retry or crash takes the
\* thumbnails of a completed avatar away.
THEOREM CompletedStaysCompleted ==
  ASSUME "cut" \notin FaultKinds PROVE Spec => CompletedIsStable
<1>1. WritesAreOrdered /\ UploadWork /\ [Next]_vars
        => [\A id \in Ids :
              rows[id].status = "completed" => rows'[id].status = "completed"]_vars
  BY RecordedStep
<1> QED
  BY <1>1, UploadWorkInit, UploadWorkNext, OrderInvariant, PTL DEF Spec, CompletedIsStable

\* While no connection and no publication is lost, every upload answered
\* "processing" is completed, deleted, or in the hands of the broker.
THEOREM AcceptedWorkStaysPending ==
  ASSUME FaultKinds \cap {"cut", "lost"} = {} PROVE Spec => []AcceptedWorkIsPending
<1>1. Init => UploadWork /\ AcceptedWorkIsPending
  BY UploadWorkInit DEF Init, AcceptedWorkIsPending
<1>2. WritesAreOrdered /\ UploadWork /\ AcceptedWorkIsPending /\ [Next]_vars
        => UploadWork' /\ AcceptedWorkIsPending'
  BY UploadWorkNext, AcceptedStep
<1> QED
  BY <1>1, <1>2, OrderInvariant, PTL DEF Spec

-----------------------------------------------------------------------------
(* Without errors of PostgreSQL and the publisher and without SIGTERM, a   *)
(* delete event lives until the original is gone.                          *)

Patient ==
  /\ FaultKinds \cap {"repo", "broker", "lost", "stop"} = {}
  /\ \A w \in Workers : mode[w] # "stopping"

\* The broker will deliver the event again, or waits for an answer to it.
Owed(id) ==
  \/ id \in queues["delete_requested"]
  \/ \E w \in Workers : mode[w] # "cut" /\ id \in held[w]["delete_requested"]

DeletesAreOwed ==
  \A r \in Requests :
    deletes[r] = "no_content" => Owed(r.id) \/ "original" \notin stored[r.id]

\* The loop of the handler starts with the original.
RemovesOriginal ==
  \A w \in Workers :
    /\ job[w].pc \in UploadSteps => job[w].event = "uploaded"
    /\ job[w].pc = "delete" =>
         "original" \in job[w].todo \/ "original" \notin stored[job[w].id]
    /\ job[w].pc = "ack" /\ job[w].event = "delete_requested"
         => "original" \notin stored[job[w].id]

RemovalWork == Patient /\ DeletesAreOwed /\ RemovesOriginal /\ DeletedExist

\* Nobody puts the original of a hidden avatar back.
LEMMA OriginalStaysAway ==
  ASSUME WritesAreOrdered, [Next]_vars, NEW id \in Ids, rows[id].deleted,
         "original" \notin stored[id]
  PROVE  "original" \notin stored'[id]
<1>1. stored \in [Ids -> SUBSET Objects]
  BY DEF WritesAreOrdered, TypeOK
<1>2. ASSUME NEW i \in Ids, UploadPut(i) PROVE "original" \notin stored'[id]
  BY <1>1, <1>2 DEF UploadPut, PutObject, WritesAreOrdered, UploadIsOrdered, NoRow
<1>3. ASSUME NEW w \in Workers, PutThumb100(w) \/ PutThumb300(w) PROVE "original" \notin stored'[id]
  BY <1>1, <1>3 DEF PutThumb100, PutThumb300, PutThumb, PutObject
<1>4. ASSUME NEW w \in Workers, DeleteObject(w) PROVE "original" \notin stored'[id]
  <2>1. \/ stored' = stored
        \/ RemoveObject(job[w].id, NextKey(job[w].todo))
    BY <1>4 DEF DeleteObject
  <2> QED
    BY <1>1, <2>1 DEF RemoveObject
<1> QED
  BY <1>2, <1>3, <1>4
  DEF Next, vars, Upload, UploadCreate, UploadPublish, UploadMarkFailed, UploadDies, Delete,
      DeleteGet, DeleteSoft, DeletePublish, DeleteDies, Broker, Deliver, ConnectionLost, Handler,
      HandleUpload, HandleDelete, GetOriginal, RecordResult, RecordFailure, Ack, Nack,
      WorkerRestarts, Process, StopWorker, WorkerCrashes

LEMMA PatientStep ==
  ASSUME WritesAreOrdered, Patient, [Next]_vars PROVE Patient'
<1>1. mode \in [Workers -> {"up", "stopping", "cut"}]
  BY DEF WritesAreOrdered, TypeOK
<1>2. ASSUME NEW w \in Workers, Handler(w) \/ Process(w) \/ Broker(w)
      PROVE  \A v \in Workers : mode'[v] # "stopping"
  BY <1>1, <1>2
  DEF Patient, Broker, Deliver, ConnectionLost, Handler, HandleUpload, HandleDelete, GetOriginal,
      PutThumb100, PutThumb300, PutThumb, RecordResult, RecordFailure, DeleteObject, Ack, Nack,
      WorkerRestarts, Process, StopWorker, Spend, WorkerCrashes
<1> QED
  BY <1>2
  DEF Patient, Next, vars, Upload, UploadPut, UploadCreate, UploadPublish, UploadMarkFailed,
      UploadDies, Delete, DeleteGet, DeleteSoft, DeletePublish, DeleteDies

\* A handler of a delete event begins with the original among its keys, and
\* leaves its loop for an acknowledgement only when every key is removed.
LEMMA RemovesOriginalStep ==
  ASSUME WritesAreOrdered, RemovalWork, [Next]_vars PROVE RemovesOriginal'
<1> DEFINE Removes(w) ==
             /\ job[w].pc \in UploadSteps => job[w].event = "uploaded"
             /\ job[w].pc = "delete" =>
                  "original" \in job[w].todo \/ "original" \notin stored[job[w].id]
             /\ job[w].pc = "ack" /\ job[w].event = "delete_requested"
                  => "original" \notin stored[job[w].id]
<1> SUFFICES ASSUME NEW w \in Workers PROVE Removes(w)'
  BY DEF RemovesOriginal
<1>1. Removes(w)
  BY DEF RemovalWork, RemovesOriginal
<1>2. job[w] \in Job \cup {NoJob} /\ job \in [Workers -> Job \cup {NoJob}]
  BY DEF WritesAreOrdered, TypeOK
<1>3. job[w].event = "delete_requested" /\ job[w].pc # "idle"
        => job[w].id \in Ids /\ rows[job[w].id].deleted
  BY <1>2 DEF WritesAreOrdered, RemovalIsOrdered, Job, NoJob
<1>4. job[w].pc = "delete" => job[w].event = "delete_requested"
  BY DEF WritesAreOrdered, RemovalIsOrdered
<1>5. CASE job'[w] = job[w]
  BY <1>1, <1>3, <1>4, <1>5, OriginalStaysAway
<1>6. ASSUME NEW id \in Ids, HandleUpload(w, id) PROVE Removes(w)'
  BY <1>2, <1>6 DEF HandleUpload, Begin, UploadSteps
<1>7. ASSUME NEW id \in Ids, HandleDelete(w, id) PROVE Removes(w)'
  <2>1. rows[id].deleted /\ rows[id].status # "none"
    BY <1>7 DEF HandleDelete, WritesAreOrdered, RemovalIsOrdered, RemovalWork, DeletedExist
  <2>2. ~WorkerCall(w, "repo", "failed")
    BY DEF WorkerCall, ServerCall, Spend, RemovalWork, Patient
  <2>3. Begin(w, "delete_requested", id, "delete", KeysOf(rows[id]))
    BY <1>7, <2>1, <2>2 DEF HandleDelete
  <2>4. job'[w].pc = "delete" /\ "original" \in job'[w].todo
    BY <1>2, <2>3 DEF Begin, KeysOf
  <2> QED
    BY <2>4 DEF UploadSteps
<1>8. ASSUME Goto(w, "nack") PROVE Removes(w)'
  <2>1. job'[w].pc = "nack"
    <3>1. CASE job[w] = NoJob
      BY <1>2, <1>8, <3>1 DEF Goto, NoJob
    <3>2. CASE job[w] \in Job
      BY <1>2, <1>8, <3>2 DEF Goto, Job
    <3> QED
      BY <1>2, <3>1, <3>2
  <2> QED
    BY <2>1 DEF UploadSteps
<1>9. ASSUME job[w].pc \in UploadSteps, NEW pc \in UploadSteps \cup {"ack"}, Goto(w, pc)
      PROVE  Removes(w)'
  <2>1. job[w] \in Job
    BY <1>2, <1>9 DEF UploadSteps, NoJob
  <2>2. job'[w].pc = pc /\ job'[w].event = "uploaded"
    BY <1>1, <1>2, <1>9, <2>1 DEF Goto, Job
  <2> QED
    BY <2>2 DEF UploadSteps
<1>10. ASSUME DeleteObject(w) PROVE Removes(w)'
  <2>1. CASE Goto(w, "nack")
    BY <1>8, <2>1
  <2>2. CASE ~Goto(w, "nack")
    <3> DEFINE id  == job[w].id
               key == NextKey(job[w].todo)
               j   == [job[w] EXCEPT !.todo = @ \ {key},
                                     !.pc = IF job[w].todo = {key} THEN "ack" ELSE "delete"]
    <3>1. job[w] \in Job
      BY <1>2, <1>10 DEF DeleteObject, NoJob
    <3>2. RemoveObject(id, key)
      BY <1>10, <2>2 DEF DeleteObject, Applied
    <3>3. job' = [job EXCEPT ![w] = j]
      BY <1>2, <1>10, <2>2 DEF DeleteObject
    <3>4. job'[w].id = id /\ job'[w].pc \in {"ack", "delete"}
      BY <1>2, <3>1, <3>3 DEF Job
    <3>5. "original" \notin stored'[id]
      <4>1. id \in Ids /\ stored \in [Ids -> SUBSET Objects]
        BY <3>1 DEF Job, WritesAreOrdered, TypeOK
      <4>2. CASE "original" \in job[w].todo
        BY <3>2, <4>1, <4>2 DEF NextKey, RemoveObject
      <4>3. CASE "original" \notin job[w].todo
        BY <1>1, <1>10, <3>2, <4>1, <4>3 DEF DeleteObject, RemoveObject
      <4> QED
        BY <4>2, <4>3
    <3> QED
      BY <3>4, <3>5 DEF UploadSteps
  <2> QED
    BY <2>1, <2>2
<1>11. ASSUME job'[w] = NoJob PROVE Removes(w)'
  BY <1>11 DEF NoJob, UploadSteps
<1>12. ASSUME NEW v \in Workers \ {w}, Handler(v) \/ Process(v) PROVE job'[w] = job[w]
  BY <1>2, <1>12
  DEF Handler, HandleUpload, HandleDelete, Begin, GetOriginal, PutThumb100, PutThumb300, PutThumb,
      RecordResult, RecordFailure, DeleteObject, Goto, Ack, Nack, Finish, WorkerRestarts, Process,
      StopWorker, WorkerCrashes
<1>13. CASE Handler(w) \/ Process(w)
  <2>1. CASE \E id \in Ids : HandleUpload(w, id) \/ HandleDelete(w, id)
    BY <1>6, <1>7, <2>1
  <2>2. CASE GetOriginal(w) \/ PutThumb100(w) \/ PutThumb300(w)
    <3>1. job[w].pc \in UploadSteps /\ \E pc \in UploadSteps : Goto(w, pc)
      BY <2>2 DEF GetOriginal, PutThumb100, PutThumb300, PutThumb, UploadSteps
    <3> QED
      BY <1>9, <3>1
  <2>3. CASE RecordResult(w) \/ RecordFailure(w)
    <3>1. job[w].pc \in UploadSteps /\ (Goto(w, "ack") \/ Goto(w, "nack"))
      BY <2>3 DEF RecordResult, RecordFailure, UploadSteps
    <3> QED
      BY <1>8, <1>9, <3>1
  <2>4. CASE Ack(w) \/ Nack(w) \/ WorkerCrashes(w)
    BY <1>2, <1>11, <2>4 DEF Ack, Nack, Finish, WorkerCrashes
  <2>5. CASE WorkerRestarts(w) \/ StopWorker(w)
    BY <1>5, <2>5 DEF WorkerRestarts, StopWorker
  <2> QED
    BY <1>10, <1>13, <2>1, <2>2, <2>3, <2>4, <2>5 DEF Handler, Process
<1> QED
  BY <1>5, <1>12, <1>13
  DEF Next, vars, Upload, UploadPut, UploadCreate, UploadPublish, UploadMarkFailed, UploadDies,
      Delete, DeleteGet, DeleteSoft, DeletePublish, DeleteDies, Broker, Deliver, ConnectionLost

\* Every path of a delete event that does not remove the original leads back
\* to the queue.
LEMMA OwedStep ==
  ASSUME WritesAreOrdered, RemovalWork, [Next]_vars, NEW id \in Ids, Owed(id)
  PROVE  Owed(id)' \/ "original" \notin stored'[id]
<1>1. /\ queues \in [Events -> SUBSET Ids]
      /\ held \in [Workers -> [Events -> SUBSET Ids]]
      /\ mode \in [Workers -> {"up", "stopping", "cut"}]
      /\ job \in [Workers -> Job \cup {NoJob}]
      /\ "delete_requested" \in Events
  BY DEF WritesAreOrdered, TypeOK, Events
<1>2. ASSUME UNCHANGED <<queues, held, mode>> PROVE Owed(id)'
  BY <1>2 DEF Owed
<1>3. ASSUME NEW i \in Ids, UploadPublish(i) PROVE Owed(id)'
  BY <1>1, <1>3 DEF UploadPublish, PublishCall, Enqueue, Owed
<1>4. ASSUME NEW r \in Requests, DeletePublish(r) PROVE Owed(id)'
  BY <1>1, <1>4 DEF DeletePublish, PublishCall, Enqueue, Owed
<1>5. ASSUME NEW w \in Workers, NEW e \in Events, NEW i \in Ids, Deliver(w, e, i) PROVE Owed(id)'
  <2>1. /\ \A v \in Workers, f \in Events :
             held'[v][f] = IF v = w /\ f = e THEN {i} ELSE held[v][f]
        /\ \A f \in Events : queues'[f] = IF f = e THEN queues[e] \ {i} ELSE queues[f]
        /\ held[w][e] = {} /\ mode[w] = "up" /\ mode' = mode
    BY <1>1, <1>5 DEF Deliver
  <2> QED
    BY <1>1, <2>1 DEF Owed
<1>6. ASSUME NEW w \in Workers, ConnectionLost(w) PROVE Owed(id)'
  <2>1. /\ \A f \in Events : queues'[f] = queues[f] \cup held[w][f]
        /\ held' = held /\ \A v \in Workers \ {w} : mode'[v] = mode[v]
    BY <1>1, <1>6 DEF ConnectionLost, Requeued
  <2> QED
    BY <1>1, <2>1 DEF Owed
<1>7. ASSUME NEW w \in Workers, Ack(w) \/ Nack(w)
      PROVE  Owed(id)' \/ "original" \notin stored'[id]
  <2> DEFINE i == job[w].id
             e == job[w].event
  <2>1. /\ i \in Ids /\ e \in Events
        /\ mode' = mode /\ stored' = stored
        /\ held' = [held EXCEPT ![w][e] = @ \ {i}]
        /\ Nack(w) /\ mode[w] # "cut" => queues' = [queues EXCEPT ![e] = @ \cup {i}]
        /\ queues' = queues \/ queues' = [queues EXCEPT ![e] = @ \cup {i}]
        /\ Ack(w) /\ e = "delete_requested" => "original" \notin stored[i]
    BY <1>1, <1>7 DEF Ack, Nack, Finish, Enqueue, Job, NoJob, RemovalWork, RemovesOriginal
  <2> HIDE DEF i, e
  <2>2. /\ \A v \in Workers, f \in Events :
             held'[v][f] = IF v = w /\ f = e THEN held[v][f] \ {i} ELSE held[v][f]
        /\ \A f \in Events : queues[f] \subseteq queues'[f]
    BY <1>1, <2>1
  <2>3. CASE e # "delete_requested" \/ i # id
    BY <1>1, <2>1, <2>2, <2>3 DEF Owed
  <2>4. CASE e = "delete_requested" /\ i = id /\ Ack(w)
    BY <2>1, <2>4
  <2>5. CASE e = "delete_requested" /\ i = id /\ Nack(w) /\ mode[w] # "cut"
    BY <1>1, <2>1, <2>5 DEF Owed
  <2>6. CASE mode[w] = "cut"
    BY <1>1, <2>1, <2>2, <2>6 DEF Owed
  <2> QED
    BY <1>7, <2>3, <2>4, <2>5, <2>6
<1>8. ASSUME NEW w \in Workers, WorkerCrashes(w) PROVE Owed(id)'
  <2>1. /\ \A v \in Workers \ {w} : held'[v] = held[v] /\ mode'[v] = mode[v]
        /\ IF mode[w] = "cut" THEN queues' = queues
           ELSE \A f \in Events : queues'[f] = queues[f] \cup held[w][f]
    BY <1>1, <1>8 DEF WorkerCrashes, Requeued
  <2> QED
    BY <1>1, <2>1 DEF Owed
<1>9. ASSUME NEW w \in Workers, WorkerRestarts(w) PROVE Owed(id)'
  BY <1>1, <1>9 DEF WorkerRestarts, NothingHeld, Owed
<1>10. ASSUME NEW w \in Workers, StopWorker(w) PROVE FALSE
  BY <1>10 DEF StopWorker, Spend, RemovalWork, Patient
<1> QED
  BY <1>2, <1>3, <1>4, <1>5, <1>6, <1>7, <1>8, <1>9, <1>10
  DEF Next, vars, Upload, UploadPut, UploadCreate, UploadMarkFailed, UploadDies, Delete, DeleteGet,
      DeleteSoft, DeleteDies, Broker, Handler, HandleUpload, HandleDelete, GetOriginal,
      PutThumb100, PutThumb300, PutThumb, RecordResult, RecordFailure, DeleteObject, Process

\* A request is answered 204 by its publication.
LEMMA AnswerChanges ==
  ASSUME WritesAreOrdered, [Next]_vars, NEW r \in Requests,
         deletes[r] # "no_content", deletes'[r] = "no_content"
  PROVE  DeletePublish(r)
<1>1. PICK s \in Requests : Delete(s) /\ deletes' # deletes
  BY ZenonT(30)
  DEF Next, vars, Upload, UploadPut, UploadCreate, UploadPublish, UploadMarkFailed, UploadDies,
         Broker, Deliver, ConnectionLost, Handler, HandleUpload, HandleDelete, GetOriginal,
         PutThumb100, PutThumb300, PutThumb, RecordResult, RecordFailure, DeleteObject, Ack, Nack,
         WorkerRestarts, Process, StopWorker, WorkerCrashes
<1>2. s = r
  BY <1>1
  DEF Delete, DeleteGet, DeleteSoft, DeletePublish, DeleteDies, WritesAreOrdered, TypeOK
<1> QED
  BY <1>1, <1>2
  DEF Delete, DeleteGet, AfterCheck, DeleteSoft, DeleteDies, WritesAreOrdered, TypeOK

LEMMA DeletesAreOwedStep ==
  ASSUME WritesAreOrdered, RemovalWork, [Next]_vars PROVE DeletesAreOwed'
<1> SUFFICES ASSUME NEW r \in Requests, deletes'[r] = "no_content"
             PROVE  Owed(r.id)' \/ "original" \notin stored'[r.id]
  BY DEF DeletesAreOwed
<1>1. r.id \in Ids
  BY LifecycleAssumption
<1>2. CASE deletes[r] = "no_content"
  <2>1. rows[r.id].deleted
    BY <1>2 DEF WritesAreOrdered, RemovalIsOrdered
  <2>2. CASE Owed(r.id)
    BY <1>1, <2>2, OwedStep
  <2>3. CASE "original" \notin stored[r.id]
    BY <1>1, <2>1, <2>3, OriginalStaysAway
  <2> QED
    BY <1>2, <2>2, <2>3 DEF RemovalWork, DeletesAreOwed
<1>3. CASE deletes[r] # "no_content"
  <2>1. DeletePublish(r)
    BY <1>3, AnswerChanges
  <2>2. Enqueue("delete_requested", r.id)
    BY <2>1 DEF DeletePublish, PublishCall, Spend, RemovalWork, Patient
  <2>3. r.id \in queues'["delete_requested"]
    BY <2>2 DEF Enqueue, WritesAreOrdered, TypeOK, Events
  <2> QED
    BY <2>3 DEF Owed
<1> QED
  BY <1>2, <1>3

LEMMA RemovalWorkNext ==
  WritesAreOrdered /\ RemovalWork /\ [Next]_vars => RemovalWork'
<1> SUFFICES ASSUME WritesAreOrdered, RemovalWork, [Next]_vars PROVE RemovalWork'
  OBVIOUS
<1> QED
  BY PatientStep, DeletesAreOwedStep, RemovesOriginalStep, DeletedStep DEF RemovalWork, WritesAreOrdered

\* When nothing but crashes, lost connections and errors of the bucket
\* happen, a DELETE answered 204 has its original removed once no worker
\* owes anything for its event.
THEOREM ConsumedDeletesRemoveOriginals ==
  ASSUME FaultKinds \cap {"repo", "broker", "lost", "stop"} = {}
  PROVE  Spec => []ConsumedDeleteRemovesOriginal
<1>1. Init => RemovalWork
  BY DEF Init, RemovalWork, Patient, DeletesAreOwed, RemovesOriginal, DeletedExist, NoRow, NoJob,
         UploadSteps
<1>2. RemovalWork => ConsumedDeleteRemovesOriginal
  BY DEF RemovalWork, DeletesAreOwed, Owed, ConsumedDeleteRemovesOriginal, Pending
<1> QED
  BY <1>1, <1>2, RemovalWorkNext, OrderInvariant, PTL DEF Spec

-----------------------------------------------------------------------------
(* The safety half of the liveness properties: what they promise to happen *)
(* for good, need only happen.  That it happens is what fairness is for.   *)

Accepted(id) == uploads[id] = "accepted"
Settled(id)  == rows[id].status = "completed" \/ rows[id].deleted
Hidden(id)   == rows[id].deleted
NoContent(r) == deletes[r] = "no_content"
Removed(id)  == "original" \notin stored[id]

\* UploadsSettle: while no connection is lost, an upload that was completed
\* or deleted once is so for good.
THEOREM SettlingIsFinal ==
  ASSUME "cut" \notin FaultKinds, NEW id \in Ids
  PROVE  Spec /\ (Accepted(id) ~> Settled(id)) => (Accepted(id) ~> []Settled(id))
<1>1. WritesAreOrdered /\ UploadWork /\ [Next]_vars /\ Settled(id) => Settled(id)'
  BY RecordedStep, HiddenStays DEF Settled
<1> QED
  BY <1>1, UploadWorkInit, UploadWorkNext, OrderInvariant, PTL DEF Spec

\* DeletesReachStorage: under all faults, an original that is gone after its
\* DELETE was answered 204 never comes back.
THEOREM RemovalIsFinal ==
  ASSUME NEW r \in Requests
  PROVE  Spec /\ (NoContent(r) ~> Removed(r.id)) => (NoContent(r) ~> []Removed(r.id))
<1>1. r.id \in Ids
  BY LifecycleAssumption
<1>2. WritesAreOrdered /\ NoContent(r) => Hidden(r.id)
  BY DEF WritesAreOrdered, RemovalIsOrdered, NoContent, Hidden
<1>3. WritesAreOrdered /\ [Next]_vars /\ Hidden(r.id) => Hidden(r.id)'
  BY <1>1, HiddenStays DEF Hidden
<1>4. WritesAreOrdered /\ [Next]_vars /\ Hidden(r.id) /\ Removed(r.id) => Removed(r.id)'
  BY <1>1, OriginalStaysAway DEF Hidden, Removed
<1> QED
  BY <1>2, <1>3, <1>4, OrderInvariant, PTL DEF Spec

-----------------------------------------------------------------------------
(* Nothing outlives a delete unless an upload handler and a delete handler *)
(* of one avatar meet: the invariant of calm behaviours, where nothing     *)
(* fails but connections, and where the two kinds of handlers stay apart.  *)

Calm == FaultKinds \subseteq {"cut"} /\ \A w \in Workers : mode[w] # "stopping"

AtUpload(id) == \E w \in Workers : job[w].pc \in UploadSteps /\ job[w].id = id

AtDelete(id) ==
  \E w \in Workers :
    job[w].pc \in {"delete", "ack"} /\ job[w].event = "delete_requested" /\ job[w].id = id

\* No avatar has handlers of both kinds at work.
Apart == \A id \in Ids : ~(AtUpload(id) /\ AtDelete(id))

\* A thumbnail that no row names is about to be named.
ThumbsNamed ==
  \A id \in Ids : AtUpload(id) \/ stored[id] \cap Thumbs \subseteq rows[id].thumbs

\* A handler fails only where no handler can succeed.
Rendered ==
  /\ \A w \in Workers :
       /\ job[w].pc \in UploadSteps => "original" \in stored[job[w].id]
       /\ job[w].pc \in {"put100", "put300", "record"} => job[w].id \notin Undecodable
       /\ job[w].pc = "record_failed" => job[w].id \in Undecodable
  /\ \A id \in Undecodable : stored[id] \cap Thumbs = {}

\* What a delete handler has left to remove is all there is.
RemovesAll ==
  \A w \in Workers :
    /\ job[w].pc \in UploadSteps \cup {"nack"} => job[w].event = "uploaded"
    /\ job[w].pc = "delete" => stored[job[w].id] \subseteq job[w].todo
    /\ job[w].pc = "ack" /\ job[w].event = "delete_requested" => stored[job[w].id] = {}

Gone(id) == stored[id] = {} /\ ~AtUpload(id)

OwedOrGone ==
  \A r \in Requests :
    deletes[r] = "no_content" => Pending("delete_requested", r.id) \/ Gone(r.id)

GoneWork == Calm /\ DeletedExist /\ ThumbsNamed /\ Rendered /\ RemovesAll /\ OwedOrGone

-----------------------------------------------------------------------------
(* Who may change what.                                                    *)

LEMMA JobChanges ==
  ASSUME WritesAreOrdered, [Next]_vars, NEW w \in Workers, job'[w] # job[w]
  PROVE  \/ \E id \in Ids : HandleUpload(w, id) \/ HandleDelete(w, id)
         \/ GetOriginal(w) \/ PutThumb100(w) \/ PutThumb300(w) \/ RecordResult(w)
         \/ RecordFailure(w) \/ DeleteObject(w) \/ Ack(w) \/ Nack(w) \/ WorkerCrashes(w)
<1>1. job \in [Workers -> Job \cup {NoJob}]
  BY DEF WritesAreOrdered, TypeOK
<1>2. PICK v \in Workers : Handler(v) \/ Process(v)
  BY DEF Next, vars, Upload, UploadPut, UploadCreate, UploadPublish, UploadMarkFailed, UploadDies,
         Delete, DeleteGet, DeleteSoft, DeletePublish, DeleteDies, Broker, Deliver, ConnectionLost
<1>3. v = w
  BY <1>1, <1>2
  DEF Handler, HandleUpload, HandleDelete, Begin, GetOriginal, PutThumb100, PutThumb300, PutThumb,
      RecordResult, RecordFailure, DeleteObject, Goto, Ack, Nack, Finish, WorkerRestarts, Process,
      StopWorker, WorkerCrashes
<1> QED
  BY <1>2, <1>3 DEF Handler, Process, WorkerRestarts, StopWorker

LEMMA StoredChanges ==
  ASSUME WritesAreOrdered, [Next]_vars, NEW id \in Ids, stored'[id] # stored[id]
  PROVE  \/ UploadPut(id)
         \/ \E w \in Workers :
              job[w].id = id /\ (PutThumb100(w) \/ PutThumb300(w) \/ DeleteObject(w))
<1>1. stored \in [Ids -> SUBSET Objects]
  BY DEF WritesAreOrdered, TypeOK
<1>2. ASSUME NEW i \in Ids, UploadPut(i) PROVE i = id
  BY <1>1, <1>2 DEF UploadPut, PutObject
<1>3. ASSUME NEW w \in Workers, PutThumb100(w) \/ PutThumb300(w) \/ DeleteObject(w)
      PROVE  job[w].id = id
  BY <1>1, <1>3 DEF PutThumb100, PutThumb300, PutThumb, DeleteObject, PutObject, RemoveObject
<1> QED
  BY <1>2, <1>3
  DEF Next, vars, Upload, UploadCreate, UploadPublish, UploadMarkFailed, UploadDies, Delete,
      DeleteGet, DeleteSoft, DeletePublish, DeleteDies, Broker, Deliver, ConnectionLost, Handler,
      HandleUpload, HandleDelete, GetOriginal, RecordResult, RecordFailure, Ack, Nack,
      WorkerRestarts, Process, StopWorker, WorkerCrashes

LEMMA RowChanges ==
  ASSUME WritesAreOrdered, [Next]_vars, NEW id \in Ids, rows'[id] # rows[id]
  PROVE  \/ UploadCreate(id) \/ UploadMarkFailed(id)
         \/ \E r \in Requests : r.id = id /\ DeleteSoft(r)
         \/ \E w \in Workers : job[w].id = id /\ (RecordResult(w) \/ RecordFailure(w))
<1>1. rows \in [Ids -> Row]
  BY DEF WritesAreOrdered, TypeOK
<1>2. ASSUME NEW i \in Ids, UploadCreate(i) \/ UploadMarkFailed(i) PROVE i = id
  BY <1>1, <1>2 DEF UploadCreate, UploadMarkFailed, CreateRow, MarkPublishFailed
<1>3. ASSUME NEW w \in Workers, RecordResult(w) \/ RecordFailure(w) PROVE job[w].id = id
  BY <1>1, <1>3 DEF RecordResult, RecordFailure, UpdateProcessingResult
<1>4. ASSUME NEW r \in Requests, DeleteSoft(r) PROVE r.id = id
  BY <1>1, <1>4 DEF DeleteSoft
<1> QED
  BY <1>2, <1>3, <1>4
  DEF Next, vars, Upload, UploadPut, UploadPublish, UploadDies, Delete, DeleteGet, DeletePublish,
      DeleteDies, Broker, Deliver, ConnectionLost, Handler, HandleUpload, HandleDelete,
      GetOriginal, PutThumb100, PutThumb300, PutThumb, DeleteObject, Ack, Nack, WorkerRestarts,
      Process, StopWorker, WorkerCrashes

\* Where Goto and Begin leave the worker.
LEMMA GotoIs ==
  ASSUME WritesAreOrdered, NEW w \in Workers, job[w] \in Job, NEW pc, Goto(w, pc)
  PROVE  /\ job'[w].pc = pc /\ job'[w].id = job[w].id /\ job'[w].event = job[w].event
         /\ job'[w].todo = job[w].todo
         /\ \A v \in Workers \ {w} : job'[v] = job[v]
BY DEF WritesAreOrdered, TypeOK, Goto, Job

LEMMA BusyIs ==
  ASSUME WritesAreOrdered, NEW w \in Workers, job[w].pc # "idle"
  PROVE  job[w] \in Job /\ job[w].id \in Ids /\ job[w].event \in Events
BY DEF WritesAreOrdered, TypeOK, NoJob, Job

-----------------------------------------------------------------------------
(* Calm calls succeed, so each handler has one way to go.                  *)

LEMMA CalmCalls ==
  ASSUME Calm, NEW w \in Workers, NEW o, NEW dep \in {"repo", "storage"}, WorkerCall(w, dep, o)
  PROVE  o = "ok"
BY DEF Calm, WorkerCall, ServerCall, Spend

LEMMA CalmPut ==
  ASSUME Calm, NEW w \in Workers, PutThumb100(w) \/ PutThumb300(w)
  PROVE  /\ UNCHANGED rows
         /\ \/ job[w].pc = "put100" /\ PutObject(job[w].id, "thumb100") /\ Goto(w, "put300")
            \/ job[w].pc = "put300" /\ PutObject(job[w].id, "thumb300") /\ Goto(w, "record")
<1>1. ASSUME NEW pc, NEW thumb, NEW next, PutThumb(w, pc, thumb, next)
      PROVE  UNCHANGED rows /\ job[w].pc = pc /\ PutObject(job[w].id, thumb) /\ Goto(w, next)
  BY <1>1, CalmCalls DEF PutThumb, Applied
<1> QED
  BY <1>1 DEF PutThumb100, PutThumb300

LEMMA CalmRecord ==
  ASSUME Calm, NEW w \in Workers, RecordResult(w) \/ RecordFailure(w)
  PROVE  /\ UNCHANGED stored
         /\ \/ /\ job[w].pc = "record" /\ Goto(w, "ack")
               /\ UpdateProcessingResult(job[w].id, Thumbs)
            \/ /\ job[w].pc = "record_failed" /\ Goto(w, "nack")
               /\ UpdateProcessingResult(job[w].id, {})
BY CalmCalls DEF RecordResult, RecordFailure, Applied

LEMMA CalmRemove ==
  ASSUME WritesAreOrdered, Calm, NEW w \in Workers, DeleteObject(w)
  PROVE  /\ UNCHANGED rows /\ job[w].pc = "delete" /\ job[w].event = "delete_requested"
         /\ RemoveObject(job[w].id, NextKey(job[w].todo))
         /\ job'[w].id = job[w].id /\ job'[w].event = job[w].event
         /\ job'[w].todo = job[w].todo \ {NextKey(job[w].todo)}
         /\ job'[w].pc = IF job[w].todo = {NextKey(job[w].todo)} THEN "ack" ELSE "delete"
<1> DEFINE key == NextKey(job[w].todo)
           j == [job[w] EXCEPT !.todo = @ \ {key},
                               !.pc = IF job[w].todo = {key} THEN "ack" ELSE "delete"]
<1>1. UNCHANGED rows /\ job[w].pc = "delete" /\ RemoveObject(job[w].id, key)
  BY CalmCalls DEF DeleteObject, Applied
<1>2. job[w] \in Job /\ job[w].event = "delete_requested"
  BY <1>1, BusyIs DEF WritesAreOrdered, RemovalIsOrdered
<1>3. job' = [job EXCEPT ![w].todo = @ \ {key},
                         ![w].pc = IF job[w].todo = {key} THEN "ack" ELSE "delete"]
  BY CalmCalls DEF DeleteObject
<1>4. job'[w] = j
  BY <1>3 DEF WritesAreOrdered, TypeOK
<1> QED
  BY <1>1, <1>2, <1>4 DEF Job

LEMMA CalmHandle ==
  ASSUME WritesAreOrdered, DeletedExist, Calm, NEW w \in Workers, NEW id \in Ids,
         HandleUpload(w, id) \/ HandleDelete(w, id)
  PROVE  /\ UNCHANGED <<rows, stored>> /\ job[w].pc = "idle" /\ job'[w].id = id
         /\ \/ job'[w].event = "uploaded" /\ job'[w].pc = "get_original" /\ Active(id)
            \/ job'[w].event = "uploaded" /\ job'[w].pc = "ack"
            \/ /\ job'[w].event = "delete_requested" /\ job'[w].pc = "delete"
               /\ job'[w].todo = KeysOf(rows[id]) /\ rows[id].deleted
<1>1. job \in [Workers -> Job \cup {NoJob}]
  BY DEF WritesAreOrdered, TypeOK
<1>2. CASE HandleUpload(w, id)
  <2>1. ~WorkerCall(w, "repo", "failed")
    BY CalmCalls
  <2> QED
    BY <1>1, <1>2, <2>1 DEF HandleUpload, Begin
<1>3. CASE HandleDelete(w, id)
  <2>1. ~WorkerCall(w, "repo", "failed")
    BY CalmCalls
  <2>2. rows[id].deleted /\ rows[id].status # "none"
    BY <1>3 DEF HandleDelete, WritesAreOrdered, RemovalIsOrdered, DeletedExist
  <2> QED
    BY <1>1, <1>3, <2>1, <2>2 DEF HandleDelete, Begin
<1> QED
  BY <1>2, <1>3

-----------------------------------------------------------------------------
(* Every calm step preserves the invariant while handlers stay apart.      *)

LEMMA UploadStarts ==
  ASSUME WritesAreOrdered, GoneWork, [Next]_vars, NEW id \in Ids, ~AtUpload(id), AtUpload(id)'
  PROVE  Active(id)
<1>1. PICK w \in Workers : job'[w].pc \in UploadSteps /\ job'[w].id = id
  BY DEF AtUpload
<1>2. job'[w] # job[w]
  BY <1>1 DEF AtUpload
<1>3. ASSUME NEW pc, Goto(w, pc), job[w].pc \in UploadSteps PROVE FALSE
  <2>1. job[w] \in Job
    BY <1>3, BusyIs DEF UploadSteps
  <2> QED
    BY <1>1, <1>3, <2>1, GotoIs DEF AtUpload
<1>4. ASSUME Ack(w) \/ Nack(w) \/ WorkerCrashes(w) PROVE FALSE
  BY <1>1, <1>4 DEF Ack, Nack, Finish, WorkerCrashes, NoJob, UploadSteps, WritesAreOrdered, TypeOK
<1>5. ~(GetOriginal(w) \/ PutThumb100(w) \/ PutThumb300(w) \/ RecordResult(w) \/ RecordFailure(w))
  BY <1>3 DEF GetOriginal, PutThumb100, PutThumb300, PutThumb, RecordResult, RecordFailure, UploadSteps
<1>6. ~DeleteObject(w)
  BY <1>1, CalmRemove DEF GoneWork, UploadSteps
<1>7. PICK i \in Ids : HandleUpload(w, i) \/ HandleDelete(w, i)
  BY <1>2, <1>4, <1>5, <1>6, JobChanges
<1> QED
  BY <1>1, <1>7, CalmHandle DEF GoneWork, UploadSteps

LEMMA UploadEnds ==
  ASSUME WritesAreOrdered, GoneWork, [Next]_vars, NEW id \in Ids, AtUpload(id), ~AtUpload(id)'
  PROVE  \E w \in Workers : job[w].id = id /\ (RecordResult(w) \/ RecordFailure(w))
<1>1. PICK w \in Workers : job[w].pc \in UploadSteps /\ job[w].id = id
  BY DEF AtUpload
<1>2. job'[w] # job[w] /\ job[w] \in Job
  BY <1>1, BusyIs DEF AtUpload, UploadSteps
<1>3. ASSUME NEW pc \in UploadSteps, Goto(w, pc) PROVE FALSE
  BY <1>1, <1>2, <1>3, GotoIs DEF AtUpload
<1>4. ~(GetOriginal(w) \/ PutThumb100(w) \/ PutThumb300(w))
  BY <1>3, CalmPut DEF GoneWork, GetOriginal, UploadSteps
<1>5. ~WorkerCrashes(w)
  BY DEF GoneWork, Calm, WorkerCrashes, Spend
<1>6. ~DeleteObject(w) /\ ~Ack(w) /\ ~Nack(w) /\ job[w].pc # "idle"
  BY <1>1 DEF DeleteObject, Ack, Nack, UploadSteps
<1> QED
  BY <1>1, <1>2, <1>4, <1>5, <1>6, JobChanges DEF HandleUpload, HandleDelete

LEMMA ThumbsNamedStep ==
  ASSUME WritesAreOrdered, GoneWork, [Next]_vars PROVE ThumbsNamed'
<1> SUFFICES ASSUME NEW id \in Ids, ~AtUpload(id)'
             PROVE  stored'[id] \cap Thumbs \subseteq rows'[id].thumbs
  BY DEF ThumbsNamed
<1>1. rows \in [Ids -> Row] /\ stored \in [Ids -> SUBSET Objects]
  BY DEF WritesAreOrdered, TypeOK
<1>2. CASE AtUpload(id)
  <2>1. PICK w \in Workers : job[w].id = id /\ (RecordResult(w) \/ RecordFailure(w))
    BY <1>2, UploadEnds
  <2>2. \/ UNCHANGED stored /\ UpdateProcessingResult(id, Thumbs)
        \/ UNCHANGED stored /\ UpdateProcessingResult(id, {}) /\ id \in Undecodable
    BY <2>1, CalmRecord DEF GoneWork, Rendered
  <2>3. \A keys : UpdateProcessingResult(id, keys) => rows'[id].thumbs = keys
    BY <1>1 DEF UpdateProcessingResult, Processed, Row
  <2> QED
    BY <2>2, <2>3 DEF GoneWork, Rendered
<1>3. CASE ~AtUpload(id)
  <2>1. stored[id] \cap Thumbs \subseteq rows[id].thumbs
    BY <1>3 DEF GoneWork, ThumbsNamed
  <2>2. stored'[id] \cap Thumbs \subseteq stored[id]
    <3>1. CASE UploadPut(id)
      BY <1>1, <3>1 DEF UploadPut, PutObject, Thumbs
    <3>2. ASSUME NEW w \in Workers, job[w].id = id PROVE ~PutThumb100(w) /\ ~PutThumb300(w)
      BY <1>3, <3>2 DEF PutThumb100, PutThumb300, PutThumb, AtUpload, UploadSteps
    <3>3. ASSUME NEW w \in Workers, job[w].id = id, DeleteObject(w) PROVE stored'[id] \subseteq stored[id]
      BY <1>1, <3>3, CalmRemove DEF RemoveObject, GoneWork
    <3> QED
      BY <3>1, <3>2, <3>3, StoredChanges
  <2>3. rows'[id].thumbs = rows[id].thumbs \/ rows[id] = NoRow
    <3>1. CASE UploadCreate(id)
      BY <3>1 DEF UploadCreate, WritesAreOrdered, UploadIsOrdered
    <3>2. CASE UploadMarkFailed(id)
      BY <1>1, <3>2 DEF UploadMarkFailed, MarkPublishFailed, Row
    <3>3. ASSUME NEW r \in Requests, DeleteSoft(r) PROVE rows'[id].thumbs = rows[id].thumbs
      BY <1>1, <3>3 DEF DeleteSoft, Row
    <3>4. ASSUME NEW w \in Workers, job[w].id = id PROVE ~RecordResult(w) /\ ~RecordFailure(w)
      BY <1>3, <3>4 DEF RecordResult, RecordFailure, AtUpload, UploadSteps
    <3> QED
      BY <3>1, <3>2, <3>3, <3>4, RowChanges
  <2> QED
    BY <2>1, <2>2, <2>3 DEF NoRow
<1> QED
  BY <1>2, <1>3

\* A delete handler meets nobody who stores.
LEMMA NothingComesBack ==
  ASSUME WritesAreOrdered, GoneWork, [Next]_vars, NEW id \in Ids, rows[id].deleted, ~AtUpload(id)
  PROVE  stored'[id] \subseteq stored[id]
<1>1. ~UploadPut(id)
  BY DEF UploadPut, WritesAreOrdered, UploadIsOrdered, NoRow
<1>2. ASSUME NEW w \in Workers, job[w].id = id PROVE ~PutThumb100(w) /\ ~PutThumb300(w)
  BY <1>2 DEF PutThumb100, PutThumb300, PutThumb, AtUpload, UploadSteps
<1>3. ASSUME NEW w \in Workers, job[w].id = id, DeleteObject(w) PROVE stored'[id] \subseteq stored[id]
  BY <1>3, CalmRemove DEF RemoveObject, GoneWork, WritesAreOrdered, TypeOK
<1> QED
  BY <1>1, <1>2, <1>3, StoredChanges

LEMMA OriginalStays ==
  ASSUME WritesAreOrdered, GoneWork, Apart, [Next]_vars, NEW id \in Ids, AtUpload(id),
         "original" \in stored[id]
  PROVE  "original" \in stored'[id]
<1>1. stored \in [Ids -> SUBSET Objects]
  BY DEF WritesAreOrdered, TypeOK
<1>2. CASE UploadPut(id)
  BY <1>1, <1>2 DEF UploadPut, PutObject
<1>3. ASSUME NEW w \in Workers, job[w].id = id, PutThumb100(w) \/ PutThumb300(w)
      PROVE  "original" \in stored'[id]
  BY <1>1, <1>3, CalmPut DEF PutObject, GoneWork
<1>4. ASSUME NEW w \in Workers, job[w].id = id PROVE ~DeleteObject(w)
  BY <1>4, CalmRemove DEF GoneWork, Apart, AtDelete
<1> QED
  BY <1>2, <1>3, <1>4, StoredChanges

LEMMA RenderedStep ==
  ASSUME WritesAreOrdered, GoneWork, Apart, [Next]_vars PROVE Rendered'
<1> DEFINE Fine(j) ==
             /\ j.pc \in {"put100", "put300", "record"} => j.id \notin Undecodable
             /\ j.pc = "record_failed" => j.id \in Undecodable
<1>1. stored \in [Ids -> SUBSET Objects]
  BY DEF WritesAreOrdered, TypeOK
<1>2. \A w \in Workers : Fine(job[w])
  BY DEF GoneWork, Rendered
<1>3. ASSUME NEW w \in Workers
      PROVE  Fine(job'[w]) /\ (job'[w].pc \in UploadSteps => "original" \in stored'[job'[w].id])
  <2>1. CASE job'[w] = job[w]
    <3>1. job[w].pc \in UploadSteps =>
            job[w].id \in Ids /\ AtUpload(job[w].id) /\ "original" \in stored[job[w].id]
      BY BusyIs DEF AtUpload, UploadSteps, GoneWork, Rendered
    <3> QED
      BY <1>2, <2>1, <3>1, OriginalStays
  <2>2. ASSUME NEW i \in Ids, HandleUpload(w, i) \/ HandleDelete(w, i)
        PROVE  Fine(job'[w]) /\ (job'[w].pc \in UploadSteps => "original" \in stored'[job'[w].id])
    BY <2>2, CalmHandle DEF GoneWork, UploadSteps, WritesAreOrdered, ActiveObjectsPresent
  <2>3. CASE GetOriginal(w) \/ PutThumb100(w) \/ PutThumb300(w)
    <3>1. job[w].pc \in UploadSteps /\ job[w] \in Job /\ job[w].id \in Ids
      BY <2>3, BusyIs DEF GetOriginal, PutThumb100, PutThumb300, PutThumb, UploadSteps
    <3>2. "original" \in stored[job[w].id] /\ "original" \in stored'[job[w].id]
      BY <3>1, OriginalStays DEF AtUpload, GoneWork, Rendered
    <3>3. ASSUME GetOriginal(w)
          PROVE  Goto(w, IF job[w].id \notin Undecodable THEN "put100" ELSE "record_failed")
      BY <3>2, <3>3, CalmCalls DEF GetOriginal, GoneWork
    <3>4. \/ Goto(w, "put100") /\ job[w].id \notin Undecodable
          \/ Goto(w, "record_failed") /\ job[w].id \in Undecodable
          \/ job[w].pc = "put100" /\ Goto(w, "put300")
          \/ job[w].pc = "put300" /\ Goto(w, "record")
      BY <2>3, <3>3, CalmPut DEF GoneWork
    <3>5. Fine(job'[w])
      BY <1>2, <3>1, <3>4, GotoIs
    <3>6. job'[w].id = job[w].id
      BY <3>1, <3>4, GotoIs
    <3> QED
      BY <3>2, <3>5, <3>6
  <2>4. CASE RecordResult(w) \/ RecordFailure(w)
    <3>1. job[w] \in Job
      BY <2>4, BusyIs DEF RecordResult, RecordFailure
    <3>2. job'[w].pc \in {"ack", "nack"}
      BY <2>4, <3>1, CalmRecord, GotoIs DEF GoneWork
    <3> QED
      BY <3>2 DEF UploadSteps
  <2>5. CASE DeleteObject(w)
    BY <2>5, CalmRemove DEF GoneWork, UploadSteps
  <2>6. CASE Ack(w) \/ Nack(w) \/ WorkerCrashes(w)
    <3>1. job'[w] = NoJob
      BY <2>6 DEF Ack, Nack, Finish, WorkerCrashes, WritesAreOrdered, TypeOK
    <3> QED
      BY <3>1 DEF NoJob, UploadSteps
  <2> QED
    BY <2>1, <2>2, <2>3, <2>4, <2>5, <2>6, JobChanges
<1>4. ASSUME NEW id \in Undecodable PROVE stored'[id] \cap Thumbs = {}
  <2>1. id \in Ids /\ stored[id] \cap Thumbs = {}
    BY LifecycleAssumption DEF GoneWork, Rendered
  <2>2. CASE UploadPut(id)
    BY <1>1, <2>1, <2>2 DEF UploadPut, PutObject, Thumbs
  <2>3. ASSUME NEW w \in Workers, job[w].id = id PROVE ~PutThumb100(w) /\ ~PutThumb300(w)
    BY <1>2, <2>3 DEF PutThumb100, PutThumb300, PutThumb
  <2>4. ASSUME NEW w \in Workers, job[w].id = id, DeleteObject(w) PROVE stored'[id] \cap Thumbs = {}
    BY <1>1, <2>1, <2>4, CalmRemove DEF RemoveObject, GoneWork
  <2> QED
    BY <2>1, <2>2, <2>3, <2>4, StoredChanges
<1> QED
  BY <1>3, <1>4 DEF Rendered

LEMMA RemovesAllStep ==
  ASSUME WritesAreOrdered, GoneWork, Apart, Apart', [Next]_vars PROVE RemovesAll'
<1> DEFINE Removes(w) ==
             /\ job[w].pc \in UploadSteps \cup {"nack"} => job[w].event = "uploaded"
             /\ job[w].pc = "delete" => stored[job[w].id] \subseteq job[w].todo
             /\ job[w].pc = "ack" /\ job[w].event = "delete_requested" => stored[job[w].id] = {}
<1> SUFFICES ASSUME NEW w \in Workers PROVE Removes(w)'
  BY DEF RemovesAll
<1>1. Removes(w)
  BY DEF GoneWork, RemovesAll
<1>2. CASE job'[w] = job[w]
  <2>1. CASE job[w].pc \in {"delete", "ack"} /\ job[w].event = "delete_requested"
    <3>1. job[w].id \in Ids /\ rows[job[w].id].deleted
      BY <2>1, BusyIs DEF WritesAreOrdered, RemovalIsOrdered
    <3>2. ~AtUpload(job[w].id)
      BY <2>1, <3>1 DEF Apart, AtDelete
    <3>3. stored'[job[w].id] \subseteq stored[job[w].id]
      BY <3>1, <3>2, NothingComesBack
    <3> QED
      BY <1>1, <1>2, <2>1, <3>3 DEF UploadSteps
  <2>2. CASE ~(job[w].pc \in {"delete", "ack"} /\ job[w].event = "delete_requested")
    <3>1. job[w].pc # "delete"
      BY <2>2 DEF WritesAreOrdered, RemovalIsOrdered
    <3> QED
      BY <1>1, <1>2, <2>2, <3>1
  <2> QED
    BY <2>1, <2>2
<1>3. ASSUME NEW id \in Ids, HandleUpload(w, id) \/ HandleDelete(w, id) PROVE Removes(w)'
  <2>1. /\ stored' = stored /\ job[w].pc = "idle" /\ job'[w].id = id
        /\ \/ job'[w].event = "uploaded" /\ job'[w].pc \in {"get_original", "ack"}
           \/ /\ job'[w].event = "delete_requested" /\ job'[w].pc = "delete"
              /\ job'[w].todo = KeysOf(rows[id]) /\ rows[id].deleted
    BY <1>3, CalmHandle DEF GoneWork
  <2>2. CASE job'[w].event = "uploaded"
    BY <2>1, <2>2 DEF UploadSteps
  <2>3. CASE job'[w].event = "delete_requested"
    <3>1. ~AtUpload(id)'
      BY <2>1, <2>3 DEF Apart, AtDelete
    <3>2. ~AtUpload(id)
      <4>1. ASSUME NEW v \in Workers, RecordResult(v) \/ RecordFailure(v) PROVE FALSE
        <5>1. rows' # rows \/ job'[v] # job[v]
          BY <4>1, CalmRecord, BusyIs, GotoIs DEF GoneWork, RecordResult, RecordFailure
        <5>2. v # w
          BY <2>1, <4>1 DEF RecordResult, RecordFailure
        <5> QED
          BY <1>3, <5>1, <5>2
          DEF HandleUpload, HandleDelete, Begin, WritesAreOrdered, TypeOK
      <4> QED
        BY <3>1, <4>1, UploadEnds
    <3>3. stored[id] \subseteq KeysOf(rows[id])
      BY <3>2 DEF GoneWork, ThumbsNamed, KeysOf, Thumbs, Objects, WritesAreOrdered, TypeOK
    <3> QED
      BY <2>1, <2>3, <3>3 DEF UploadSteps
  <2> QED
    BY <2>1, <2>2, <2>3
<1>4. ASSUME NEW pc, Goto(w, pc), job[w].pc \in UploadSteps, pc \in UploadSteps \cup {"ack", "nack"}
      PROVE  Removes(w)'
  <2>1. job'[w].pc = pc /\ job'[w].event = "uploaded"
    BY <1>1, <1>4, BusyIs, GotoIs DEF UploadSteps
  <2> QED
    BY <1>4, <2>1 DEF UploadSteps
<1>5. CASE GetOriginal(w) \/ PutThumb100(w) \/ PutThumb300(w) \/ RecordResult(w) \/ RecordFailure(w)
  <2>1. job[w].pc \in UploadSteps
    BY <1>5 DEF GetOriginal, PutThumb100, PutThumb300, PutThumb, RecordResult, RecordFailure, UploadSteps
  <2>2. \E pc \in UploadSteps \cup {"ack", "nack"} : Goto(w, pc)
    BY <1>5, CalmPut, CalmRecord DEF GoneWork, GetOriginal, UploadSteps
  <2> QED
    BY <1>4, <2>1, <2>2
<1>6. CASE DeleteObject(w)
  <2> DEFINE id  == job[w].id
             key == NextKey(job[w].todo)
  <2>1. /\ job[w].pc = "delete" /\ RemoveObject(id, key)
        /\ job'[w].id = id /\ job'[w].todo = job[w].todo \ {key}
        /\ job'[w].pc = IF job[w].todo = {key} THEN "ack" ELSE "delete"
    BY <1>6, CalmRemove DEF GoneWork
  <2>2. id \in Ids
    BY <2>1, BusyIs
  <2>3. stored'[id] = stored[id] \ {key}
    BY <2>1, <2>2 DEF RemoveObject, WritesAreOrdered, TypeOK
  <2>4. stored[id] \subseteq job[w].todo
    BY <1>1, <2>1
  <2> HIDE DEF id, key
  <2> QED
    BY <2>1, <2>3, <2>4 DEF UploadSteps
<1>7. CASE Ack(w) \/ Nack(w) \/ WorkerCrashes(w)
  <2>1. job'[w] = NoJob
    BY <1>7 DEF Ack, Nack, Finish, WorkerCrashes, WritesAreOrdered, TypeOK
  <2> QED
    BY <2>1 DEF NoJob, UploadSteps
<1> QED
  BY <1>2, <1>3, <1>5, <1>6, <1>7, JobChanges

LEMMA GoneStays ==
  ASSUME WritesAreOrdered, GoneWork, [Next]_vars, NEW id \in Ids, rows[id].deleted, Gone(id)
  PROVE  Gone(id)'
BY NothingComesBack, UploadStarts DEF Gone, Active

\* A delete event is dropped only by the acknowledgement of a handler that
\* removed everything.
LEMMA PendingOrGoneStep ==
  ASSUME WritesAreOrdered, GoneWork, Apart, [Next]_vars, NEW id \in Ids, rows[id].deleted,
         Pending("delete_requested", id)
  PROVE  Pending("delete_requested", id)' \/ Gone(id)'
<1>1. /\ queues \in [Events -> SUBSET Ids]
      /\ held \in [Workers -> [Events -> SUBSET Ids]]
      /\ "delete_requested" \in Events
  BY DEF WritesAreOrdered, TypeOK, Events
<1>2. ASSUME UNCHANGED <<queues, held>> PROVE Pending("delete_requested", id)'
  BY <1>2 DEF Pending
<1>3. ASSUME NEW e \in Events, NEW i \in Ids, NEW o, PublishCall(e, i, o), held' = held
      PROVE  Pending("delete_requested", id)'
  BY <1>1, <1>3 DEF PublishCall, Enqueue, Pending
<1>4. ASSUME NEW w \in Workers, Broker(w) PROVE Pending("delete_requested", id)'
  <2>1. ASSUME NEW e \in Events, NEW i \in Ids, Deliver(w, e, i)
        PROVE  Pending("delete_requested", id)'
    <3>1. /\ \A v \in Workers, f \in Events :
               held'[v][f] = IF v = w /\ f = e THEN {i} ELSE held[v][f]
          /\ \A f \in Events : queues'[f] = IF f = e THEN queues[e] \ {i} ELSE queues[f]
          /\ held[w][e] = {}
      BY <1>1, <2>1 DEF Deliver
    <3> QED
      BY <1>1, <3>1 DEF Pending
  <2>2. ASSUME ConnectionLost(w) PROVE Pending("delete_requested", id)'
    BY <1>1, <2>2 DEF ConnectionLost, Requeued, Pending
  <2> QED
    BY <1>4, <2>1, <2>2 DEF Broker
<1>5. ASSUME NEW w \in Workers, Ack(w) \/ Nack(w)
      PROVE  Pending("delete_requested", id)' \/ Gone(id)'
  <2> DEFINE i == job[w].id
             e == job[w].event
  <2>1. i \in Ids /\ e \in Events /\ held' = [held EXCEPT ![w][e] = @ \ {i}]
    BY <1>5, BusyIs DEF Ack, Nack, Finish
  <2>2. \A f \in Events : queues[f] \subseteq queues'[f]
    BY <1>1, <1>5, <2>1 DEF Ack, Nack, Enqueue
  <2>3. CASE e = "delete_requested" /\ i = id
    <3>1. job[w].pc = "ack" /\ stored[id] = {}
      BY <1>5, <2>3 DEF Ack, Nack, GoneWork, RemovesAll
    <3>2. ~AtUpload(id)
      BY <2>3, <3>1 DEF Apart, AtDelete
    <3> QED
      BY <3>1, <3>2, GoneStays DEF Gone
  <2>4. CASE ~(e = "delete_requested" /\ i = id)
    <3> HIDE DEF i, e
    <3>1. \A v \in Workers : id \in held[v]["delete_requested"] => id \in held'[v]["delete_requested"]
      BY <1>1, <2>1, <2>4
    <3> QED
      BY <1>1, <2>2, <3>1 DEF Pending
  <2> QED
    BY <2>3, <2>4
<1>6. ASSUME NEW w \in Workers PROVE ~WorkerCrashes(w)
  BY DEF GoneWork, Calm, WorkerCrashes, Spend
<1>7. ASSUME NEW i \in Ids, Upload(i) PROVE Pending("delete_requested", id)'
  BY <1>2, <1>3, <1>7
  DEF Upload, UploadPut, UploadCreate, UploadPublish, UploadMarkFailed, UploadDies, Events
<1>8. ASSUME NEW r \in Requests, Delete(r) PROVE Pending("delete_requested", id)'
  BY <1>2, <1>3, <1>8, LifecycleAssumption
  DEF Delete, DeleteGet, DeleteSoft, DeletePublish, DeleteDies, Events
<1> QED
  BY <1>2, <1>4, <1>5, <1>6, <1>7, <1>8
  DEF Next, vars, Handler, HandleUpload, HandleDelete, GetOriginal, PutThumb100, PutThumb300,
      PutThumb, RecordResult, RecordFailure, DeleteObject, Process, StopWorker, WorkerRestarts

LEMMA OwedOrGoneStep ==
  ASSUME WritesAreOrdered, GoneWork, Apart, [Next]_vars PROVE OwedOrGone'
<1> SUFFICES ASSUME NEW r \in Requests, deletes'[r] = "no_content"
             PROVE  Pending("delete_requested", r.id)' \/ Gone(r.id)'
  BY DEF OwedOrGone
<1>1. r.id \in Ids
  BY LifecycleAssumption
<1>2. CASE deletes[r] = "no_content"
  <2>1. rows[r.id].deleted
    BY <1>2 DEF WritesAreOrdered, RemovalIsOrdered
  <2> QED
    BY <1>1, <1>2, <2>1, PendingOrGoneStep, GoneStays DEF GoneWork, OwedOrGone
<1>3. CASE deletes[r] # "no_content"
  <2>1. Enqueue("delete_requested", r.id)
    BY <1>3, AnswerChanges DEF DeletePublish, PublishCall, Spend, GoneWork, Calm
  <2>2. r.id \in queues'["delete_requested"]
    BY <2>1 DEF Enqueue, WritesAreOrdered, TypeOK, Events
  <2> QED
    BY <2>2 DEF Pending
<1> QED
  BY <1>2, <1>3

LEMMA CalmStep == WritesAreOrdered /\ Calm /\ [Next]_vars => Calm'
<1> SUFFICES ASSUME WritesAreOrdered, Calm, [Next]_vars PROVE Calm'
  OBVIOUS
<1>1. mode \in [Workers -> {"up", "stopping", "cut"}]
  BY DEF WritesAreOrdered, TypeOK
<1>2. ASSUME NEW w \in Workers, Handler(w) \/ Process(w) \/ Broker(w)
      PROVE  \A v \in Workers : mode'[v] # "stopping"
  BY <1>1, <1>2
  DEF Calm, Broker, Deliver, ConnectionLost, Handler, HandleUpload, HandleDelete, GetOriginal,
      PutThumb100, PutThumb300, PutThumb, RecordResult, RecordFailure, DeleteObject, Ack, Nack,
      WorkerRestarts, Process, StopWorker, Spend, WorkerCrashes
<1> QED
  BY <1>2
  DEF Calm, Next, vars, Upload, UploadPut, UploadCreate, UploadPublish, UploadMarkFailed,
      UploadDies, Delete, DeleteGet, DeleteSoft, DeletePublish, DeleteDies

LEMMA GoneWorkStep ==
  WritesAreOrdered /\ GoneWork /\ Apart /\ Apart' /\ [Next]_vars => GoneWork'
<1> SUFFICES ASSUME WritesAreOrdered, GoneWork, Apart, Apart', [Next]_vars PROVE GoneWork'
  OBVIOUS
<1>1. Calm' /\ DeletedExist'
  BY CalmStep, DeletedStep DEF GoneWork, WritesAreOrdered
<1> QED
  BY <1>1, ThumbsNamedStep, RenderedStep, RemovesAllStep, OwedOrGoneStep DEF GoneWork

LEMMA GoneWorkInit == Init /\ FaultKinds \subseteq {"cut"} => GoneWork
BY LifecycleAssumption
   DEF Init, GoneWork, Calm, DeletedExist, ThumbsNamed, Rendered, RemovesAll, OwedOrGone, NoRow,
       NoJob, UploadSteps

\* The only way in which, without failures other than lost connections, an
\* object outlives its avatar is a meeting of an upload handler and a delete
\* handler: for any number of workers, whatever is redelivered.
THEOREM NothingOutlivesDeletesApart ==
  ASSUME FaultKinds \subseteq {"cut"} PROVE Spec /\ []Apart => []NothingOutlivesDelete
<1>1. Init => GoneWork
  BY GoneWorkInit
<1>2. GoneWork => NothingOutlivesDelete
  BY DEF GoneWork, OwedOrGone, Gone, NothingOutlivesDelete, Events
<1> QED
  BY <1>1, <1>2, GoneWorkStep, OrderInvariant, PTL DEF Spec

\* One worker, with its single Runner, has one handler at a time.
THEOREM NothingOutlivesDeletes ==
  ASSUME FaultKinds \subseteq {"cut"}, \A v, w \in Workers : v = w
  PROVE  Spec => []NothingOutlivesDelete
<1>1. Init => GoneWork
  BY GoneWorkInit
<1>2. WritesAreOrdered /\ GoneWork /\ [Next]_vars => Apart /\ Apart'
  <2> SUFFICES ASSUME WritesAreOrdered PROVE Apart /\ Apart'
    OBVIOUS
  <2>1. \A v \in Workers : job[v].pc \in UploadSteps => job[v].pc \notin {"delete", "ack"}
    BY DEF UploadSteps
  <2>2. \A v \in Workers : job'[v].pc \in UploadSteps => job'[v].pc \notin {"delete", "ack"}
    BY DEF UploadSteps
  <2> QED
    BY <2>1, <2>2 DEF Apart, AtUpload, AtDelete
<1>3. GoneWork => NothingOutlivesDelete
  BY DEF GoneWork, OwedOrGone, Gone, NothingOutlivesDelete, Events
<1> QED
  BY <1>1, <1>2, <1>3, GoneWorkStep, OrderInvariant, PTL DEF Spec

-----------------------------------------------------------------------------
(* The lifecycle implements MessageQueue: a handler works on a message its *)
(* worker holds, so only what the broker counts on is ever answered.       *)

\* What a worker holds leaves it by an answer or a crash.
LEMMA HeldChanges ==
  ASSUME WritesAreOrdered, [Next]_vars, NEW w \in Workers, NEW e \in Events,
         NEW id \in held[w][e], id \notin held'[w][e]
  PROVE  Ack(w) \/ Nack(w) \/ WorkerCrashes(w)
<1>1. held \in [Workers -> [Events -> SUBSET Ids]]
  BY DEF WritesAreOrdered, TypeOK
<1>2. PICK v \in Workers : Broker(v) \/ Handler(v) \/ Process(v)
  BY DEF Next, vars, Upload, UploadPut, UploadCreate, UploadPublish, UploadMarkFailed, UploadDies,
         Delete, DeleteGet, DeleteSoft, DeletePublish, DeleteDies
<1>3. ~Broker(v)
  <2>1. ASSUME NEW f \in Events, NEW i \in Ids, Deliver(v, f, i) PROVE FALSE
    BY <1>1, <2>1 DEF Deliver
  <2> QED
    BY <2>1 DEF Broker, ConnectionLost
<1>4. Ack(v) \/ Nack(v) \/ WorkerCrashes(v)
  BY <1>2, <1>3
  DEF Handler, HandleUpload, HandleDelete, GetOriginal, PutThumb100, PutThumb300, PutThumb,
      RecordResult, RecordFailure, DeleteObject, WorkerRestarts, Process, StopWorker
<1>5. v = w
  BY <1>1, <1>4 DEF Ack, Nack, Finish, WorkerCrashes
<1> QED
  BY <1>4, <1>5

LEMMA JobsHoldStep == WritesAreOrdered /\ JobsHold /\ [Next]_vars => JobsHold'
<1> DEFINE Holds(w) ==
             /\ job[w].pc # "idle" => job[w].id \in held[w][job[w].event]
             /\ job[w].pc \in UploadSteps => job[w].event = "uploaded"
<1> SUFFICES ASSUME WritesAreOrdered, JobsHold, [Next]_vars, NEW w \in Workers PROVE Holds(w)'
  BY DEF JobsHold
<1>1. Holds(w)
  BY DEF JobsHold
<1>2. job \in [Workers -> Job \cup {NoJob}]
  BY DEF WritesAreOrdered, TypeOK
<1>3. CASE job'[w] = NoJob
  BY <1>3 DEF NoJob, UploadSteps
<1>4. ASSUME job'[w] # NoJob PROVE ~Ack(w) /\ ~Nack(w) /\ ~WorkerCrashes(w)
  BY <1>2, <1>4 DEF Ack, Nack, Finish, WorkerCrashes
<1>5. CASE job'[w] # NoJob /\ job'[w] = job[w]
  <2>1. job[w].pc # "idle" => job[w].id \in held'[w][job[w].event]
    BY <1>1, <1>4, <1>5, BusyIs, HeldChanges
  <2> QED
    BY <1>1, <1>5, <2>1
<1>6. CASE job'[w] # NoJob /\ job'[w] # job[w]
  <2>1. \/ \E id \in Ids : HandleUpload(w, id) \/ HandleDelete(w, id)
        \/ GetOriginal(w) \/ PutThumb100(w) \/ PutThumb300(w) \/ RecordResult(w)
        \/ RecordFailure(w) \/ DeleteObject(w)
    BY <1>4, <1>6, JobChanges
  <2>2. ASSUME NEW id \in Ids, HandleUpload(w, id) PROVE Holds(w)'
    BY <1>2, <2>2 DEF HandleUpload, Begin
  <2>3. ASSUME NEW id \in Ids, HandleDelete(w, id) PROVE Holds(w)'
    BY <1>2, <2>3 DEF HandleDelete, Begin, UploadSteps
  <2>4. CASE DeleteObject(w)
    <3> DEFINE key == NextKey(job[w].todo)
               j == [job[w] EXCEPT !.todo = @ \ {key},
                                   !.pc = IF job[w].todo = {key} THEN "ack" ELSE "delete"]
    <3>1. job[w].pc = "delete" /\ held' = held
      BY <2>4 DEF DeleteObject
    <3>2. job[w] \in Job
      BY <3>1, BusyIs
    <3>3. Goto(w, "nack") \/ job' = [job EXCEPT ![w] = j]
      BY <1>2, <2>4 DEF DeleteObject
    <3>4. /\ job'[w].id = job[w].id /\ job'[w].event = job[w].event
          /\ job'[w].pc \in {"nack", "ack", "delete"}
      BY ZenonT(30), <1>2, <3>2, <3>3, GotoIs DEF Job
    <3> QED
      BY <1>1, <3>1, <3>4 DEF UploadSteps
  <2>5. CASE GetOriginal(w) \/ PutThumb100(w) \/ PutThumb300(w) \/ RecordResult(w) \/ RecordFailure(w)
    <3>1. held' = held /\ job[w].pc \in UploadSteps /\ \E pc : Goto(w, pc)
      BY <2>5
      DEF GetOriginal, PutThumb100, PutThumb300, PutThumb, RecordResult, RecordFailure, UploadSteps
    <3>2. job'[w].id = job[w].id /\ job'[w].event = job[w].event /\ job[w].event = "uploaded"
      BY <1>1, <3>1, BusyIs, GotoIs DEF UploadSteps
    <3> QED
      BY <1>1, <3>1, <3>2 DEF UploadSteps
  <2> QED
    BY <2>1, <2>2, <2>3, <2>4, <2>5
<1> QED
  BY <1>3, <1>5, <1>6

\* A step that leaves every message where the broker has it.
LEMMA SameMessages ==
  ASSUME UNCHANGED <<queues, held, mode>>, Sent' = Sent PROVE UNCHANGED Queue!queueVars
BY DEF Queue!queueVars, Ready, Unacked

\* What the answers to requests say was published.
LEMMA SentIs ==
  /\ \A id \in Ids : <<"uploaded", id>> \in Sent <=> uploads[id] = "accepted"
  /\ \A id \in Ids : <<"delete_requested", id>> \in Sent
                      <=> \E r \in Requests : r.id = id /\ deletes[r] = "no_content"
BY LifecycleAssumption DEF Sent

LEMMA UploadQueueStep ==
  ASSUME WritesAreOrdered, NEW id \in Ids, Upload(id) PROVE [Queue!Next]_Queue!queueVars
<1>1. uploads \in [Ids -> UploadState] /\ queues \in [Events -> SUBSET Ids]
  BY DEF WritesAreOrdered, TypeOK
<1>2. UNCHANGED <<deletes, held, mode>>
  BY DEF Upload, UploadPut, UploadCreate, UploadPublish, UploadMarkFailed, UploadDies
<1>3. ASSUME UNCHANGED queues, \A i \in Ids : uploads'[i] = "accepted" <=> uploads[i] = "accepted"
      PROVE  UNCHANGED Queue!queueVars
  <2>1. Sent' = Sent
    BY <1>2, <1>3 DEF Sent
  <2> QED
    BY <1>2, <1>3, <2>1, SameMessages
<1>4. CASE UploadPut(id) \/ UploadCreate(id) \/ UploadMarkFailed(id) \/ UploadDies(id)
  BY <1>1, <1>3, <1>4 DEF UploadPut, UploadCreate, UploadMarkFailed, UploadDies
<1>5. ASSUME NEW o \in Outcome, uploads[id] = "publish", PublishCall("uploaded", id, o),
             uploads' = [uploads EXCEPT ![id] = IF o = "ok" THEN "accepted" ELSE "mark"]
      PROVE  [Queue!Next]_Queue!queueVars
  <2> DEFINE m == <<"uploaded", id>>
  <2>1. CASE o # "ok"
    BY <1>1, <1>3, <1>5, <2>1 DEF PublishCall
  <2>2. CASE o = "ok"
    <3>1. m \in Messages /\ m \notin Sent
      BY <1>5, SentIs DEF Messages, Events
    <3>2. Sent' = Sent \cup {m}
      BY <1>1, <1>2, <1>5, <2>2 DEF Sent
    <3>3. Ready' \in {Ready, Ready \cup {m}}
      BY <1>1, <1>5, <2>2 DEF PublishCall, Enqueue, Ready, Messages, Events
    <3>4. Queue!Publish(m)
      BY <1>2, <3>1, <3>2, <3>3 DEF Queue!Publish, Unacked
    <3> QED
      BY <3>1, <3>4 DEF Queue!Next
  <2> QED
    BY <2>1, <2>2
<1>6. CASE UploadPublish(id)
  BY <1>5, <1>6 DEF UploadPublish
<1> QED
  BY <1>4, <1>6 DEF Upload

\* At most one DELETE gets to publish: nobody sent its event before.
LEMMA DeleteQueueStep ==
  ASSUME WritesAreOrdered, NEW r \in Requests, Delete(r) PROVE [Queue!Next]_Queue!queueVars
<1>1. deletes \in [Requests -> DeleteState] /\ queues \in [Events -> SUBSET Ids] /\ r.id \in Ids
  BY LifecycleAssumption DEF WritesAreOrdered, TypeOK
<1>2. UNCHANGED <<uploads, held, mode>>
  BY DEF Delete, DeleteGet, DeleteSoft, DeletePublish, DeleteDies
<1>3. CASE DeleteGet(r) \/ DeleteSoft(r) \/ DeleteDies(r)
  <2>1. \A s \in Requests : deletes'[s] = "no_content" <=> deletes[s] = "no_content"
    BY <1>1, <1>3 DEF DeleteGet, AfterCheck, DeleteSoft, DeleteDies
  <2>2. Sent' = Sent
    BY <1>2, <2>1 DEF Sent
  <2> QED
    BY <1>2, <1>3, <2>2, SameMessages DEF DeleteGet, DeleteSoft, DeleteDies
<1>4. CASE DeletePublish(r)
  <2> DEFINE m == <<"delete_requested", r.id>>
  <2>1. deletes[r] = "publish" /\ deletes' = [deletes EXCEPT ![r] = "no_content"]
        /\ \E o \in Outcome : PublishCall("delete_requested", r.id, o)
    BY <1>4 DEF DeletePublish
  <2>2. m \in Messages /\ m \notin Sent
    BY <1>1, <2>1, SentIs DEF Messages, Events, WritesAreOrdered, DeleteSucceedsOnce
  <2>3. Sent' = Sent \cup {m}
    BY <1>1, <1>2, <2>1 DEF Sent
  <2>4. Ready' \in {Ready, Ready \cup {m}}
    BY <1>1, <2>1 DEF PublishCall, Enqueue, Ready, Messages, Events
  <2>5. Queue!Publish(m)
    BY <1>2, <2>2, <2>3, <2>4 DEF Queue!Publish, Unacked
  <2> QED
    BY <2>2, <2>5 DEF Queue!Next
<1> QED
  BY <1>3, <1>4 DEF Delete

\* Messages are requeued together, by a connection or a process that ends.
LEMMA RecoverQueueStep ==
  ASSUME WritesAreOrdered, NEW w \in Workers, UNCHANGED <<uploads, deletes>>,
         Ready' = Ready \cup Unacked(w), Unacked(w)' = {},
         \A v \in Workers \ {w} : Unacked(v)' = Unacked(v)
  PROVE  [Queue!Next]_Queue!queueVars
<1>1. Sent' = Sent
  BY DEF Sent
<1>2. CASE Unacked(w) = {}
  BY <1>1, <1>2 DEF Queue!queueVars
<1>3. CASE Unacked(w) # {}
  <2>1. Queue!Recover(w)
    BY <1>1, <1>3 DEF Queue!Recover
  <2> QED
    BY <2>1 DEF Queue!Next
<1> QED
  BY <1>2, <1>3

LEMMA BrokerQueueStep ==
  ASSUME WritesAreOrdered, NEW w \in Workers, Broker(w) PROVE [Queue!Next]_Queue!queueVars
<1>1. /\ held \in [Workers -> [Events -> SUBSET Ids]]
      /\ queues \in [Events -> SUBSET Ids]
      /\ mode \in [Workers -> {"up", "stopping", "cut"}]
  BY DEF WritesAreOrdered, TypeOK
<1>2. ASSUME NEW e \in Events, NEW id \in Ids, Deliver(w, e, id) PROVE Queue!Deliver(w, <<e, id>>)
  <2> DEFINE m == <<e, id>>
  <2>1. /\ mode[w] = "up" /\ held[w][e] = {} /\ id \in queues[e]
        /\ queues' = [queues EXCEPT ![e] = @ \ {id}]
        /\ held' = [held EXCEPT ![w][e] = {id}]
        /\ UNCHANGED <<uploads, deletes, mode>>
    BY <1>2 DEF Deliver
  <2>2. Sent' = Sent
    BY <2>1 DEF Sent
  <2>3. m \in Messages /\ m \in Ready /\ Ready' = Ready \ {m}
    BY <1>1, <2>1 DEF Ready, Messages
  <2>4. \A n \in Unacked(w) : n \in Messages /\ n[1] # e
    BY <2>1 DEF Unacked, Messages
  <2>5. Unacked(w)' = Unacked(w) \cup {m}
    BY <1>1, <2>1 DEF Unacked, Messages
  <2>6. ASSUME NEW v \in Workers \ {w} PROVE Unacked(v)' = Unacked(v)
    <3>1. held'[v] = held[v] /\ mode'[v] = mode[v]
      BY <1>1, <2>1
    <3> QED
      BY <3>1 DEF Unacked
  <2> QED
    BY <2>2, <2>3, <2>4, <2>5, <2>6 DEF Queue!Deliver
<1>3. ASSUME ConnectionLost(w) PROVE [Queue!Next]_Queue!queueVars
  <2>1. /\ mode[w] = "up" /\ queues' = Requeued(w) /\ mode' = [mode EXCEPT ![w] = "cut"]
        /\ UNCHANGED <<uploads, deletes, held>>
    BY <1>3 DEF ConnectionLost
  <2>2. Ready' = Ready \cup Unacked(w)
    BY <1>1, <2>1 DEF Requeued, Ready, Unacked, Messages
  <2>3. Unacked(w)' = {} /\ \A v \in Workers \ {w} : Unacked(v)' = Unacked(v)
    BY <1>1, <2>1 DEF Unacked
  <2> QED
    BY <2>1, <2>2, <2>3, RecoverQueueStep
<1>4. \A e \in Events, id \in Ids : <<e, id>> \in Messages
  BY DEF Messages
<1> QED
  BY <1>2, <1>3, <1>4 DEF Broker, Queue!Next

\* An answer on a live connection is about one message the broker waits for;
\* one on a lost connection reaches nobody.
LEMMA AnswerQueueStep ==
  ASSUME WritesAreOrdered, JobsHold, NEW w \in Workers, Ack(w) \/ Nack(w)
  PROVE  [Queue!Next]_Queue!queueVars
<1> DEFINE e == job[w].event
           id == job[w].id
           m == <<e, id>>
<1>1. /\ held \in [Workers -> [Events -> SUBSET Ids]]
      /\ queues \in [Events -> SUBSET Ids]
  BY DEF WritesAreOrdered, TypeOK
<1>2. job[w].pc # "idle" /\ UNCHANGED <<uploads, deletes, mode>>
      /\ held' = [held EXCEPT ![w][e] = @ \ {id}]
  BY DEF Ack, Nack, Finish
<1>3. e \in Events /\ id \in Ids /\ id \in held[w][e]
  BY <1>2, BusyIs DEF JobsHold
<1>4. Ack(w) => queues' = queues
  BY DEF Ack
<1>5. Nack(w) => queues' = IF mode[w] = "cut" THEN queues ELSE [queues EXCEPT ![e] = @ \cup {id}]
  BY DEF Nack, Enqueue
<1> HIDE DEF e, id
<1>6. Sent' = Sent
  BY <1>2 DEF Sent
<1>7. ASSUME NEW v \in Workers \ {w} PROVE Unacked(v)' = Unacked(v)
  <2>1. held'[v] = held[v] /\ mode'[v] = mode[v]
    BY <1>1, <1>2
  <2> QED
    BY <2>1 DEF Unacked
<1>8. CASE mode[w] = "cut"
  <2>1. Unacked(w)' = {} /\ Unacked(w) = {} /\ Ready' = Ready
    BY <1>2, <1>4, <1>5, <1>8 DEF Unacked, Ready
  <2> QED
    BY <1>6, <1>7, <2>1 DEF Queue!queueVars
<1>9. CASE mode[w] # "cut"
  <2>1. m \in Messages /\ m \in Unacked(w)
    BY <1>3, <1>9 DEF Unacked, Messages
  <2>2. Unacked(w)' = Unacked(w) \ {m}
    BY <1>1, <1>2, <1>3, <1>9 DEF Unacked, Messages
  <2>3. CASE Ack(w)
    <3>1. Ready' = Ready
      BY <1>4, <2>3 DEF Ready
    <3>2. Queue!Ack(w, m)
      BY <1>6, <1>7, <2>1, <2>2, <3>1 DEF Queue!Ack
    <3> QED
      BY <2>1, <3>2 DEF Queue!Next
  <2>4. CASE Nack(w)
    <3>1. Ready' = Ready \cup {m}
      BY <1>1, <1>3, <1>5, <1>9, <2>4 DEF Ready, Messages
    <3>2. Queue!Nack(w, m)
      BY <1>6, <1>7, <2>1, <2>2, <3>1 DEF Queue!Nack
    <3> QED
      BY <2>1, <3>2 DEF Queue!Next
  <2> QED
    BY <2>3, <2>4
<1> QED
  BY <1>8, <1>9

LEMMA WorkerQueueStep ==
  ASSUME WritesAreOrdered, JobsHold, NEW w \in Workers, Handler(w) \/ Process(w)
  PROVE  [Queue!Next]_Queue!queueVars
<1>1. /\ held \in [Workers -> [Events -> SUBSET Ids]]
      /\ queues \in [Events -> SUBSET Ids]
      /\ mode \in [Workers -> {"up", "stopping", "cut"}]
  BY DEF WritesAreOrdered, TypeOK
<1>2. UNCHANGED <<uploads, deletes>>
  BY DEF Handler, HandleUpload, HandleDelete, GetOriginal, PutThumb100, PutThumb300, PutThumb,
         RecordResult, RecordFailure, DeleteObject, Ack, Nack, WorkerRestarts, Process, StopWorker,
         WorkerCrashes
<1>3. Sent' = Sent
  BY <1>2 DEF Sent
<1>4. CASE WorkerCrashes(w)
  <2>1. /\ queues' = IF mode[w] = "cut" THEN queues ELSE Requeued(w)
        /\ held' = [held EXCEPT ![w] = [e \in Events |-> {}]]
        /\ mode' = [mode EXCEPT ![w] = "up"]
    BY <1>4 DEF WorkerCrashes
  <2>2. Ready' = Ready \cup Unacked(w)
    BY <1>1, <2>1 DEF Requeued, Ready, Unacked, Messages
  <2>3. Unacked(w)' = {}
    BY <1>1, <2>1 DEF Unacked, Messages
  <2>4. ASSUME NEW v \in Workers \ {w} PROVE Unacked(v)' = Unacked(v)
    <3>1. held'[v] = held[v] /\ mode'[v] = mode[v]
      BY <1>1, <2>1
    <3> QED
      BY <3>1 DEF Unacked
  <2> QED
    BY <1>2, <2>2, <2>3, <2>4, RecoverQueueStep
<1>5. CASE StopWorker(w) \/ WorkerRestarts(w)
  <2>1. /\ UNCHANGED <<queues, held>>
        /\ \A v \in Workers \ {w} : mode'[v] = mode[v]
        /\ \/ mode[w] # "cut" /\ mode'[w] # "cut"
           \/ NothingHeld(w)
    BY <1>1, <1>5 DEF StopWorker, WorkerRestarts
  <2>2. Ready' = Ready
    BY <2>1 DEF Ready
  <2>3. Unacked(w)' = Unacked(w)
    BY <2>1 DEF Unacked, NothingHeld, Messages
  <2>4. \A v \in Workers \ {w} : Unacked(v)' = Unacked(v)
    BY <2>1 DEF Unacked
  <2> QED
    BY <1>3, <2>2, <2>3, <2>4 DEF Queue!queueVars
<1>6. CASE UNCHANGED <<queues, held, mode>>
  BY <1>3, <1>6, SameMessages
<1> QED
  BY <1>4, <1>5, <1>6, AnswerQueueStep
  DEF Handler, HandleUpload, HandleDelete, GetOriginal, PutThumb100, PutThumb300, PutThumb,
      RecordResult, RecordFailure, DeleteObject, Process

LEMMA QueueStep == WritesAreOrdered /\ JobsHold /\ [Next]_vars => [Queue!Next]_Queue!queueVars
<1> SUFFICES ASSUME WritesAreOrdered, JobsHold, [Next]_vars PROVE [Queue!Next]_Queue!queueVars
  OBVIOUS
<1>1. CASE UNCHANGED vars
  <2>1. UNCHANGED <<queues, held, mode>> /\ Sent' = Sent
    BY <1>1 DEF vars, Sent
  <2> QED
    BY <2>1, SameMessages
<1> QED
  BY <1>1, UploadQueueStep, DeleteQueueStep, BrokerQueueStep, WorkerQueueStep DEF Next

LEMMA QueueInit == Init => Queue!Init
BY DEF Init, Queue!Init, Sent, Ready, Unacked, Messages

\* Under all faults, and for any uploads, requests and workers, the broker
\* that the lifecycle uses is an at-least-once queue.
THEOREM LifecycleImplementsQueue == Spec => ImplementsQueue
<1>1. Init => JobsHold
  BY DEF Init, JobsHold, NoJob, UploadSteps
<1> QED
  BY <1>1, QueueInit, QueueStep, JobsHoldStep, OrderInvariant, PTL
  DEF Spec, ImplementsQueue, Queue!Spec

-----------------------------------------------------------------------------
(* What the lifecycle has from its broker.                                 *)

InBroker == INSTANCE MessageQueue_proofs WITH
  QueueOf <- [m \in Messages |-> m[1]],
  sent    <- Sent,
  ready   <- Ready,
  unacked <- [w \in Workers |-> Unacked(w)]

LEMMA SameBroker == Queue!Spec <=> InBroker!Spec
BY PTL
   DEF Queue!Spec, Queue!Init, Queue!Next, Queue!queueVars, Queue!Publish, Queue!Deliver,
       Queue!Ack, Queue!Nack, Queue!Recover,
       InBroker!Spec, InBroker!Init, InBroker!Next, InBroker!queueVars, InBroker!Publish,
       InBroker!Deliver, InBroker!Ack, InBroker!Nack, InBroker!Recover

\* One handler per event, unless a connection was lost: for any workers and
\* under all faults.  A busy worker has its message unacknowledged, and the
\* broker has each message in one place.
THEOREM HandlersMeetOnlyWhenCut == Spec => []OneHandlerPerEvent
<1>1. Init => JobsHold
  BY DEF Init, JobsHold, NoJob, UploadSteps
<1>2. Spec => []InBroker!OnePlace
  BY LifecycleImplementsQueue, SameBroker, InBroker!MessagesHaveOnePlace, PTL DEF ImplementsQueue
<1>3. WritesAreOrdered /\ JobsHold /\ InBroker!OnePlace => OneHandlerPerEvent
  <2> SUFFICES ASSUME WritesAreOrdered, JobsHold, InBroker!OnePlace,
                      NEW v \in Workers, NEW w \in Workers,
                      v # w, job[v].pc # "idle", job[w].pc # "idle",
                      job[v].event = job[w].event, job[v].id = job[w].id,
                      mode[v] # "cut", mode[w] # "cut"
               PROVE  FALSE
    BY DEF OneHandlerPerEvent
  <2> DEFINE m == <<job[w].event, job[w].id>>
  <2>1. m \in Messages
    BY BusyIs DEF Messages
  <2>2. m \in Unacked(v) /\ m \in Unacked(w)
    BY <2>1 DEF JobsHold, Unacked
  <2>3. Unacked(v) \cap Unacked(w) # {} => v = w
    BY DEF InBroker!OnePlace
  <2> HIDE DEF m
  <2> QED
    BY <2>2, <2>3
<1> QED
  BY <1>1, <1>2, <1>3, JobsHoldStep, OrderInvariant, PTL DEF Spec

\* An event that was acknowledged, or dropped on publication, never comes
\* back to any worker.
THEOREM EventsStayGone == Spec => Queue!GoneForGood
<1>1. Queue!GoneForGood <=> InBroker!GoneForGood
  BY PTL DEF Queue!GoneForGood, Queue!Live, Queue!queueVars, InBroker!GoneForGood, InBroker!Live,
             InBroker!queueVars
<1> QED
  BY <1>1, LifecycleImplementsQueue, SameBroker, InBroker!AcknowledgedIsGone, PTL DEF ImplementsQueue

=============================================================================
