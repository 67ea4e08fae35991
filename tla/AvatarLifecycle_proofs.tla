------------------------ MODULE AvatarLifecycle_proofs ------------------------
EXTENDS AvatarLifecycle, TLAPS

LEMMA InitTypeOK == Init => TypeOK
  BY LifecycleAssumption
  DEF Init, TypeOK, NoRow, NoJob, Row, Job, JobPc, Thumbs, Objects, Events,
      UploadState, DeleteState

LEMMA SpendType ==
  ASSUME TypeOK, NEW kind, Spend(kind) PROVE faults' \in 0..MaxFaults
  BY LifecycleAssumption DEF TypeOK, Spend

LEMMA ServerCallType ==
  ASSUME TypeOK, NEW dep, NEW o, ServerCall(dep, o) PROVE faults' \in 0..MaxFaults
  BY SpendType DEF TypeOK, ServerCall

LEMMA WorkerCallType ==
  ASSUME TypeOK, NEW w, NEW dep, NEW o, WorkerCall(w, dep, o)
  PROVE  faults' \in 0..MaxFaults
  BY ServerCallType DEF TypeOK, WorkerCall

LEMMA ProcessedType ==
  ASSUME NEW row \in Row, NEW keys \in SUBSET Thumbs PROVE Processed(row, keys) \in Row
  BY DEF Row, Processed

LEMMA UpdateType ==
  ASSUME TypeOK, NEW id \in Ids, NEW keys \in SUBSET Thumbs,
         UpdateProcessingResult(id, keys)
  PROVE  rows' \in [Ids -> Row]
  BY ProcessedType DEF TypeOK, UpdateProcessingResult

\* A worker that makes another call of its handler has a proper job.
LEMMA BusyJob ==
  ASSUME TypeOK, NEW w \in Workers, job[w].pc \in JobPc PROVE job[w] \in Job
  BY DEF TypeOK, NoJob, JobPc

LEMMA GotoType ==
  ASSUME TypeOK, NEW w \in Workers, job[w] \in Job, NEW pc \in JobPc, Goto(w, pc)
  PROVE  job' \in [Workers -> Job \cup {NoJob}]
  BY DEF TypeOK, Goto, Job

LEMMA TypeStep == TypeOK /\ [Next]_vars => TypeOK'
<1> SUFFICES ASSUME TypeOK, [Next]_vars PROVE TypeOK'
  OBVIOUS
<1> USE LifecycleAssumption
<1>1. ASSUME NEW id \in Ids, UploadPut(id) PROVE TypeOK'
  BY <1>1 DEF TypeOK, UploadPut, PutObject, ServerCall, Spend, Outcome, Applied, UploadState, Objects
<1>2. ASSUME NEW id \in Ids, UploadCreate(id) PROVE TypeOK'
  <2>1. faults' \in 0..MaxFaults
    BY <1>2, ServerCallType DEF UploadCreate, CreateRow
  <2>2. rows' \in [Ids -> Row]
    <3>1. [NoRow EXCEPT !.status = "processing"] \in Row
      BY DEF NoRow, Row
    <3> QED
      BY <1>2, <3>1 DEF TypeOK, UploadCreate, CreateRow
  <2>3. uploads' \in [Ids -> UploadState]
    BY <1>2 DEF TypeOK, UploadCreate, CreateRow, UploadState
  <2> QED
    BY <1>2, <2>1, <2>2, <2>3 DEF TypeOK, UploadCreate, CreateRow
<1>3. ASSUME NEW id \in Ids, UploadPublish(id) PROVE TypeOK'
  BY <1>3 DEF TypeOK, UploadPublish, PublishCall, Enqueue, Spend, Outcome, UploadState, Events
<1>4. ASSUME NEW id \in Ids, UploadMarkFailed(id) PROVE TypeOK'
  <2>1. faults' \in 0..MaxFaults
    BY <1>4, ServerCallType DEF UploadMarkFailed, MarkPublishFailed
  <2>2. rows' \in [Ids -> Row]
    <3>1. [rows[id] EXCEPT !.status = "failed"] \in Row
      <4>1. rows[id] \in Row
        BY DEF TypeOK
      <4> QED
        BY <4>1 DEF Row
    <3> QED
      BY <1>4, <3>1 DEF TypeOK, UploadMarkFailed, MarkPublishFailed
  <2>3. uploads' \in [Ids -> UploadState]
    BY <1>4 DEF TypeOK, UploadMarkFailed, MarkPublishFailed, UploadState
  <2> QED
    BY <1>4, <2>1, <2>2, <2>3 DEF TypeOK, UploadMarkFailed, MarkPublishFailed
<1>5. ASSUME NEW id \in Ids, UploadDies(id) PROVE TypeOK'
  BY <1>5 DEF TypeOK, UploadDies, Spend, UploadState
<1>6. ASSUME NEW r \in Requests, DeleteGet(r) PROVE TypeOK'
  <2>1. faults' \in 0..MaxFaults
    BY <1>6, SpendType DEF TypeOK, DeleteGet
  <2>2. deletes' \in [Requests -> DeleteState]
    BY <1>6 DEF TypeOK, DeleteGet, AfterCheck, DeleteState
  <2> QED
    BY <1>6, <2>1, <2>2 DEF TypeOK, DeleteGet
<1>7. ASSUME NEW r \in Requests, DeleteSoft(r) PROVE TypeOK'
  <2>1. faults' \in 0..MaxFaults
    BY <1>7, ServerCallType DEF DeleteSoft
  <2>2. rows' \in [Ids -> Row]
    <3>1. [rows[r.id] EXCEPT !.deleted = TRUE] \in Row
      <4>1. rows[r.id] \in Row
        BY DEF TypeOK
      <4> QED
        BY <4>1 DEF Row
    <3> QED
      BY <1>7, <3>1 DEF TypeOK, DeleteSoft
  <2>3. deletes' \in [Requests -> DeleteState]
    BY <1>7 DEF TypeOK, DeleteSoft, DeleteState
  <2> QED
    BY <1>7, <2>1, <2>2, <2>3 DEF TypeOK, DeleteSoft
<1>8. ASSUME NEW r \in Requests, DeletePublish(r) PROVE TypeOK'
  BY <1>8 DEF TypeOK, DeletePublish, PublishCall, Enqueue, Spend, Outcome, DeleteState, Events
<1>9. ASSUME NEW r \in Requests, DeleteDies(r) PROVE TypeOK'
  BY <1>9 DEF TypeOK, DeleteDies, Spend, DeleteState
<1>10. ASSUME NEW w \in Workers, NEW e \in Events, NEW id \in Ids, Deliver(w, e, id)
       PROVE TypeOK'
  BY <1>10 DEF TypeOK, Deliver
<1>11. ASSUME NEW w \in Workers, ConnectionLost(w) PROVE TypeOK'
  BY <1>11 DEF TypeOK, ConnectionLost, Requeued, Spend
<1>12. ASSUME NEW w \in Workers, NEW id \in Ids, HandleUpload(w, id) PROVE TypeOK'
  BY <1>12 DEF TypeOK, HandleUpload, WorkerCall, ServerCall, Spend, Begin, Job, JobPc, Events
<1>13. ASSUME NEW w \in Workers, GetOriginal(w) PROVE TypeOK'
  <2>1. faults' \in 0..MaxFaults
    BY <1>13, WorkerCallType DEF GetOriginal
  <2>2. job' \in [Workers -> Job \cup {NoJob}]
    BY <1>13, BusyJob, GotoType DEF GetOriginal, JobPc
  <2> QED
    BY <1>13, <2>1, <2>2 DEF TypeOK, GetOriginal
<1>14. ASSUME NEW w \in Workers, NEW pc, NEW thumb \in Thumbs,
              NEW next \in JobPc, pc \in JobPc, PutThumb(w, pc, thumb, next)
       PROVE TypeOK'
  <2>1. faults' \in 0..MaxFaults
    BY <1>14, WorkerCallType DEF PutThumb, PutObject
  <2>2. job' \in [Workers -> Job \cup {NoJob}]
    BY <1>14, BusyJob, GotoType DEF PutThumb, PutObject, JobPc
  <2>3. stored' \in [Ids -> SUBSET Objects]
    <3>1. \/ stored' = stored
          \/ stored' = [stored EXCEPT ![job[w].id] = @ \cup {thumb}]
      BY <1>14 DEF PutThumb, PutObject
    <3>2. job[w].id \in Ids /\ thumb \in Objects
      BY <1>14, BusyJob DEF PutThumb, PutObject, Job, Objects
    <3> QED
      BY <3>1, <3>2 DEF TypeOK
  <2> QED
    BY <1>14, <2>1, <2>2, <2>3 DEF TypeOK, PutThumb, PutObject
<1>15. ASSUME NEW w \in Workers, RecordResult(w) PROVE TypeOK'
  <2>1. faults' \in 0..MaxFaults
    BY <1>15, WorkerCallType DEF RecordResult
  <2>2. job[w] \in Job
    BY <1>15, BusyJob DEF RecordResult, JobPc
  <2>3. job' \in [Workers -> Job \cup {NoJob}]
    BY <1>15, <2>2, GotoType DEF RecordResult, JobPc
  <2>4. rows' \in [Ids -> Row]
    BY <1>15, <2>2, UpdateType DEF TypeOK, RecordResult, Job
  <2> QED
    BY <1>15, <2>1, <2>3, <2>4 DEF TypeOK, RecordResult
<1>16. ASSUME NEW w \in Workers, RecordFailure(w) PROVE TypeOK'
  <2>1. faults' \in 0..MaxFaults
    BY <1>16, WorkerCallType DEF RecordFailure
  <2>2. job[w] \in Job
    BY <1>16, BusyJob DEF RecordFailure, JobPc
  <2>3. job' \in [Workers -> Job \cup {NoJob}]
    BY <1>16, <2>2, GotoType DEF RecordFailure, JobPc
  <2>4. rows' \in [Ids -> Row]
    BY <1>16, <2>2, UpdateType DEF TypeOK, RecordFailure, Job
  <2> QED
    BY <1>16, <2>1, <2>3, <2>4 DEF TypeOK, RecordFailure
<1>17. ASSUME NEW w \in Workers, NEW id \in Ids, HandleDelete(w, id) PROVE TypeOK'
  BY <1>17 DEF TypeOK, HandleDelete, KeysOf, WorkerCall, ServerCall, Spend, Begin, Job,
               JobPc, Events, Objects, Row
<1>18. ASSUME NEW w \in Workers, DeleteObject(w) PROVE TypeOK'
  <2>1. faults' \in 0..MaxFaults
    BY <1>18, WorkerCallType DEF DeleteObject, RemoveObject
  <2>2. job[w] \in Job
    BY <1>18, BusyJob DEF DeleteObject, RemoveObject, JobPc
  <2> DEFINE key == NextKey(job[w].todo)
             rest(pc) == [job[w] EXCEPT !.todo = @ \ {key}, !.pc = pc]
  <2>3. job' \in [Workers -> Job \cup {NoJob}]
    <3>1. \A pc \in JobPc : rest(pc) \in Job
      BY <2>2 DEF Job
    <3>2. CASE Goto(w, "nack")
      BY <2>2, <3>2, GotoType DEF JobPc
    <3>3. CASE ~Goto(w, "nack")
      <4>1. job' = [job EXCEPT ![w] =
                     rest(IF job[w].todo = {key} THEN "ack" ELSE "delete")]
        BY <1>18, <2>2, <3>3 DEF TypeOK, DeleteObject, RemoveObject
      <4> QED
        BY <3>1, <4>1 DEF TypeOK, JobPc
    <3> QED
      BY <3>2, <3>3
  <2>4. stored' \in [Ids -> SUBSET Objects]
    <3>1. stored' = stored \/ stored' = [stored EXCEPT ![job[w].id] = @ \ {key}]
      BY <1>18 DEF DeleteObject, RemoveObject
    <3>2. job[w].id \in Ids
      BY <2>2 DEF Job
    <3> QED
      BY <3>1, <3>2 DEF TypeOK
  <2> QED
    BY <1>18, <2>1, <2>3, <2>4 DEF TypeOK, DeleteObject, RemoveObject
<1>19. ASSUME NEW w \in Workers, Ack(w) PROVE TypeOK'
  BY <1>19 DEF TypeOK, Ack, Finish, NoJob, Job, JobPc, Events
<1>20. ASSUME NEW w \in Workers, Nack(w) PROVE TypeOK'
  BY <1>20 DEF TypeOK, Nack, Enqueue, Finish, NoJob, Job, JobPc, Events
<1>21. ASSUME NEW w \in Workers, StopWorker(w) PROVE TypeOK'
  BY <1>21 DEF TypeOK, StopWorker, Spend
<1>22. ASSUME NEW w \in Workers, WorkerRestarts(w) PROVE TypeOK'
  BY <1>22 DEF TypeOK, WorkerRestarts
<1>23. ASSUME NEW w \in Workers, WorkerCrashes(w) PROVE TypeOK'
  BY <1>23 DEF TypeOK, WorkerCrashes, Requeued, Spend, NoJob, Job, JobPc, Events
<1>24. ASSUME UNCHANGED vars PROVE TypeOK'
  BY <1>24 DEF TypeOK, vars
<1> QED
  BY <1>1, <1>2, <1>3, <1>4, <1>5, <1>6, <1>7, <1>8, <1>9, <1>10, <1>11, <1>12, <1>13,
     <1>14, <1>15, <1>16, <1>17, <1>18, <1>19, <1>20, <1>21, <1>22, <1>23, <1>24
  DEF Next, Upload, Delete, Broker, Handler, Process, PutThumb100, PutThumb300, Thumbs,
      JobPc

\* Rows, objects, queues and handler states stay in their types; in
\* particular a row names only thumbnail keys, and its status is one that
\* the CHECK constraint of the avatars table admits.
THEOREM TypeCorrect == Spec => []TypeOK
  BY InitTypeOK, TypeStep, PTL DEF Spec

-----------------------------------------------------------------------------
(* Frame conditions: what a step that leaves a part of the state alone     *)
(* cannot disturb.                                                         *)

\* No row is lost or shown again.
RowsGrow ==
  \A i \in Ids : /\ rows[i].status # "none" => rows'[i].status # "none"
                 /\ rows[i].deleted => rows'[i].deleted

\* No row appears.
NoNewRow == \A i \in Ids : rows[i] = NoRow => rows'[i] = NoRow

\* No object of a row that is not deleted is lost.
ObjectsKept == \A i \in Ids : stored[i] \subseteq stored'[i] \/ rows[i].deleted

LEMMA KeepsUpload ==
  ASSUME WritesAreOrdered, UNCHANGED uploads, RowsGrow, NoNewRow, ObjectsKept
  PROVE  UploadIsOrdered'
  BY DEF WritesAreOrdered, UploadIsOrdered, RowsGrow, NoNewRow, ObjectsKept, NoRow

LEMMA KeepsThumbs ==
  ASSUME WritesAreOrdered, UNCHANGED job, RowsGrow, ObjectsKept PROVE ThumbsAreOrdered'
<1>1. \A w \in Workers : job[w].pc \in JobPc => job[w].id \in Ids
  BY BusyJob DEF WritesAreOrdered, Job
<1> QED
  BY <1>1 DEF WritesAreOrdered, ThumbsAreOrdered, RowsGrow, ObjectsKept, JobPc

LEMMA KeepsRemoval ==
  ASSUME WritesAreOrdered, UNCHANGED <<deletes, queues, held, job>>, RowsGrow
  PROVE  RemovalIsOrdered'
<1>1. \A w \in Workers : job[w].pc # "idle" => job[w].id \in Ids
  BY DEF WritesAreOrdered, TypeOK, Job, NoJob
<1> QED
  BY <1>1, LifecycleAssumption
  DEF WritesAreOrdered, TypeOK, RemovalIsOrdered, RowsGrow, Events

LEMMA KeepsActive ==
  ASSUME WritesAreOrdered, UNCHANGED rows, ObjectsKept PROVE ActiveObjectsPresent'
  BY DEF WritesAreOrdered, ActiveObjectsPresent, ObjectsKept, Active

LEMMA KeepsOnce ==
  ASSUME WritesAreOrdered, UNCHANGED deletes PROVE DeleteSucceedsOnce'
  BY DEF WritesAreOrdered, DeleteSucceedsOnce

\* A step that leaves the table and the bucket alone satisfies the frames.
LEMMA Untouched ==
  ASSUME UNCHANGED <<rows, stored>> PROVE RowsGrow /\ NoNewRow /\ ObjectsKept
  BY DEF RowsGrow, NoNewRow, ObjectsKept

-----------------------------------------------------------------------------
(* Every action preserves the order of writes.                             *)

LEMMA UploadPutStep ==
  ASSUME WritesAreOrdered, TypeOK', NEW id \in Ids, UploadPut(id)
  PROVE  WritesAreOrdered'
<1>1. RowsGrow /\ NoNewRow /\ ObjectsKept
  BY DEF WritesAreOrdered, TypeOK, UploadPut, PutObject, RowsGrow, NoNewRow, ObjectsKept
<1>2. UploadIsOrdered'
  BY DEF WritesAreOrdered, TypeOK, UploadIsOrdered, UploadPut, PutObject, Outcome, Applied
<1> QED
  BY <1>1, <1>2, KeepsThumbs, KeepsRemoval, KeepsActive, KeepsOnce
  DEF WritesAreOrdered, UploadPut, PutObject

LEMMA UploadCreateStep ==
  ASSUME WritesAreOrdered, TypeOK', NEW id \in Ids, UploadCreate(id)
  PROVE  WritesAreOrdered'
<1>1. RowsGrow /\ ObjectsKept
  BY DEF WritesAreOrdered, TypeOK, UploadIsOrdered, UploadCreate, CreateRow, RowsGrow, ObjectsKept, NoRow
<1>2. UploadIsOrdered'
  BY DEF WritesAreOrdered, TypeOK, UploadIsOrdered, UploadCreate, CreateRow, Outcome, Applied, NoRow
<1>3. ActiveObjectsPresent'
  <2>1. \/ rows' = rows
        \/ rows' = [rows EXCEPT ![id] = [NoRow EXCEPT !.status = "processing"]]
    BY DEF UploadCreate, CreateRow
  <2>2. stored' = stored /\ "original" \in stored[id]
    BY DEF WritesAreOrdered, UploadIsOrdered, UploadCreate
  <2>3. CASE rows' = rows
    BY <2>2, <2>3 DEF WritesAreOrdered, ActiveObjectsPresent, Active
  <2>4. CASE rows' = [rows EXCEPT ![id] = [NoRow EXCEPT !.status = "processing"]]
    <3>1. rows'[id].thumbs = {} /\ \A i \in Ids \ {id} : rows'[i] = rows[i]
      BY <2>4 DEF WritesAreOrdered, TypeOK, NoRow
    <3>2. \A i \in Ids \ {id} : Active(i)' <=> Active(i)
      BY <3>1 DEF Active
    <3> QED
      BY <2>2, <3>1, <3>2 DEF WritesAreOrdered, ActiveObjectsPresent
  <2> QED
    BY <2>1, <2>3, <2>4
<1> QED
  BY <1>1, <1>2, <1>3, KeepsThumbs, KeepsRemoval, KeepsOnce
  DEF WritesAreOrdered, UploadCreate, CreateRow

LEMMA UploadPublishStep ==
  ASSUME WritesAreOrdered, TypeOK', NEW id \in Ids, UploadPublish(id)
  PROVE  WritesAreOrdered'
<1>1. UploadIsOrdered'
  BY DEF WritesAreOrdered, TypeOK, UploadIsOrdered, UploadPublish
<1>2. RemovalIsOrdered'
  BY DEF WritesAreOrdered, TypeOK, RemovalIsOrdered, UploadPublish, PublishCall, Enqueue, Events
<1> QED
  BY <1>1, <1>2, Untouched, KeepsThumbs, KeepsActive, KeepsOnce
  DEF WritesAreOrdered, UploadPublish

LEMMA UploadMarkFailedStep ==
  ASSUME WritesAreOrdered, TypeOK', NEW id \in Ids, UploadMarkFailed(id)
  PROVE  WritesAreOrdered'
<1>1. RowsGrow /\ ObjectsKept
  BY DEF WritesAreOrdered, TypeOK, UploadMarkFailed, MarkPublishFailed, RowsGrow, ObjectsKept, Row
<1>2. UploadIsOrdered'
  BY DEF WritesAreOrdered, TypeOK, UploadIsOrdered, UploadMarkFailed, MarkPublishFailed
<1>3. ActiveObjectsPresent'
  <2>1. rows' = rows \/ rows' = [rows EXCEPT ![id].status = "failed"]
    BY DEF UploadMarkFailed, MarkPublishFailed
  <2>2. stored' = stored /\ rows[id].status # "none"
    BY DEF WritesAreOrdered, UploadIsOrdered, UploadMarkFailed
  <2>3. \A i \in Ids : Active(i)' => Active(i) /\ rows'[i].thumbs = rows[i].thumbs
    <3>1. CASE rows' = rows
      BY <3>1 DEF Active
    <3>2. CASE rows' = [rows EXCEPT ![id].status = "failed"]
      BY <2>2, <3>2 DEF WritesAreOrdered, TypeOK, Active, Row
    <3> QED BY <2>1, <3>1, <3>2
  <2> QED
    BY <2>2, <2>3 DEF WritesAreOrdered, ActiveObjectsPresent
<1> QED
  BY <1>1, <1>2, <1>3, KeepsThumbs, KeepsRemoval, KeepsOnce
  DEF WritesAreOrdered, UploadMarkFailed, MarkPublishFailed

LEMMA UploadDiesStep ==
  ASSUME WritesAreOrdered, TypeOK', NEW id \in Ids, UploadDies(id)
  PROVE  WritesAreOrdered'
<1>1. UploadIsOrdered'
  BY DEF WritesAreOrdered, TypeOK, UploadIsOrdered, UploadDies
<1> QED
  BY <1>1, Untouched, KeepsThumbs, KeepsRemoval, KeepsActive, KeepsOnce
  DEF WritesAreOrdered, UploadDies

LEMMA DeleteGetStep ==
  ASSUME WritesAreOrdered, TypeOK', NEW r \in Requests, DeleteGet(r)
  PROVE  WritesAreOrdered'
<1>1. RemovalIsOrdered'
  BY DEF WritesAreOrdered, TypeOK, RemovalIsOrdered, DeleteGet, AfterCheck
<1>2. DeleteSucceedsOnce'
  BY DEF WritesAreOrdered, TypeOK, DeleteSucceedsOnce, DeleteGet, AfterCheck
<1> QED
  BY <1>1, <1>2, Untouched, KeepsUpload, KeepsThumbs, KeepsActive
  DEF WritesAreOrdered, DeleteGet

LEMMA DeleteDiesStep ==
  ASSUME WritesAreOrdered, TypeOK', NEW r \in Requests, DeleteDies(r)
  PROVE  WritesAreOrdered'
<1>1. RemovalIsOrdered'
  BY DEF WritesAreOrdered, TypeOK, RemovalIsOrdered, DeleteDies
<1>2. DeleteSucceedsOnce'
  BY DEF WritesAreOrdered, TypeOK, DeleteSucceedsOnce, DeleteDies
<1> QED
  BY <1>1, <1>2, Untouched, KeepsUpload, KeepsThumbs, KeepsActive
  DEF WritesAreOrdered, DeleteDies

LEMMA DeleteSoftStep ==
  ASSUME WritesAreOrdered, TypeOK', NEW r \in Requests, DeleteSoft(r)
  PROVE  WritesAreOrdered'
<1>1. r.id \in Ids
  BY LifecycleAssumption
<1>2. RowsGrow /\ NoNewRow /\ ObjectsKept
  <2>1. \/ rows' = rows
        \/ /\ rows' = [rows EXCEPT ![r.id].deleted = TRUE]
           /\ rows[r.id].status # "none"
    BY DEF DeleteSoft, SoftDeleteMatches
  <2>2. stored' = stored
    BY DEF DeleteSoft
  <2>3. rows \in [Ids -> Row]
    BY DEF WritesAreOrdered, TypeOK
  <2>4. RowsGrow
    BY <1>1, <2>1, <2>3 DEF RowsGrow, Row
  <2>5. NoNewRow
    <3>1. \A i \in Ids \ {r.id} : rows'[i] = rows[i]
      BY <1>1, <2>1, <2>3
    <3>2. rows[r.id] = NoRow => rows' = rows
      BY <2>1 DEF NoRow
    <3> QED
      BY <3>1, <3>2 DEF NoNewRow
  <2> QED
    BY <2>2, <2>4, <2>5 DEF ObjectsKept
<1>3. RemovalIsOrdered'
  BY <1>1, LifecycleAssumption
  DEF WritesAreOrdered, TypeOK, RemovalIsOrdered, DeleteSoft, Outcome, Applied, Row, Events
<1>4. ActiveObjectsPresent'
  BY <1>1 DEF WritesAreOrdered, TypeOK, ActiveObjectsPresent, Active, DeleteSoft, Row
<1>5. DeleteSucceedsOnce'
  BY <1>1, LifecycleAssumption
  DEF WritesAreOrdered, TypeOK, DeleteSucceedsOnce, RemovalIsOrdered, DeleteSoft,
      SoftDeleteMatches, Row
<1> QED
  BY <1>2, <1>3, <1>4, <1>5, KeepsUpload, KeepsThumbs DEF WritesAreOrdered, DeleteSoft

LEMMA DeletePublishStep ==
  ASSUME WritesAreOrdered, TypeOK', NEW r \in Requests, DeletePublish(r)
  PROVE  WritesAreOrdered'
<1>1. RemovalIsOrdered'
  BY LifecycleAssumption
  DEF WritesAreOrdered, TypeOK, RemovalIsOrdered, DeletePublish, PublishCall, Enqueue, Events
<1>2. DeleteSucceedsOnce'
  BY DEF WritesAreOrdered, TypeOK, DeleteSucceedsOnce, DeletePublish
<1> QED
  BY <1>1, <1>2, Untouched, KeepsUpload, KeepsThumbs, KeepsActive
  DEF WritesAreOrdered, DeletePublish

LEMMA DeliverStep ==
  ASSUME WritesAreOrdered, TypeOK', NEW w \in Workers, NEW e \in Events, NEW id \in Ids, Deliver(w, e, id)
  PROVE  WritesAreOrdered'
<1>1. RemovalIsOrdered'
  BY DEF WritesAreOrdered, TypeOK, RemovalIsOrdered, Deliver, Events
<1> QED
  BY <1>1, Untouched, KeepsUpload, KeepsThumbs, KeepsActive, KeepsOnce
  DEF WritesAreOrdered, Deliver

LEMMA ConnectionLostStep ==
  ASSUME WritesAreOrdered, TypeOK', NEW w \in Workers, ConnectionLost(w)
  PROVE  WritesAreOrdered'
<1>1. RemovalIsOrdered'
  BY DEF WritesAreOrdered, TypeOK, RemovalIsOrdered, ConnectionLost, Requeued, Events
<1> QED
  BY <1>1, Untouched, KeepsUpload, KeepsThumbs, KeepsActive, KeepsOnce
  DEF WritesAreOrdered, ConnectionLost

LEMMA HandleUploadStep ==
  ASSUME WritesAreOrdered, TypeOK', NEW w \in Workers, NEW id \in Ids, HandleUpload(w, id)
  PROVE  WritesAreOrdered'
<1>1. PICK pc \in {"nack", "get_original", "ack"} :
             /\ Begin(w, "uploaded", id, pc, {})
             /\ pc = "get_original" => Active(id)
  BY DEF HandleUpload
<1>2. ThumbsAreOrdered'
  BY <1>1 DEF WritesAreOrdered, TypeOK, ThumbsAreOrdered, Begin, HandleUpload, Active
<1>3. RemovalIsOrdered'
  BY <1>1 DEF WritesAreOrdered, TypeOK, RemovalIsOrdered, Begin, HandleUpload
<1> QED
  BY <1>2, <1>3, Untouched, KeepsUpload, KeepsActive, KeepsOnce
  DEF WritesAreOrdered, HandleUpload

LEMMA HandleDeleteStep ==
  ASSUME WritesAreOrdered, TypeOK', NEW w \in Workers, NEW id \in Ids, HandleDelete(w, id)
  PROVE  WritesAreOrdered'
<1>1. PICK pc \in {"ack", "delete"}, todo \in {{}, KeysOf(rows[id])} :
             Begin(w, "delete_requested", id, pc, todo)
  BY DEF HandleDelete
<1>2. ThumbsAreOrdered'
  BY <1>1 DEF WritesAreOrdered, TypeOK, ThumbsAreOrdered, Begin, HandleDelete
<1>3. RemovalIsOrdered'
  BY <1>1 DEF WritesAreOrdered, TypeOK, RemovalIsOrdered, Begin, HandleDelete
<1> QED
  BY <1>2, <1>3, Untouched, KeepsUpload, KeepsActive, KeepsOnce
  DEF WritesAreOrdered, HandleDelete

\* Moving on inside the upload handler, or leaving a handler, removes nothing.
LEMMA GotoRemoval ==
  ASSUME WritesAreOrdered, UNCHANGED <<deletes, queues, held>>, RowsGrow,
         NEW w \in Workers, job[w] \in Job, NEW pc \in JobPc \ {"delete"}, Goto(w, pc)
  PROVE  RemovalIsOrdered'
<1>1. \A v \in Workers : job[v].pc # "idle" => job[v].id \in Ids
  BY DEF WritesAreOrdered, TypeOK, Job, NoJob
<1>2. /\ \A v \in Workers : job'[v].id = job[v].id /\ job'[v].event = job[v].event
      /\ \A v \in Workers \ {w} : job'[v].pc = job[v].pc
      /\ job'[w].pc = pc
  BY DEF WritesAreOrdered, TypeOK, Goto
<1>3. job[w].pc # "idle"
  BY DEF Job, JobPc
<1>4. \A i \in Ids : rows[i].deleted => rows'[i].deleted
  BY DEF RowsGrow
<1>5. \A r \in Requests : deletes'[r] \in {"publish", "no_content"} => rows'[r.id].deleted
  BY <1>4, LifecycleAssumption DEF WritesAreOrdered, RemovalIsOrdered
<1>6. queues["delete_requested"] \subseteq Ids
      /\ \A v \in Workers : held[v]["delete_requested"] \subseteq Ids
  BY DEF WritesAreOrdered, TypeOK, Events
<1>7. /\ \A id \in queues'["delete_requested"] : rows'[id].deleted
      /\ \A v \in Workers : \A id \in held'[v]["delete_requested"] : rows'[id].deleted
  BY <1>4, <1>6 DEF WritesAreOrdered, RemovalIsOrdered
<1>8. ASSUME NEW v \in Workers
      PROVE  /\ job'[v].pc # "idle" /\ job'[v].event = "delete_requested"
                  => rows'[job'[v].id].deleted
             /\ job'[v].pc = "delete" => job'[v].event = "delete_requested"
  BY <1>1, <1>2, <1>3, <1>4 DEF WritesAreOrdered, RemovalIsOrdered
<1> QED
  BY <1>5, <1>7, <1>8 DEF RemovalIsOrdered

LEMMA GetOriginalStep ==
  ASSUME WritesAreOrdered, TypeOK', NEW w \in Workers, GetOriginal(w)
  PROVE  WritesAreOrdered'
<1>1. job[w] \in Job
  BY BusyJob DEF WritesAreOrdered, GetOriginal, JobPc
<1>2. PICK pc \in {"put100", "record_failed"} : Goto(w, pc)
  BY DEF GetOriginal
<1>3. ThumbsAreOrdered'
  BY <1>2 DEF WritesAreOrdered, TypeOK, ThumbsAreOrdered, GetOriginal, Goto
<1>4. RemovalIsOrdered'
  BY <1>1, <1>2, Untouched, GotoRemoval DEF GetOriginal, JobPc
<1> QED
  BY <1>3, <1>4, Untouched, KeepsUpload, KeepsActive, KeepsOnce
  DEF WritesAreOrdered, GetOriginal

\* A handler that stored a thumbnail goes on to a call that rests on it.
LEMMA PutKeepsThumbs ==
  ASSUME WritesAreOrdered, NEW w \in Workers, NEW pc \in {"put300", "record", "record_failed"},
         job[w] \in Job, rows[job[w].id].status # "none",
         job' = [job EXCEPT ![w].pc = pc], UNCHANGED rows, ObjectsKept,
         pc \in {"put300", "record"}
           => "thumb100" \in stored'[job[w].id] \/ rows[job[w].id].deleted,
         pc = "record" => "thumb300" \in stored'[job[w].id] \/ rows[job[w].id].deleted
  PROVE  ThumbsAreOrdered'
<1>1. /\ job'[w].pc = pc /\ job'[w].id = job[w].id
      /\ \A v \in Workers \ {w} : job'[v] = job[v]
  BY DEF WritesAreOrdered, TypeOK, Job
<1>2. \A v \in Workers : job[v].pc \in JobPc => job[v].id \in Ids
  BY BusyJob DEF WritesAreOrdered, Job
<1>3. ASSUME NEW v \in Workers
      PROVE  /\ job'[v].pc \in {"get_original", "put100", "put300", "record", "record_failed"}
                  => rows'[job'[v].id].status # "none"
             /\ job'[v].pc \in {"put300", "record"}
                  => "thumb100" \in stored'[job'[v].id] \/ rows'[job'[v].id].deleted
             /\ job'[v].pc = "record"
                  => "thumb300" \in stored'[job'[v].id] \/ rows'[job'[v].id].deleted
  <2>1. CASE v = w
    BY <1>1, <2>1
  <2>2. CASE v # w
    BY <1>1, <1>2, <2>2 DEF WritesAreOrdered, ThumbsAreOrdered, ObjectsKept, JobPc
  <2> QED BY <2>1, <2>2
<1> QED BY <1>3 DEF ThumbsAreOrdered

LEMMA PutThumb100Step ==
  ASSUME WritesAreOrdered, TypeOK', NEW w \in Workers, PutThumb100(w)
  PROVE  WritesAreOrdered'
<1>1. job[w] \in Job
  BY BusyJob DEF WritesAreOrdered, PutThumb100, PutThumb, PutObject, JobPc
<1>2. PICK pc \in {"put300", "record_failed"} : Goto(w, pc)
  BY DEF PutThumb100, PutThumb, PutObject
<1>3. RowsGrow /\ NoNewRow /\ ObjectsKept
  BY DEF WritesAreOrdered, TypeOK, PutThumb100, PutThumb, PutObject, RowsGrow, NoNewRow, ObjectsKept
<1>4. ThumbsAreOrdered'
  <2>1. job' = [job EXCEPT ![w].pc = pc] /\ UNCHANGED rows
    BY <1>2 DEF Goto, PutThumb100, PutThumb
  <2>2. pc = "put300" => "thumb100" \in stored'[job[w].id]
    BY <1>1, <2>1 DEF WritesAreOrdered, TypeOK, PutThumb100, PutThumb, PutObject, Outcome,
                      Applied, Goto, Job
  <2>3. /\ rows[job[w].id].status # "none"
    BY DEF WritesAreOrdered, ThumbsAreOrdered, PutThumb100, PutThumb
  <2> QED
    BY <1>1, <1>2, <1>3, <2>1, <2>2, <2>3, PutKeepsThumbs DEF ObjectsKept, Job
<1>5. RemovalIsOrdered'
  BY <1>1, <1>2, <1>3, GotoRemoval DEF PutThumb100, PutThumb, PutObject, JobPc
<1> QED
  BY <1>3, <1>4, <1>5, KeepsUpload, KeepsActive, KeepsOnce
  DEF WritesAreOrdered, PutThumb100, PutThumb, PutObject

LEMMA PutThumb300Step ==
  ASSUME WritesAreOrdered, TypeOK', NEW w \in Workers, PutThumb300(w)
  PROVE  WritesAreOrdered'
<1>1. job[w] \in Job
  BY BusyJob DEF WritesAreOrdered, PutThumb300, PutThumb, PutObject, JobPc
<1>2. PICK pc \in {"record", "record_failed"} : Goto(w, pc)
  BY DEF PutThumb300, PutThumb, PutObject
<1>3. RowsGrow /\ NoNewRow /\ ObjectsKept
  BY DEF WritesAreOrdered, TypeOK, PutThumb300, PutThumb, PutObject, RowsGrow, NoNewRow, ObjectsKept
<1>4. ThumbsAreOrdered'
  <2>1. job' = [job EXCEPT ![w].pc = pc] /\ UNCHANGED rows
    BY <1>2 DEF Goto, PutThumb300, PutThumb
  <2>2. pc = "record" => "thumb300" \in stored'[job[w].id]
    BY <1>1, <2>1 DEF WritesAreOrdered, TypeOK, PutThumb300, PutThumb, PutObject, Outcome,
                      Applied, Goto, Job
  <2>3. /\ rows[job[w].id].status # "none"
        /\ "thumb100" \in stored[job[w].id] \/ rows[job[w].id].deleted
    BY DEF WritesAreOrdered, ThumbsAreOrdered, PutThumb300, PutThumb
  <2> QED
    BY <1>1, <1>2, <1>3, <2>1, <2>2, <2>3, PutKeepsThumbs DEF ObjectsKept, Job
<1>5. RemovalIsOrdered'
  BY <1>1, <1>2, <1>3, GotoRemoval DEF PutThumb300, PutThumb, PutObject, JobPc
<1> QED
  BY <1>3, <1>4, <1>5, KeepsUpload, KeepsActive, KeepsOnce
  DEF WritesAreOrdered, PutThumb300, PutThumb, PutObject

\* UpdateProcessingResult changes one existing row, neither hiding nor
\* showing it.
LEMMA UpdateFrame ==
  ASSUME WritesAreOrdered, NEW id \in Ids, rows[id].status # "none",
         NEW row, row.status # "none", row.deleted = rows[id].deleted,
         rows' = rows \/ rows' = [rows EXCEPT ![id] = row]
  PROVE  /\ RowsGrow /\ NoNewRow
         /\ \A i \in Ids : rows'[i].deleted = rows[i].deleted
         /\ \A i \in Ids \ {id} : rows'[i] = rows[i]
<1>1. CASE rows' = rows
  BY <1>1 DEF RowsGrow, NoNewRow
<1>2. CASE rows' = [rows EXCEPT ![id] = row]
  <2>1. /\ rows'[id] = row
        /\ \A i \in Ids \ {id} : rows'[i] = rows[i]
    BY <1>2 DEF WritesAreOrdered, TypeOK
  <2>2. RowsGrow
    BY <2>1 DEF RowsGrow
  <2>3. NoNewRow
    BY <2>1 DEF NoNewRow, NoRow
  <2> QED
    BY <2>1, <2>2, <2>3
<1> QED
  BY <1>1, <1>2

LEMMA RecordResultStep ==
  ASSUME WritesAreOrdered, TypeOK', NEW w \in Workers, RecordResult(w)
  PROVE  WritesAreOrdered'
<1>1. job[w] \in Job
  BY BusyJob DEF WritesAreOrdered, RecordResult, JobPc
<1>2. PICK id \in Ids : id = job[w].id /\ rows[id].status # "none"
  BY <1>1 DEF WritesAreOrdered, ThumbsAreOrdered, RecordResult, Job
<1>3. PICK pc \in {"ack", "nack"} : Goto(w, pc)
  BY DEF RecordResult
<1>4. PICK row : /\ row.status # "none" /\ row.deleted = rows[id].deleted
                 /\ row.thumbs = Thumbs
                 /\ rows' = rows \/ rows' = [rows EXCEPT ![id] = row]
  <2>1. rows[id] \in Row
    BY DEF WritesAreOrdered, TypeOK
  <2>2. /\ Processed(rows[id], Thumbs).deleted = rows[id].deleted
        /\ Processed(rows[id], Thumbs).thumbs = Thumbs
        /\ Processed(rows[id], Thumbs).status # "none"
    BY <2>1 DEF Processed, Row
  <2>3. rows' = rows \/ rows' = [rows EXCEPT ![id] = Processed(rows[id], Thumbs)]
    BY <1>2 DEF RecordResult, UpdateProcessingResult
  <2> QED
    BY <2>2, <2>3
<1>5. ObjectsKept
  BY DEF RecordResult, ObjectsKept
<1>6. /\ RowsGrow /\ NoNewRow
      /\ \A i \in Ids : rows'[i].deleted = rows[i].deleted
      /\ \A i \in Ids \ {id} : rows'[i] = rows[i]
  BY <1>2, <1>4, UpdateFrame
<1>7. ThumbsAreOrdered'
  <2>1. \A v \in Workers : job[v].pc \in JobPc => job[v].id \in Ids
    BY BusyJob DEF WritesAreOrdered, Job
  <2>2. /\ job'[w].pc \in {"ack", "nack"}
        /\ \A v \in Workers \ {w} : job'[v] = job[v]
    BY <1>3 DEF WritesAreOrdered, TypeOK, Goto
  <2> QED
    BY <1>6, <2>1, <2>2 DEF WritesAreOrdered, ThumbsAreOrdered, RecordResult, RowsGrow, JobPc
<1>8. RemovalIsOrdered'
  BY <1>1, <1>3, <1>6, GotoRemoval DEF RecordResult, JobPc
<1>9. ActiveObjectsPresent'
  <2>1. Thumbs \subseteq stored[id] \/ rows[id].deleted
    BY <1>2 DEF WritesAreOrdered, ThumbsAreOrdered, RecordResult, Thumbs
  <2>2. \A i \in Ids : Active(i)' => Active(i)
    BY <1>2, <1>6 DEF Active
  <2>3. rows'[id].thumbs \subseteq rows[id].thumbs \cup Thumbs
    BY <1>4 DEF WritesAreOrdered, TypeOK
  <2> QED
    BY <2>1, <1>6, <2>2, <2>3 DEF WritesAreOrdered, ActiveObjectsPresent, Active, RecordResult
<1> QED
  BY <1>5, <1>6, <1>7, <1>8, <1>9, KeepsUpload, KeepsOnce DEF WritesAreOrdered, RecordResult

LEMMA RecordFailureStep ==
  ASSUME WritesAreOrdered, TypeOK', NEW w \in Workers, RecordFailure(w)
  PROVE  WritesAreOrdered'
<1>1. job[w] \in Job
  BY BusyJob DEF WritesAreOrdered, RecordFailure, JobPc
<1>2. PICK id \in Ids : id = job[w].id /\ rows[id].status # "none"
  BY <1>1 DEF WritesAreOrdered, ThumbsAreOrdered, RecordFailure, Job
<1>3. PICK pc \in {"ack", "nack"} : Goto(w, pc)
  BY DEF RecordFailure
<1>4. PICK row : /\ row.status # "none" /\ row.deleted = rows[id].deleted
                 /\ row.thumbs = {}
                 /\ rows' = rows \/ rows' = [rows EXCEPT ![id] = row]
  <2>1. rows[id] \in Row
    BY DEF WritesAreOrdered, TypeOK
  <2>2. /\ Processed(rows[id], {}).deleted = rows[id].deleted
        /\ Processed(rows[id], {}).thumbs = {}
        /\ Processed(rows[id], {}).status # "none"
    BY <2>1 DEF Processed, Row
  <2>3. rows' = rows \/ rows' = [rows EXCEPT ![id] = Processed(rows[id], {})]
    BY <1>2 DEF RecordFailure, UpdateProcessingResult
  <2> QED
    BY <2>2, <2>3
<1>5. ObjectsKept
  BY DEF RecordFailure, ObjectsKept
<1>6. /\ RowsGrow /\ NoNewRow
      /\ \A i \in Ids : rows'[i].deleted = rows[i].deleted
      /\ \A i \in Ids \ {id} : rows'[i] = rows[i]
  BY <1>2, <1>4, UpdateFrame
<1>7. ThumbsAreOrdered'
  <2>1. \A v \in Workers : job[v].pc \in JobPc => job[v].id \in Ids
    BY BusyJob DEF WritesAreOrdered, Job
  <2>2. /\ job'[w].pc \in {"ack", "nack"}
        /\ \A v \in Workers \ {w} : job'[v] = job[v]
    BY <1>3 DEF WritesAreOrdered, TypeOK, Goto
  <2> QED
    BY <1>6, <2>1, <2>2 DEF WritesAreOrdered, ThumbsAreOrdered, RecordFailure, RowsGrow, JobPc
<1>8. RemovalIsOrdered'
  BY <1>1, <1>3, <1>6, GotoRemoval DEF RecordFailure, JobPc
<1>9. ActiveObjectsPresent'
  <2>2. \A i \in Ids : Active(i)' => Active(i)
    BY <1>2, <1>6 DEF Active
  <2>3. rows'[id].thumbs \subseteq rows[id].thumbs \cup {}
    BY <1>4 DEF WritesAreOrdered, TypeOK
  <2> QED
    BY <1>6, <2>2, <2>3 DEF WritesAreOrdered, ActiveObjectsPresent, Active, RecordFailure
<1> QED
  BY <1>5, <1>6, <1>7, <1>8, <1>9, KeepsUpload, KeepsOnce DEF WritesAreOrdered, RecordFailure

LEMMA DeleteObjectStep ==
  ASSUME WritesAreOrdered, TypeOK', NEW w \in Workers, DeleteObject(w)
  PROVE  ObjectsKept /\ WritesAreOrdered'
<1>1. job[w] \in Job
  BY BusyJob DEF WritesAreOrdered, DeleteObject, RemoveObject, JobPc
<1>2. PICK id \in Ids : id = job[w].id /\ rows[id].deleted
  BY <1>1 DEF WritesAreOrdered, RemovalIsOrdered, DeleteObject, RemoveObject, Job
<1>3. RowsGrow /\ NoNewRow
  BY DEF DeleteObject, RemoveObject, RowsGrow, NoNewRow
<1>4. \A i \in Ids \ {id} : stored'[i] = stored[i]
  BY <1>2 DEF WritesAreOrdered, TypeOK, DeleteObject, RemoveObject
<1>5. ObjectsKept
  BY <1>2, <1>4 DEF ObjectsKept
<1>6. /\ \A v \in Workers : job'[v].id = job[v].id /\ job'[v].event = job[v].event
      /\ \A v \in Workers \ {w} : job'[v].pc = job[v].pc
      /\ job'[w].pc \in {"delete", "ack", "nack"}
  <2> DEFINE key == NextKey(job[w].todo)
             rest(pc) == [job[w] EXCEPT !.todo = @ \ {key}, !.pc = pc]
  <2>1. CASE Goto(w, "nack")
    BY <1>1, <2>1 DEF WritesAreOrdered, TypeOK, Goto, Job
  <2>2. CASE ~Goto(w, "nack")
    <3>1. PICK pc \in {"delete", "ack"} : job' = [job EXCEPT ![w] = rest(pc)]
      BY <2>2 DEF DeleteObject, RemoveObject
    <3>2. rest(pc).id = job[w].id /\ rest(pc).event = job[w].event /\ rest(pc).pc = pc
      BY <1>1 DEF Job
    <3> QED
      BY <3>1, <3>2 DEF WritesAreOrdered, TypeOK
  <2> QED
    BY <2>1, <2>2
<1>7. \A v \in Workers : job[v].pc # "idle" => job[v].id \in Ids
  BY DEF WritesAreOrdered, TypeOK, Job, NoJob
<1>8. ThumbsAreOrdered'
  BY <1>2, <1>4, <1>6, <1>7 DEF WritesAreOrdered, ThumbsAreOrdered, DeleteObject, RemoveObject
<1>9. RemovalIsOrdered'
  BY <1>6 DEF WritesAreOrdered, RemovalIsOrdered, DeleteObject, RemoveObject
<1> QED
  BY <1>3, <1>5, <1>8, <1>9, KeepsUpload, KeepsActive, KeepsOnce
  DEF WritesAreOrdered, DeleteObject, RemoveObject

LEMMA AckStep ==
  ASSUME WritesAreOrdered, TypeOK', NEW w \in Workers, Ack(w)
  PROVE  WritesAreOrdered'
<1>1. ThumbsAreOrdered'
  BY DEF WritesAreOrdered, TypeOK, ThumbsAreOrdered, Ack, Finish, NoJob
<1>2. RemovalIsOrdered'
  BY DEF WritesAreOrdered, TypeOK, RemovalIsOrdered, Ack, Finish, NoJob, Job
<1> QED
  BY <1>1, <1>2, Untouched, KeepsUpload, KeepsActive, KeepsOnce DEF WritesAreOrdered, Ack

LEMMA NackStep ==
  ASSUME WritesAreOrdered, TypeOK', NEW w \in Workers, Nack(w)
  PROVE  WritesAreOrdered'
<1>1. ThumbsAreOrdered'
  BY DEF WritesAreOrdered, TypeOK, ThumbsAreOrdered, Nack, Finish, NoJob
<1>2. RemovalIsOrdered'
  BY DEF WritesAreOrdered, TypeOK, RemovalIsOrdered, Nack, Finish, Enqueue, NoJob, Job, Events
<1> QED
  BY <1>1, <1>2, Untouched, KeepsUpload, KeepsActive, KeepsOnce DEF WritesAreOrdered, Nack

LEMMA WorkerCrashesStep ==
  ASSUME WritesAreOrdered, TypeOK', NEW w \in Workers, WorkerCrashes(w)
  PROVE  WritesAreOrdered'
<1>1. ThumbsAreOrdered'
  BY DEF WritesAreOrdered, TypeOK, ThumbsAreOrdered, WorkerCrashes, NoJob
<1>2. RemovalIsOrdered'
  BY DEF WritesAreOrdered, TypeOK, RemovalIsOrdered, WorkerCrashes, Requeued, NoJob, Events
<1> QED
  BY <1>1, <1>2, Untouched, KeepsUpload, KeepsActive, KeepsOnce
  DEF WritesAreOrdered, WorkerCrashes

\* A worker changing its mode disturbs nothing.
LEMMA ModeStep ==
  ASSUME WritesAreOrdered, TypeOK', NEW w \in Workers, StopWorker(w) \/ WorkerRestarts(w)
  PROVE  WritesAreOrdered'
  BY Untouched, KeepsUpload, KeepsThumbs, KeepsRemoval, KeepsActive, KeepsOnce
  DEF WritesAreOrdered, StopWorker, WorkerRestarts

-----------------------------------------------------------------------------
(* The theorems. *)

LEMMA OrderedInit == Init => WritesAreOrdered
<1> SUFFICES ASSUME Init PROVE WritesAreOrdered
  OBVIOUS
<1>1. TypeOK
  BY InitTypeOK
<1>2. UploadIsOrdered
  BY DEF Init, UploadIsOrdered
<1>3. ThumbsAreOrdered
  BY DEF Init, ThumbsAreOrdered, NoJob
<1>4. RemovalIsOrdered
  BY LifecycleAssumption DEF Init, RemovalIsOrdered, NoJob, Events
<1>5. ActiveObjectsPresent
  BY DEF Init, ActiveObjectsPresent, Active, NoRow
<1>6. DeleteSucceedsOnce
  BY DEF Init, DeleteSucceedsOnce
<1> QED
  BY <1>1, <1>2, <1>3, <1>4, <1>5, <1>6 DEF WritesAreOrdered

LEMMA OrderedStep == WritesAreOrdered /\ [Next]_vars => WritesAreOrdered'
<1> SUFFICES ASSUME WritesAreOrdered, [Next]_vars PROVE WritesAreOrdered'
  OBVIOUS
<1>1. TypeOK'
  BY TypeStep DEF WritesAreOrdered
<1>2. CASE \E id \in Ids : Upload(id)
  BY <1>1, <1>2, UploadPutStep, UploadCreateStep, UploadPublishStep, UploadMarkFailedStep,
     UploadDiesStep DEF Upload
<1>3. CASE \E r \in Requests : Delete(r)
  BY <1>1, <1>3, DeleteGetStep, DeleteSoftStep, DeletePublishStep, DeleteDiesStep DEF Delete
<1>4. CASE \E w \in Workers : Broker(w)
  BY <1>1, <1>4, DeliverStep, ConnectionLostStep DEF Broker
<1>5. CASE \E w \in Workers : Handler(w)
  BY <1>1, <1>5, HandleUploadStep, HandleDeleteStep, GetOriginalStep, PutThumb100Step,
     PutThumb300Step, RecordResultStep, RecordFailureStep, DeleteObjectStep, AckStep,
     NackStep, ModeStep DEF Handler
<1>6. CASE \E w \in Workers : Process(w)
  BY <1>1, <1>6, ModeStep, WorkerCrashesStep DEF Process
<1>7. CASE UNCHANGED vars
  BY <1>1, <1>7, Untouched, KeepsUpload, KeepsThumbs, KeepsRemoval, KeepsActive, KeepsOnce
  DEF WritesAreOrdered, vars
<1> QED
  BY <1>2, <1>3, <1>4, <1>5, <1>6, <1>7 DEF Next

\* In every reachable state of every instance, requests, messages, handlers,
\* rows and objects are in the order WritesAreOrdered states.
THEOREM OrderInvariant == Spec => []WritesAreOrdered
  BY OrderedInit, OrderedStep, PTL DEF Spec

\* What the API shows is in the bucket: for every number of avatars,
\* workers, requests and faults.
THEOREM ActiveObjectsArePresent == Spec => []ActiveObjectsPresent
<1>1. WritesAreOrdered => ActiveObjectsPresent
  BY DEF WritesAreOrdered
<1> QED
  BY <1>1, OrderInvariant, PTL

\* Of concurrent deletes of an avatar at most one is answered 204.
THEOREM DeletesSucceedOnce == Spec => []DeleteSucceedsOnce
<1>1. WritesAreOrdered => DeleteSucceedsOnce
  BY DEF WritesAreOrdered
<1> QED
  BY <1>1, OrderInvariant, PTL

LEMMA ObjectsKeptStep == WritesAreOrdered /\ [Next]_vars => ObjectsKept
<1> SUFFICES ASSUME WritesAreOrdered, [Next]_vars PROVE ObjectsKept
  OBVIOUS
<1>1. ASSUME NEW w \in Workers, DeleteObject(w) PROVE ObjectsKept
  BY <1>1, TypeStep, DeleteObjectStep DEF WritesAreOrdered
<1>2. ASSUME NEW id \in Ids, UploadPut(id) PROVE ObjectsKept
  BY <1>2 DEF WritesAreOrdered, TypeOK, UploadPut, PutObject, ObjectsKept
<1>3. ASSUME NEW w \in Workers, PutThumb100(w) \/ PutThumb300(w) PROVE ObjectsKept
  BY <1>3 DEF WritesAreOrdered, TypeOK, PutThumb100, PutThumb300, PutThumb, PutObject, ObjectsKept
<1>4. CASE UNCHANGED stored
  BY <1>4 DEF ObjectsKept
<1>5. CASE \E id \in Ids : Upload(id)
  BY <1>2, <1>4, <1>5 DEF Upload, UploadCreate, CreateRow, UploadPublish, UploadMarkFailed, MarkPublishFailed, UploadDies
<1>6. CASE \E r \in Requests : Delete(r)
  BY <1>4, <1>6 DEF Delete, DeleteGet, DeleteSoft, DeletePublish, DeleteDies
<1>7. CASE \E w \in Workers : Broker(w) \/ Process(w)
  BY <1>4, <1>7 DEF Broker, Deliver, ConnectionLost, Process, StopWorker, WorkerCrashes
<1>8. CASE \E w \in Workers : Handler(w)
  BY <1>1, <1>3, <1>4, <1>8
  DEF Handler, HandleUpload, HandleDelete, GetOriginal, RecordResult, RecordFailure, Ack,
      Nack, WorkerRestarts
<1>9. CASE UNCHANGED vars
  BY <1>4, <1>9 DEF vars
<1> QED
  BY <1>5, <1>6, <1>7, <1>8, <1>9 DEF Next

\* The workers remove an object only after the soft delete of its row.
THEOREM RemovalIsAfterSoftDelete == Spec => RemovalFollowsSoftDelete
<1>1. WritesAreOrdered /\ [Next]_vars
        => [\A id \in Ids : stored[id] \subseteq stored'[id] \/ rows[id].deleted]_vars
  BY ObjectsKeptStep DEF ObjectsKept
<1> QED
  BY <1>1, OrderInvariant, PTL DEF Spec, RemovalFollowsSoftDelete

-----------------------------------------------------------------------------
(* The lifecycle implements the contract with clients.                     *)

Phases   == [id \in Ids |-> Phase(id)]
Offers   == [id \in Ids |-> Offered(id)]
Answered == {r \in Requests : deletes[r] = "no_content"}

\* Beyond the order of writes: whoever is about to delete is the owner.
OwnersDelete ==
  \A r \in Requests : deletes[r] \in {"soft_delete", "publish"} => r.by = Owner[r.id]

\* Only a row that exists is marked deleted.
DeletedExist == \A id \in Ids : rows[id].deleted => rows[id].status # "none"

Visible == WritesAreOrdered /\ OwnersDelete /\ DeletedExist

LEMMA VisibleInit == Init => Visible
<1>1. Init => OwnersDelete /\ DeletedExist
  BY DEF Init, OwnersDelete, DeletedExist, NoRow
<1> QED
  BY <1>1, OrderedInit DEF Visible

LEMMA OwnersStep == TypeOK /\ OwnersDelete /\ [Next]_vars => OwnersDelete'
<1> SUFFICES ASSUME TypeOK, OwnersDelete, [Next]_vars PROVE OwnersDelete'
  OBVIOUS
<1>1. CASE UNCHANGED deletes
  BY <1>1 DEF OwnersDelete
<1>2. ASSUME NEW r \in Requests, DeleteGet(r) PROVE OwnersDelete'
  BY <1>2 DEF TypeOK, OwnersDelete, DeleteGet, AfterCheck
<1>3. ASSUME NEW r \in Requests, DeleteSoft(r) PROVE OwnersDelete'
  BY <1>3 DEF TypeOK, OwnersDelete, DeleteSoft
<1>4. ASSUME NEW r \in Requests, DeletePublish(r) \/ DeleteDies(r) PROVE OwnersDelete'
  BY <1>4 DEF TypeOK, OwnersDelete, DeletePublish, DeleteDies
<1>5. CASE \E id \in Ids : Upload(id)
  BY <1>1, <1>5 DEF Upload, UploadPut, UploadCreate, UploadPublish, UploadMarkFailed, UploadDies
<1>6. CASE \E w \in Workers : Broker(w) \/ Process(w)
  BY <1>1, <1>6 DEF Broker, Deliver, ConnectionLost, Process, StopWorker, WorkerCrashes
<1>7. CASE \E w \in Workers : Handler(w)
  BY <1>1, <1>7
  DEF Handler, HandleUpload, HandleDelete, GetOriginal, PutThumb100, PutThumb300, PutThumb,
      RecordResult, RecordFailure, DeleteObject, Ack, Nack, WorkerRestarts
<1>8. CASE UNCHANGED vars
  BY <1>1, <1>8 DEF vars
<1> QED
  BY <1>2, <1>3, <1>4, <1>5, <1>6, <1>7, <1>8 DEF Next, Delete

LEMMA DeletedStep == TypeOK /\ DeletedExist /\ [Next]_vars => DeletedExist'
<1> SUFFICES ASSUME TypeOK, DeletedExist, [Next]_vars PROVE DeletedExist'
  OBVIOUS
<1>1. CASE UNCHANGED rows
  BY <1>1 DEF DeletedExist
<1>2. ASSUME NEW id \in Ids, UploadCreate(id) \/ UploadMarkFailed(id) PROVE DeletedExist'
  <2>1. rows \in [Ids -> Row]
    BY DEF TypeOK
  <2>2. rows' = rows \/ CreateRow(id) \/ MarkPublishFailed(id)
    BY <1>2 DEF UploadCreate, UploadMarkFailed
  <2>3. CASE CreateRow(id)
    <3>1. ~rows'[id].deleted /\ \A i \in Ids \ {id} : rows'[i] = rows[i]
      BY <2>1, <2>3 DEF CreateRow, NoRow
    <3> QED
      BY <3>1 DEF DeletedExist
  <2>4. CASE MarkPublishFailed(id)
    <3>1. rows'[id].status = "failed" /\ \A i \in Ids \ {id} : rows'[i] = rows[i]
      BY <2>1, <2>4 DEF MarkPublishFailed, Row
    <3> QED
      BY <3>1 DEF DeletedExist
  <2> QED
    BY <1>1, <2>2, <2>3, <2>4
<1>3. ASSUME NEW r \in Requests, DeleteSoft(r) PROVE DeletedExist'
  BY <1>3, LifecycleAssumption
  DEF LifecycleAssumption, TypeOK, DeletedExist, DeleteSoft, SoftDeleteMatches, Row
<1>4. ASSUME NEW w \in Workers, RecordResult(w) \/ RecordFailure(w) PROVE DeletedExist'
  <2>1. job[w].id \in Ids /\ rows \in [Ids -> Row]
    BY <1>4, BusyJob DEF TypeOK, JobPc, Job, RecordResult, RecordFailure
  <2>2. rows' = rows \/ \E keys \in {{}, Thumbs} : UpdateProcessingResult(job[w].id, keys)
    BY <1>4 DEF RecordResult, RecordFailure
  <2>3. ASSUME NEW keys \in {{}, Thumbs}, UpdateProcessingResult(job[w].id, keys)
        PROVE  DeletedExist'
    <3>1. /\ rows'[job[w].id].status \in {"completed", "failed"}
          /\ \A i \in Ids \ {job[w].id} : rows'[i] = rows[i]
      BY <2>1, <2>3 DEF UpdateProcessingResult, Processed, Row
    <3> QED
      BY <3>1 DEF DeletedExist
  <2> QED
    BY <1>1, <2>2, <2>3
<1>5. CASE \E id \in Ids : Upload(id)
  BY <1>1, <1>2, <1>5 DEF Upload, UploadPut, UploadPublish, UploadDies
<1>6. CASE \E r \in Requests : Delete(r)
  BY <1>1, <1>3, <1>6 DEF Delete, DeleteGet, DeletePublish, DeleteDies
<1>7. CASE \E w \in Workers : Broker(w) \/ Process(w)
  BY <1>1, <1>7 DEF Broker, Deliver, ConnectionLost, Process, StopWorker, WorkerCrashes
<1>8. CASE \E w \in Workers : Handler(w)
  BY <1>1, <1>4, <1>8
  DEF Handler, HandleUpload, HandleDelete, GetOriginal, PutThumb100, PutThumb300, PutThumb,
      DeleteObject, Ack, Nack, WorkerRestarts
<1>9. CASE UNCHANGED vars
  BY <1>1, <1>9 DEF vars
<1> QED
  BY <1>5, <1>6, <1>7, <1>8, <1>9 DEF Next

LEMMA VisibleStep == Visible /\ [Next]_vars => Visible'
BY OrderedStep, OwnersStep, DeletedStep DEF Visible, WritesAreOrdered

-----------------------------------------------------------------------------
(* Steps that a client cannot see, and the parts of a step he can.         *)

LEMMA SameRows == UNCHANGED rows => UNCHANGED <<Phases, Offers>>
BY DEF Phases, Offers, Phase, Offered, Active

LEMMA SameAnswers == UNCHANGED deletes => UNCHANGED Answered
BY DEF Answered

LEMMA Stutter ==
  ASSUME UNCHANGED <<Phases, Offers, stored, Answered>>
  PROVE  UNCHANGED Contract!contractVars
BY DEF Contract!contractVars, Phases, Offers, Answered

LEMMA Invisible ==
  ASSUME UNCHANGED <<rows, stored, deletes>> PROVE UNCHANGED Contract!contractVars
BY SameRows, SameAnswers, Stutter

LEMMA ObjectNames == Objects = Contract!Variants
BY DEF Objects, Thumbs, Contract!Variants

\* A step on the bucket alone that adds an object.
LEMMA KeepStep ==
  ASSUME NEW id \in Ids, NEW v \in Objects, UNCHANGED <<rows, deletes>>, PutObject(id, v)
  PROVE  [Contract!Next]_Contract!contractVars
<1>1. UNCHANGED <<Phases, Offers, Answered>>
  BY SameRows, SameAnswers
<1>2. Contract!Keep(id)
  BY <1>1, ObjectNames DEF Contract!Keep, PutObject, Phases, Offers, Answered
<1> QED
  BY <1>2 DEF Contract!Next

\* A step on the bucket alone that removes an object of a hidden avatar.
LEMMA RemoveStep ==
  ASSUME NEW id \in Ids, NEW v \in Objects, UNCHANGED <<rows, deletes>>, RemoveObject(id, v),
         rows[id].deleted, rows[id].status # "none"
  PROVE  [Contract!Next]_Contract!contractVars
<1>1. UNCHANGED <<Phases, Offers, Answered>>
  BY SameRows, SameAnswers
<1>2. Phases[id] = "hidden"
  BY DEF Phases, Phase, Active
<1>3. Contract!Remove(id)
  BY <1>1, <1>2, ObjectNames DEF Contract!Remove, RemoveObject, Phases, Offers, Answered
<1> QED
  BY <1>3 DEF Contract!Next

-----------------------------------------------------------------------------
(* Every step is one of the contract, or none a client can see.            *)

LEMMA PutRefines ==
  ASSUME Visible, NEW id \in Ids, UploadPut(id)
  PROVE  [Contract!Next]_Contract!contractVars
<1>1. UNCHANGED <<rows, deletes>> /\ (PutObject(id, "original") \/ UNCHANGED stored)
  BY DEF UploadPut
<1>2. CASE PutObject(id, "original")
  BY <1>1, <1>2, KeepStep DEF Objects
<1>3. CASE UNCHANGED stored
  BY <1>1, <1>3, Invisible
<1> QED
  BY <1>1, <1>2, <1>3

LEMMA CreateRefines ==
  ASSUME Visible, NEW id \in Ids, UploadCreate(id)
  PROVE  [Contract!Next]_Contract!contractVars
<1>1. UNCHANGED <<stored, deletes>> /\ (CreateRow(id) \/ UNCHANGED rows)
  BY DEF UploadCreate
<1>2. CASE CreateRow(id)
  <2>1. rows[id] = NoRow /\ "original" \in stored[id]
    BY DEF Visible, WritesAreOrdered, UploadIsOrdered, UploadCreate
  <2>2. rows \in [Ids -> Row]
    BY DEF Visible, WritesAreOrdered, TypeOK
  <2>3. /\ rows'[id].status = "processing" /\ rows'[id].thumbs = {} /\ ~rows'[id].deleted
        /\ \A i \in Ids \ {id} : rows'[i] = rows[i]
    BY <1>2, <2>2 DEF CreateRow, NoRow
  <2>4. rows[id].status = "none"
    BY <2>1 DEF NoRow
  <2>5. Phases[id] = "unborn" /\ Phases' = [Phases EXCEPT ![id] = "shown"]
    <3>1. Phase(id) = "unborn" /\ Phase(id)' = "shown"
      BY <2>3, <2>4 DEF Phase, Active
    <3>2. \A i \in Ids \ {id} : Phase(i)' = Phase(i)
      BY <2>3 DEF Phase, Active
    <3> QED
      BY <3>1, <3>2 DEF Phases
  <2>6. Offers' = [Offers EXCEPT ![id] = {"original"}]
    <3>1. Offered(id)' = {"original"}
      BY <2>3 DEF Offered, Active
    <3>2. \A i \in Ids \ {id} : Offered(i)' = Offered(i)
      BY <2>3 DEF Offered, Active
    <3> QED
      BY <3>1, <3>2 DEF Offers
  <2>7. Contract!Show(id)
    BY <1>1, <2>1, <2>5, <2>6, SameAnswers DEF Contract!Show, Phases, Offers, Answered
  <2> QED
    BY <2>7 DEF Contract!Next
<1>3. CASE UNCHANGED rows
  BY <1>1, <1>3, Invisible
<1> QED
  BY <1>1, <1>2, <1>3

\* "failed" is a status, not a change of what can be read.
LEMMA MarkRefines ==
  ASSUME Visible, NEW id \in Ids, UploadMarkFailed(id)
  PROVE  [Contract!Next]_Contract!contractVars
<1>1. UNCHANGED <<stored, deletes>> /\ (MarkPublishFailed(id) \/ UNCHANGED rows)
  BY DEF UploadMarkFailed
<1>2. CASE MarkPublishFailed(id)
  <2>1. rows[id].status # "none"
    BY DEF Visible, WritesAreOrdered, UploadIsOrdered, UploadMarkFailed
  <2>2. rows \in [Ids -> Row]
    BY DEF Visible, WritesAreOrdered, TypeOK
  <2>3. UNCHANGED <<Phases, Offers>>
    BY <1>2, <2>1, <2>2 DEF MarkPublishFailed, Phases, Phase, Offers, Offered, Active, Row
  <2> QED
    BY <1>1, <2>3, SameAnswers, Stutter
<1>3. CASE UNCHANGED rows
  BY <1>1, <1>3, Invisible
<1> QED
  BY <1>1, <1>2, <1>3

\* UpdateProcessingResult offers both thumbnails or none.
LEMMA ResultRefines ==
  ASSUME Visible, NEW id \in Ids, NEW keys \in {{}, Thumbs}, rows[id].status # "none",
         UpdateProcessingResult(id, keys), UNCHANGED <<stored, deletes>>,
         rows[id].deleted \/ {"original"} \cup keys \subseteq stored[id]
  PROVE  [Contract!Next]_Contract!contractVars
<1>1. rows \in [Ids -> Row]
  BY DEF Visible, WritesAreOrdered, TypeOK
<1>2. rows' = [rows EXCEPT ![id] = Processed(rows[id], keys)]
  BY DEF UpdateProcessingResult
<1>3. /\ rows'[id].deleted = rows[id].deleted
      /\ rows'[id].thumbs = keys
      /\ rows'[id].status # "none"
      /\ \A i \in Ids \ {id} : rows'[i] = rows[i]
  BY <1>1, <1>2 DEF Processed, Row
<1>4. Phases' = Phases
  BY <1>3 DEF Phases, Phase, Active
<1>5. CASE rows[id].deleted
  <2>1. Offers' = Offers
    BY <1>3, <1>5 DEF Offers, Offered, Active
  <2> QED
    BY <1>4, <2>1, SameAnswers, Stutter
<1>6. CASE ~rows[id].deleted
  <2>1. Phases[id] = "shown"
    BY <1>6 DEF Phases, Phase, Active
  <2>2. Offers' = [Offers EXCEPT ![id] = {"original"} \cup keys]
    <3>1. Offers'[id] = {"original"} \cup keys
      BY <1>3, <1>6 DEF Offers, Offered, Active
    <3>2. \A i \in Ids \ {id} : Offers'[i] = Offers[i]
      BY <1>3 DEF Offers, Offered, Active
    <3> QED
      BY <3>1, <3>2 DEF Offers
  <2>3. {"original"} \cup keys \in {{"original"}, Contract!Variants}
    BY ObjectNames DEF Objects
  <2>4. Contract!Offer(id)
    BY <1>4, <1>6, <2>1, <2>2, <2>3, SameAnswers DEF Contract!Offer, Phases, Offers, Answered
  <2> QED
    BY <2>4 DEF Contract!Next
<1> QED
  BY <1>5, <1>6

LEMMA RecordRefines ==
  ASSUME Visible, NEW w \in Workers, RecordResult(w) \/ RecordFailure(w)
  PROVE  [Contract!Next]_Contract!contractVars
<1> DEFINE id == job[w].id
<1>1. job[w].pc \in {"record", "record_failed"}
  BY DEF RecordResult, RecordFailure
<1>2. id \in Ids
  BY <1>1, BusyJob DEF Visible, WritesAreOrdered, JobPc, Job
<1>3. rows[id].status # "none"
  BY <1>1 DEF Visible, WritesAreOrdered, ThumbsAreOrdered
<1>4. ~rows[id].deleted => {"original"} \cup rows[id].thumbs \subseteq stored[id]
  BY <1>2, <1>3 DEF Visible, WritesAreOrdered, ActiveObjectsPresent, Active
<1>5. UNCHANGED <<stored, deletes>>
  BY DEF RecordResult, RecordFailure
<1>6. CASE UNCHANGED rows
  BY <1>5, <1>6, Invisible
<1>7. CASE RecordResult(w) /\ UpdateProcessingResult(id, Thumbs)
  <2>1. rows[id].deleted \/ Thumbs \subseteq stored[id]
    BY <1>7 DEF RecordResult, Visible, WritesAreOrdered, ThumbsAreOrdered, Thumbs
  <2> QED
    BY <1>2, <1>3, <1>4, <1>5, <1>7, <2>1, ResultRefines
<1>8. CASE RecordFailure(w) /\ UpdateProcessingResult(id, {})
  BY <1>2, <1>3, <1>4, <1>5, <1>8, ResultRefines
<1> QED
  BY <1>6, <1>7, <1>8 DEF RecordResult, RecordFailure

LEMMA ThumbRefines ==
  ASSUME Visible, NEW w \in Workers, PutThumb100(w) \/ PutThumb300(w)
  PROVE  [Contract!Next]_Contract!contractVars
<1>1. PICK thumb \in Thumbs : PutObject(job[w].id, thumb) \/ UNCHANGED stored
  BY DEF PutThumb100, PutThumb300, PutThumb, Thumbs
<1>2. UNCHANGED <<rows, deletes>> /\ job[w].pc \in {"put100", "put300"}
  BY DEF PutThumb100, PutThumb300, PutThumb
<1>3. job[w].id \in Ids
  BY <1>2, BusyJob DEF Visible, WritesAreOrdered, JobPc, Job
<1> QED
  BY <1>1, <1>2, <1>3, KeepStep, Invisible DEF Objects

LEMMA DeleteObjectRefines ==
  ASSUME Visible, NEW w \in Workers, DeleteObject(w)
  PROVE  [Contract!Next]_Contract!contractVars
<1> DEFINE id  == job[w].id
           key == NextKey(job[w].todo)
<1>1. job[w].pc = "delete" /\ UNCHANGED <<rows, deletes>>
  BY DEF DeleteObject
<1>2. id \in Ids
  BY <1>1, BusyJob DEF Visible, WritesAreOrdered, JobPc, Job
<1>3. rows[id].deleted
  BY <1>1 DEF Visible, WritesAreOrdered, RemovalIsOrdered
<1>4. RemoveObject(id, key) \/ UNCHANGED stored
  BY DEF DeleteObject
<1>5. key \in Objects
  BY DEF NextKey, Objects, Thumbs
<1>6. rows[id].status # "none"
  BY <1>2, <1>3 DEF Visible, DeletedExist
<1> QED
  BY <1>1, <1>2, <1>3, <1>4, <1>5, <1>6, RemoveStep, Invisible

\* The soft delete hides the avatar; its caller is the owner.
LEMMA SoftRefines ==
  ASSUME Visible, NEW r \in Requests, DeleteSoft(r)
  PROVE  [Contract!Next]_Contract!contractVars
<1>1. r.id \in Ids
  BY LifecycleAssumption DEF LifecycleAssumption
<1>2. UNCHANGED stored
  BY DEF DeleteSoft
<1>3. UNCHANGED Answered
  <2>1. deletes \in [Requests -> DeleteState] /\ deletes[r] = "soft_delete"
    BY DEF Visible, WritesAreOrdered, TypeOK, DeleteSoft
  <2>2. PICK d \in {"error", "publish", "not_found"} : deletes' = [deletes EXCEPT ![r] = d]
    BY DEF DeleteSoft
  <2> QED
    BY <2>1, <2>2 DEF Answered
<1>4. CASE UNCHANGED rows
  BY <1>2, <1>3, <1>4, SameRows, Stutter
<1>5. CASE SoftDeleteMatches(rows[r.id]) /\ rows' = [rows EXCEPT ![r.id].deleted = TRUE]
  <2>1. rows \in [Ids -> Row]
    BY DEF Visible, WritesAreOrdered, TypeOK
  <2>2. /\ rows'[r.id].deleted /\ rows'[r.id].status = rows[r.id].status
        /\ \A i \in Ids \ {r.id} : rows'[i] = rows[i]
    BY <1>1, <1>5, <2>1 DEF Row
  <2>3. rows[r.id].status # "none" /\ ~rows[r.id].deleted
    BY <1>5 DEF SoftDeleteMatches
  <2>4. Phases[r.id] = "shown" /\ Phases' = [Phases EXCEPT ![r.id] = "hidden"]
    <3>1. Phase(r.id) = "shown" /\ Phase(r.id)' = "hidden"
      BY <2>2, <2>3 DEF Phase, Active
    <3>2. \A i \in Ids \ {r.id} : Phase(i)' = Phase(i)
      BY <2>2 DEF Phase, Active
    <3> QED
      BY <1>1, <3>1, <3>2 DEF Phases
  <2>5. Offers' = [Offers EXCEPT ![r.id] = {}]
    <3>1. Offered(r.id)' = {}
      BY <2>2 DEF Offered, Active
    <3>2. \A i \in Ids \ {r.id} : Offered(i)' = Offered(i)
      BY <2>2 DEF Offered, Active
    <3> QED
      BY <3>1, <3>2 DEF Offers
  <2>6. r.by = Owner[r.id]
    BY DEF Visible, OwnersDelete, DeleteSoft
  <2>7. Contract!Hide(r)
    BY <1>2, <1>3, <2>4, <2>5, <2>6 DEF Contract!Hide, Phases, Offers, Answered
  <2> QED
    BY <2>7 DEF Contract!Next
<1> QED
  BY <1>4, <1>5 DEF DeleteSoft

\* 204 comes after the soft delete, to the request that made it.
LEMMA AnswerRefines ==
  ASSUME Visible, NEW r \in Requests, DeletePublish(r)
  PROVE  [Contract!Next]_Contract!contractVars
<1>1. /\ UNCHANGED <<rows, stored>> /\ deletes[r] = "publish"
      /\ deletes' = [deletes EXCEPT ![r] = "no_content"]
      /\ deletes \in [Requests -> DeleteState]
  BY DEF Visible, WritesAreOrdered, TypeOK, DeletePublish
<1>2. r.id \in Ids
  BY LifecycleAssumption DEF LifecycleAssumption
<1>3. Phases[r.id] = "hidden"
  <2>1. rows[r.id].deleted
    BY <1>1 DEF Visible, WritesAreOrdered, RemovalIsOrdered
  <2> QED
    BY <1>2, <2>1 DEF Visible, DeletedExist, Phases, Phase, Active
<1>4. \A s \in Answered : s.id # r.id
  BY <1>1 DEF Visible, WritesAreOrdered, DeleteSucceedsOnce, Answered
<1>5. Answered' = Answered \cup {r}
  BY <1>1 DEF Answered
<1>6. r.by = Owner[r.id]
  BY <1>1 DEF Visible, OwnersDelete
<1>7. Contract!Answer(r)
  BY <1>1, <1>3, <1>4, <1>5, <1>6, SameRows DEF Contract!Answer, Phases, Offers, Answered
<1> QED
  BY <1>7 DEF Contract!Next

LEMMA OtherDeletesRefine ==
  ASSUME Visible, NEW r \in Requests, DeleteGet(r) \/ DeleteDies(r)
  PROVE  [Contract!Next]_Contract!contractVars
<1>1. UNCHANGED <<rows, stored>> /\ deletes[r] # "no_content" /\ deletes \in [Requests -> DeleteState]
  BY DEF Visible, WritesAreOrdered, TypeOK, DeleteGet, DeleteDies
<1>2. PICK d \in DeleteState \ {"no_content"} : deletes' = [deletes EXCEPT ![r] = d]
  BY DEF DeleteGet, DeleteDies, AfterCheck, DeleteState
<1>3. UNCHANGED Answered
  BY <1>1, <1>2 DEF Answered
<1> QED
  BY <1>1, <1>3, SameRows, Stutter

LEMMA StepRefines == Visible /\ [Next]_vars => [Contract!Next]_Contract!contractVars
<1> SUFFICES ASSUME Visible, [Next]_vars PROVE [Contract!Next]_Contract!contractVars
  OBVIOUS
<1>1. CASE UNCHANGED <<rows, stored, deletes>>
  BY <1>1, Invisible
<1>2. CASE \E id \in Ids : Upload(id)
  BY <1>1, <1>2, PutRefines, CreateRefines, MarkRefines DEF Upload, UploadPublish, UploadDies
<1>3. CASE \E r \in Requests : Delete(r)
  BY <1>3, SoftRefines, AnswerRefines, OtherDeletesRefine DEF Delete
<1>4. CASE \E w \in Workers : Broker(w) \/ Process(w)
  BY <1>1, <1>4 DEF Broker, Deliver, ConnectionLost, Process, StopWorker, WorkerCrashes
<1>5. CASE \E w \in Workers : Handler(w)
  BY <1>1, <1>5, RecordRefines, ThumbRefines, DeleteObjectRefines
  DEF Handler, HandleUpload, HandleDelete, GetOriginal, Ack, Nack, WorkerRestarts
<1>6. CASE UNCHANGED vars
  BY <1>1, <1>6 DEF vars
<1> QED
  BY <1>2, <1>3, <1>4, <1>5, <1>6 DEF Next

LEMMA InitRefines == Init => Contract!Init
BY DEF Init, Contract!Init, Phase, Offered, Active, NoRow

\* Whatever uploads, deletes, workers, broker and faults do, a client sees a
\* behaviour of the contract: AvatarService and the two handlers implement
\* it, for every number of avatars, requests, workers and faults.
THEOREM LifecycleImplementsContract == Spec => ImplementsContract
<1>1. Spec => []Visible
  BY VisibleInit, VisibleStep, PTL DEF Spec
<1> QED
  BY <1>1, InitRefines, StepRefines, PTL DEF Spec, ImplementsContract, Contract!Spec

=============================================================================
