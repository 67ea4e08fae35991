-------------------------- MODULE AvatarQueries_proofs --------------------------
EXTENDS AvatarQueries, AvatarLifecycle_proofs

\* The requests only read: they leave the life of avatars as it is.
THEOREM QueriesKeepLifecycle == QuerySpec => Spec
<1>1. QueryInit => Init
  BY DEF QueryInit
<1>2. [QueryNext]_allVars => [Next]_vars
  BY DEF QueryNext, LifecycleStep, Next, allVars
<1> QED
  BY <1>1, <1>2, PTL DEF QuerySpec, Spec

-----------------------------------------------------------------------------
(* What the life of avatars promises a request that reads it step by step. *)

DeletedStays == \A id \in Ids : rows[id].deleted => rows'[id].deleted

LEMMA DeletedStaysStep == WritesAreOrdered /\ [Next]_vars => DeletedStays
<1> SUFFICES ASSUME WritesAreOrdered, [Next]_vars PROVE DeletedStays
  OBVIOUS
<1> USE DEF WritesAreOrdered
<1>1. CASE UNCHANGED rows
  BY <1>1 DEF DeletedStays
<1>2. ASSUME NEW id \in Ids, UploadCreate(id) PROVE DeletedStays
  <2>1. ~rows[id].deleted
    BY <1>2 DEF UploadIsOrdered, UploadCreate, NoRow
  <2> QED
    BY <1>2, <2>1 DEF UploadCreate, CreateRow, TypeOK, DeletedStays
<1>3. ASSUME NEW id \in Ids, UploadMarkFailed(id) PROVE DeletedStays
  BY <1>3 DEF UploadMarkFailed, MarkPublishFailed, TypeOK, Row, DeletedStays
<1>4. ASSUME NEW r \in Requests, DeleteSoft(r) PROVE DeletedStays
  BY <1>4, LifecycleAssumption DEF DeleteSoft, TypeOK, Row, DeletedStays
<1>5. ASSUME NEW w \in Workers, RecordResult(w) \/ RecordFailure(w) PROVE DeletedStays
  <2>1. job[w].id \in Ids
    BY <1>5, BusyJob DEF RecordResult, RecordFailure, JobPc, Job
  <2>2. PICK id \in Ids : id = job[w].id
    BY <2>1
  <2>3. PICK keys \in SUBSET Thumbs :
          rows' = rows \/ rows' = [rows EXCEPT ![id] = Processed(rows[id], keys)]
    BY <1>5, <2>2 DEF RecordResult, RecordFailure, UpdateProcessingResult
  <2>4. Processed(rows[id], keys).deleted = rows[id].deleted
    BY DEF Processed, TypeOK, Row
  <2> QED
    BY <2>3, <2>4 DEF TypeOK, DeletedStays
<1>6. CASE \E id \in Ids : Upload(id)
  BY <1>1, <1>2, <1>3, <1>6 DEF Upload, UploadPut, UploadPublish, UploadDies
<1>7. CASE \E r \in Requests : Delete(r)
  BY <1>1, <1>4, <1>7 DEF Delete, DeleteGet, DeletePublish, DeleteDies
<1>8. CASE \E w \in Workers : Broker(w) \/ Process(w)
  BY <1>1, <1>8 DEF Broker, Deliver, ConnectionLost, Process, StopWorker, WorkerCrashes
<1>9. CASE \E w \in Workers : Handler(w)
  BY <1>1, <1>5, <1>9
  DEF Handler, HandleUpload, HandleDelete, GetOriginal, PutThumb100, PutThumb300, PutThumb,
      DeleteObject, Ack, Nack, WorkerRestarts
<1> QED
  BY <1>1, <1>6, <1>7, <1>8, <1>9 DEF Next, vars

-----------------------------------------------------------------------------
(* The inductive invariant, request by request. *)

\* What a request has seen is there until the avatar is deleted.
Kept(q, st) ==
  \A w \in Asked(q, st.seen) : w[2] \in stored[w[1]] \/ rows[w[1]].deleted

\* A request asks for what it has seen; while it does it has no answer, and
\* nothing to show if it is after one avatar.
AskingIsOpen(q, st) ==
  st.todo # {} =>
    /\ st.todo \subseteq Asked(q, st.seen)
    /\ st.answer = "none"
    /\ q.kind \in {"read_user", "delete_current"} => st.shown = {}

Explained(q, st) ==
  \/ st.answer \in {"none", "not_found"}
  \/ st.answer = "ok" /\ q.kind \in {"metadata", "gallery"}
  => \A w \in Asked(q, st.seen) \ (st.todo \cup st.shown) : rows[w[1]].deleted

Newest(q, st) ==
  q.kind \in {"read_user", "delete_current"} /\ st.answer \in {"ok", "delegated"}
  => \A w \in st.shown, v \in Asked(q, st.seen) :
       CreatedAt[v[1]] > CreatedAt[w[1]] => rows[v[1]].deleted

Sound(q, st, misread) ==
  /\ Kept(q, st)
  /\ AskingIsOpen(q, st)
  /\ ~misread => Explained(q, st) /\ Newest(q, st)

QueryInv ==
  /\ QueryTypeOK
  /\ \A q \in Queries : Sound(q, query[q], Misread(q))

LEMMA QueryInvImplies ==
  QueryInv => QueryTypeOK /\ MissingMeansDeleted /\ NewestIsServed
  BY DEF QueryInv, Sound, Explained, Newest, MissingMeansDeleted, NewestIsServed

LEMMA AskedType ==
  ASSUME NEW q \in Queries, NEW seen, DOMAIN seen \subseteq Ids
  PROVE  Asked(q, seen) \subseteq Wants
<1>1. q.size \in Objects
  BY QueriesAssumption DEF QueriesAssumption, Query
<1>2. SizesOf(q) \subseteq Objects
  BY <1>1 DEF SizesOf, Objects
<1> QED
  BY <1>2 DEF Asked, Wants

LEMMA QueryInvInit == QueryInit => QueryInv
<1> SUFFICES ASSUME QueryInit PROVE QueryInv
  OBVIOUS
<1>1. \A q \in Queries : query[q] = Unread /\ Asked(q, Unread.seen) = {}
  BY DEF QueryInit, Unread, Asked
<1>2. Unread \in QueryState
  <2>1. [id \in {} |-> NoRow] \in [{} -> Row]
    OBVIOUS
  <2>2. [id \in {} |-> NoRow] \in UNION {[S -> Row] : S \in SUBSET Ids}
    BY <2>1
  <2> QED
    BY <2>2 DEF Unread, QueryState
<1>3. QueryTypeOK
  BY <1>2, QueriesAssumption DEF QueryInit, QueryTypeOK, QueriesAssumption
<1>4. Unread.todo = {} /\ Unread.shown = {}
  BY DEF Unread
<1>5. \A q \in Queries : Sound(q, Unread, Misread(q))
  BY <1>1, <1>4 DEF Sound, Kept, AskingIsOpen, Explained, Newest
<1> QED
  BY <1>1, <1>3, <1>5 DEF QueryInv

\* A step of the lifecycle keeps objects and deletions, and so the invariant.
LEMMA LifecycleKeepsQueries ==
  ASSUME WritesAreOrdered, QueryInv, [Next]_vars, UNCHANGED queryVars PROVE QueryInv'
<1>1. ObjectsKept /\ DeletedStays
  BY ObjectsKeptStep, DeletedStaysStep
<1>2. query' = query /\ queryFaults' = queryFaults
  BY DEF queryVars
<1>3. QueryTypeOK'
  BY <1>2 DEF QueryInv, QueryTypeOK
<1>4. ASSUME NEW q \in Queries PROVE Sound(q, query[q], Misread(q))'
  <2> DEFINE st == query[q]
  <2>1. Asked(q, st.seen) \subseteq Wants
    <3>1. DOMAIN st.seen \subseteq Ids
      BY DEF QueryInv, QueryTypeOK, QueryState
    <3> QED
      BY <3>1, AskedType
  <2>2. st' = st /\ Asked(q, st.seen)' = Asked(q, st.seen) /\ Misread(q)' = Misread(q)
    BY <1>2 DEF Asked, SizesOf, HasVariant, Misread
  <2>3. \A w \in Asked(q, st.seen) :
          /\ w[1] \in Ids
          /\ rows[w[1]].deleted => rows'[w[1]].deleted
          /\ w[2] \in stored[w[1]] => w[2] \in stored'[w[1]] \/ rows'[w[1]].deleted
    BY <1>1, <2>1 DEF Wants, ObjectsKept, DeletedStays
  <2>4. Sound(q, st, Misread(q))
    BY DEF QueryInv
  <2>5. Kept(q, st)'
    BY <2>2, <2>3, <2>4 DEF Sound, Kept
  <2>6. AskingIsOpen(q, st)'
    BY <2>2, <2>4 DEF Sound, AskingIsOpen
  <2>7. ~Misread(q)' => Explained(q, st)' /\ Newest(q, st)'
    BY <2>2, <2>3, <2>4 DEF Sound, Explained, Newest
  <2> QED
    BY <2>5, <2>6, <2>7 DEF Sound
<1> QED
  BY <1>3, <1>4 DEF QueryInv

-----------------------------------------------------------------------------
(* The steps of a request. *)

FaultsGrow ==
  /\ queryFaults' \in 0..MaxQueryFaults
  /\ queryFaults' = queryFaults \/ queryFaults' = queryFaults + 1

\* It is enough that the one request that moved is sound.
LEMMA RequestStep ==
  ASSUME QueryInv, NEW q \in Queries, UNCHANGED vars, FaultsGrow,
         NEW st \in QueryState, query' = [query EXCEPT ![q] = st],
         Sound(q, st, Misread(q)')
  PROVE  QueryInv'
<1>1. query'[q] = st /\ \A p \in Queries \ {q} : query'[p] = query[p]
  BY DEF QueryInv, QueryTypeOK
<1>2. QueryTypeOK'
  BY DEF QueryInv, QueryTypeOK, FaultsGrow
<1>3. rows' = rows /\ stored' = stored
  BY DEF vars
<1>4. \A p \in Queries : Misread(p) => Misread(p)'
  BY QueriesAssumption DEF QueryInv, QueryTypeOK, FaultsGrow, Misread, QueriesAssumption
<1>5. ASSUME NEW p \in Queries PROVE Sound(p, query'[p], Misread(p)')
  <2>1. CASE p = q
    BY <1>1, <2>1
  <2>2. CASE p # q
    BY <1>1, <1>4, <2>2 DEF QueryInv, Sound
  <2> QED
    BY <2>1, <2>2
<1>6. ASSUME NEW p \in Queries PROVE Sound(p, query[p], Misread(p))'
  BY <1>3, <1>5
  DEF Sound, Kept, AskingIsOpen, Explained, Newest, Asked, SizesOf, HasVariant
<1> QED
  BY <1>2, <1>6 DEF QueryInv

LEMMA QueryFailsGrows ==
  ASSUME QueryInv, NEW dep, QueryFails(dep) PROVE FaultsGrow /\ queryFaults' > 0
  BY QueriesAssumption DEF QueryInv, QueryTypeOK, QueryFails, FaultsGrow, QueriesAssumption

LEMMA SameFaultsGrow ==
  ASSUME QueryInv, UNCHANGED queryFaults PROVE FaultsGrow
  BY DEF QueryInv, QueryTypeOK, FaultsGrow

\* A request ends with nothing to show.
LEMMA EmptyAnswer ==
  ASSUME QueryInv, NEW q \in Queries, UNCHANGED vars, FaultsGrow,
         NEW answer \in {"error", "not_found", "not_ready"}, Answer(q, {}, answer),
         answer = "not_found" => query[q] = Unread
  PROVE  QueryInv'
<1> DEFINE st == [query[q] EXCEPT !.todo = {}, !.shown = {}, !.answer = answer]
<1>1. query[q] \in QueryState /\ Sound(q, query[q], Misread(q))
  BY DEF QueryInv, QueryTypeOK
<1>2. /\ st \in QueryState /\ st.seen = query[q].seen
      /\ st.todo = {} /\ st.shown = {} /\ st.answer = answer
  BY <1>1 DEF QueryState
<1>3. query' = [query EXCEPT ![q] = st]
  BY <1>1 DEF Answer, QueryState, QueryInv, QueryTypeOK
<1>4. Kept(q, st) /\ AskingIsOpen(q, st) /\ Newest(q, st)
  BY <1>1, <1>2 DEF Sound, Kept, AskingIsOpen, Newest
<1>5. Explained(q, st)
  <2>1. answer = "not_found" => Asked(q, st.seen) = {}
    BY <1>2 DEF Unread, Asked
  <2> QED
    BY <1>2, <2>1 DEF Explained
<1> HIDE DEF st
<1> QED
  BY <1>2, <1>3, <1>4, <1>5, RequestStep DEF Sound

\* A request takes its rows, all of them active.
LEMMA OpenStep ==
  ASSUME WritesAreOrdered, QueryInv, NEW q \in Queries, UNCHANGED vars, FaultsGrow,
         NEW ids \in SUBSET Ids, \A id \in ids : Active(id), Open(q, Snapshot(ids))
  PROVE  QueryInv'
<1> DEFINE seen == Snapshot(ids)
           st   == [seen |-> seen, todo |-> Asked(q, seen), shown |-> {},
                    answer |-> IF Asked(q, seen) = {} THEN Exhausted(q, seen) ELSE "none"]
<1>1. /\ seen \in [ids -> Row]
      /\ \A w \in Asked(q, seen) : w[2] \in stored[w[1]]
  <2>1. seen \in [ids -> Row]
    BY DEF WritesAreOrdered, TypeOK, Snapshot
  <2>2. ASSUME NEW w \in Asked(q, seen) PROVE w[2] \in stored[w[1]]
    <3>1. w[1] \in ids /\ w[2] \in {"original"} \cup rows[w[1]].thumbs
      BY DEF Asked, Snapshot, HasVariant
    <3> QED
      BY <3>1 DEF WritesAreOrdered, ActiveObjectsPresent
  <2> QED
    BY <2>1, <2>2
<1> HIDE DEF seen
<1>2. st \in QueryState
  <2>1. Asked(q, seen) \subseteq Wants
    BY <1>1, AskedType
  <2>2. seen \in UNION {[S -> Row] : S \in SUBSET Ids}
    BY <1>1
  <2>3. st.answer \in {"ok", "not_found", "none"}
    BY DEF Exhausted
  <2> QED
    BY <2>1, <2>2, <2>3 DEF QueryState
<1>3. query' = [query EXCEPT ![q] = st]
  BY DEF Open, seen
<1>4. Sound(q, st, Misread(q)')
  BY <1>1 DEF Sound, Kept, AskingIsOpen, Explained, Newest
<1> HIDE DEF st
<1> QED
  BY <1>2, <1>3, <1>4, RequestStep

LEMMA FirstCallStep ==
  ASSUME WritesAreOrdered, QueryInv, NEW q \in Queries, UNCHANGED vars,
         QueryById(q) \/ QueryByUser(q)
  PROVE  QueryInv'
<1>1. q.id \in Ids
  BY QueriesAssumption DEF QueriesAssumption, Query
<1>2. query[q] = Unread
  BY DEF QueryById, QueryByUser
<1>3. CASE QueryFails("repo") /\ Answer(q, {}, "error")
  BY <1>3, QueryFailsGrows, EmptyAnswer
<1>4. CASE UNCHANGED queryFaults /\ Answer(q, {}, "not_found")
  BY <1>2, <1>4, SameFaultsGrow, EmptyAnswer
<1>5. CASE UNCHANGED queryFaults /\ Answer(q, {}, "not_ready")
  BY <1>5, SameFaultsGrow, EmptyAnswer
<1>6. CASE UNCHANGED queryFaults /\ Active(q.id) /\ Open(q, Snapshot({q.id}))
  BY <1>1, <1>6, SameFaultsGrow, OpenStep
<1>7. CASE /\ UNCHANGED queryFaults
           /\ Open(q, Snapshot({id \in Ids : Active(id) /\ Owner[id] = q.by}))
  BY <1>7, SameFaultsGrow, OpenStep
<1> QED
  BY <1>3, <1>4, <1>5, <1>6, <1>7 DEF QueryById, QueryByUser

\* The request leaves w out of what it has yet to ask: because the object is
\* found and shown, or missing, or because a failure is misread.
LEMMA SkipStep ==
  ASSUME QueryInv, NEW q \in Queries, UNCHANGED vars, FaultsGrow,
         NEW w \in query[q].todo, NEW shown \in SUBSET (query[q].shown \cup {w}),
         Skip(q, w, shown),
         q.kind \in {"read_user", "delete_current"} => shown \subseteq query[q].shown,
         \/ query[q].shown \subseteq shown /\ w \in shown
         \/ query[q].shown \subseteq shown /\ rows[w[1]].deleted
         \/ Misread(q)'
  PROVE  QueryInv'
<1> DEFINE rest == query[q].todo \ {w}
           answer == IF rest = {} THEN Exhausted(q, query[q].seen) ELSE "none"
           st == [query[q] EXCEPT !.todo = rest, !.shown = shown, !.answer = answer]
<1>1. query[q] \in QueryState /\ Sound(q, query[q], Misread(q))
  BY DEF QueryInv, QueryTypeOK
<1>2. answer \in {"ok", "not_found", "none"}
  BY DEF Exhausted
<1>3. q.kind \in {"read_user", "delete_current"} => answer # "ok"
  BY DEF Exhausted
<1>4. rest # {} => answer = "none"
  OBVIOUS
<1>5. query' = [query EXCEPT ![q] = st]
  BY <1>1 DEF Skip, QueryState, QueryInv, QueryTypeOK
<1>6. rest \subseteq Wants /\ shown \subseteq Wants
  BY <1>1 DEF QueryState
<1>7. query[q].answer = "none"
  BY <1>1 DEF Sound, AskingIsOpen
<1> HIDE DEF answer
<1>8. /\ st \in QueryState /\ st.seen = query[q].seen
      /\ st.todo = rest /\ st.shown = shown /\ st.answer = answer
  BY <1>1, <1>2, <1>6 DEF QueryState
<1> HIDE DEF st
<1>9. Kept(q, st)
  BY <1>1, <1>8 DEF Sound, Kept
<1>10. AskingIsOpen(q, st)
  BY <1>1, <1>4, <1>8 DEF Sound, AskingIsOpen
<1>11. Newest(q, st)
  BY <1>2, <1>3, <1>8 DEF Newest
<1>12. ASSUME ~Misread(q)' PROVE Explained(q, st)
  <2>1. ~Misread(q)
    BY <1>12, QueriesAssumption DEF QueryInv, QueryTypeOK, FaultsGrow, Misread, QueriesAssumption
  <2>2. \A v \in Asked(q, query[q].seen) \ (query[q].todo \cup query[q].shown) :
          rows[v[1]].deleted
    BY <1>1, <1>7, <2>1 DEF Sound, Explained
  <2> QED
    BY <1>8, <1>12, <2>2 DEF Explained
<1> QED
  BY <1>5, <1>8, <1>9, <1>10, <1>11, <1>12, RequestStep DEF Sound

\* The request ends with the avatar of w, the newest it has yet to ask for.
LEMMA ServeStep ==
  ASSUME QueryInv, NEW q \in Queries, UNCHANGED vars, UNCHANGED queryFaults,
         NEW w \in query[q].todo, ComesFirst(w, query[q].todo),
         NEW answer \in {"ok", "delegated"}, Answer(q, {w}, answer),
         q.kind \in {"read", "read_user", "delete_current"}
  PROVE  QueryInv'
<1> DEFINE st == [query[q] EXCEPT !.todo = {}, !.shown = {w}, !.answer = answer]
<1>1. query[q] \in QueryState /\ Sound(q, query[q], Misread(q))
  BY DEF QueryInv, QueryTypeOK
<1>2. /\ st \in QueryState /\ st.seen = query[q].seen
      /\ st.todo = {} /\ st.shown = {w} /\ st.answer = answer
  BY <1>1 DEF QueryState
<1>3. query' = [query EXCEPT ![q] = st]
  BY <1>1 DEF Answer, QueryState, QueryInv, QueryTypeOK
<1>4. query[q].answer = "none"
  BY <1>1 DEF Sound, AskingIsOpen
<1> HIDE DEF st
<1>5. Kept(q, st) /\ AskingIsOpen(q, st) /\ Explained(q, st)
  BY <1>1, <1>2 DEF Sound, Kept, AskingIsOpen, Explained
<1>6. ASSUME ~Misread(q) PROVE Newest(q, st)
  <2>1. SUFFICES ASSUME q.kind \in {"read_user", "delete_current"},
                        NEW v \in Asked(q, query[q].seen), CreatedAt[v[1]] > CreatedAt[w[1]]
                 PROVE  rows[v[1]].deleted
    BY <1>2 DEF Newest
  <2>2. query[q].shown = {}
    BY <1>1, <2>1 DEF Sound, AskingIsOpen
  <2>3. CreatedAt[v[1]] \in Nat /\ CreatedAt[w[1]] \in Nat
    <3>1. v \in Wants /\ w \in Wants
      <4>1. DOMAIN query[q].seen \subseteq Ids
        BY <1>1 DEF QueryState
      <4> QED
        BY <1>1, <4>1, AskedType DEF QueryState
    <3> QED
      BY <3>1, QueriesAssumption DEF QueriesAssumption, Wants
  <2>4. v \notin query[q].todo
    BY <2>1, <2>3 DEF ComesFirst
  <2> QED
    BY <1>1, <1>4, <1>6, <2>2, <2>4 DEF Sound, Explained
<1>7. Misread(q)' = Misread(q)
  BY DEF Misread
<1> QED
  BY <1>2, <1>3, <1>5, <1>6, <1>7, SameFaultsGrow, RequestStep DEF Sound

LEMMA AskStorageStep ==
  ASSUME QueryInv, NEW q \in Queries, UNCHANGED vars, AskStorage(q) PROVE QueryInv'
<1>1. PICK w \in query[q].todo :
        /\ ComesFirst(w, query[q].todo)
        /\ ObjectFails(q, w) \/ ObjectFound(q, w) \/ ObjectMissing(q, w)
  BY DEF AskStorage
<1>2. query[q] \in QueryState /\ Sound(q, query[q], Misread(q))
  BY DEF QueryInv, QueryTypeOK
<1>3. q.kind \in ByIdKinds \cup ByUserKinds
  BY QueriesAssumption DEF QueriesAssumption, Query
<1>4. q.kind \in {"read_user", "delete_current"} => query[q].shown = {}
  BY <1>2 DEF Sound, AskingIsOpen
<1>5. CASE ObjectFails(q, w) /\ q.kind = "read_user"
  <2>1. Skip(q, w, {}) /\ FaultsGrow /\ Misread(q)'
    BY <1>5, QueryFailsGrows DEF ObjectFails, Misread
  <2> QED
    BY <2>1, SkipStep
<1>6. CASE ObjectFails(q, w) /\ q.kind # "read_user"
  BY <1>6, QueryFailsGrows, EmptyAnswer DEF ObjectFails
<1>7. CASE ObjectFound(q, w) /\ q.kind \in {"metadata", "gallery"}
  <2>1. Skip(q, w, query[q].shown \cup {w}) /\ FaultsGrow
    BY <1>7, SameFaultsGrow DEF ObjectFound
  <2> QED
    BY <1>7, <2>1, SkipStep
<1>8. CASE ObjectFound(q, w) /\ q.kind \in {"read", "read_user"}
  BY <1>1, <1>8, ServeStep DEF ObjectFound
<1>9. CASE ObjectFound(q, w) /\ q.kind = "delete_current"
  BY <1>1, <1>9, ServeStep DEF ObjectFound
<1>10. CASE ObjectMissing(q, w)
  <2>1. rows[w[1]].deleted
    BY <1>2, <1>10 DEF ObjectMissing, Sound, Kept, AskingIsOpen
  <2> QED
    BY <1>10, <2>1, SameFaultsGrow, SkipStep DEF ObjectMissing
<1> QED
  BY <1>1, <1>3, <1>5, <1>6, <1>7, <1>8, <1>9, <1>10 DEF ByIdKinds, ByUserKinds

LEMMA QueryInvStep ==
  WritesAreOrdered /\ QueryInv /\ [QueryNext]_allVars => QueryInv'
<1> SUFFICES ASSUME WritesAreOrdered, QueryInv, [QueryNext]_allVars PROVE QueryInv'
  OBVIOUS
<1>1. CASE LifecycleStep /\ UNCHANGED queryVars
  BY <1>1, LifecycleKeepsQueries DEF LifecycleStep, Next
<1>2. CASE QueryStep /\ UNCHANGED vars
  BY <1>2, FirstCallStep, AskStorageStep DEF QueryStep
<1>3. CASE UNCHANGED allVars
  BY <1>3, LifecycleKeepsQueries DEF allVars
<1> QED
  BY <1>1, <1>2, <1>3 DEF QueryNext

\* Every request is sound in every reachable state: what it saw is kept,
\* and what it leaves out or passes over is explained.
THEOREM QueryInvariant == QuerySpec => []QueryInv
  BY QueryInvInit, QueryInvStep, QueriesKeepLifecycle, OrderInvariant, PTL DEF QuerySpec

\* Requests and their snapshots are well typed.
THEOREM QueriesAreTyped == QuerySpec => []QueryTypeOK
  BY QueryInvariant, QueryInvImplies, PTL

\* Whatever uploads, deletes, workers and faults do around it, a request
\* leaves out only what has been deleted since it read its rows.
THEOREM MissingWasDeleted == QuerySpec => []MissingMeansDeleted
  BY QueryInvariant, QueryInvImplies, PTL

\* The avatar chosen for a user is the newest that nobody has deleted.
THEOREM NewestWasServed == QuerySpec => []NewestIsServed
  BY QueryInvariant, QueryInvImplies, PTL

=============================================================================
