----------------------------- MODULE AvatarQueries -----------------------------
(***************************************************************************)
(* The requests that list rows first and ask MinIO afterwards, composed    *)
(* with AvatarLifecycle: reads by id and by user, metadata, the gallery,   *)
(* and DELETE of a user's current avatar.  Each call on PostgreSQL or      *)
(* MinIO is a step, so uploads, deletes and workers run between the rows a *)
(* request read and the objects it asks for.                               *)
(*                                                                         *)
(* Every request becomes a snapshot of rows and the set of objects it      *)
(* wants to ask MinIO for, newest avatar first.                            *)
(***************************************************************************)
EXTENDS AvatarLifecycle

CONSTANTS
  CreatedAt,       \* CreatedAt[id]: the clock when the upload of id began
  Queries,         \* the requests that may arrive
  QueryFaults,     \* the dependencies that may fail them
  MaxQueries,      \* bound: how many requests a behaviour has
  MaxQueryFaults   \* bound: how many of their calls fail in a behaviour

ByIdKinds   == {"read", "metadata"}
ByUserKinds == {"read_user", "delete_current", "gallery"}

Query == [kind : ByIdKinds \cup ByUserKinds, id : Ids, by : Users,
          size : Objects, call : Nat]

ASSUME QueriesAssumption ==
  /\ CreatedAt \in [Ids -> Nat]
  /\ \A i, j \in Ids : CreatedAt[i] = CreatedAt[j] => i = j
  /\ Queries \subseteq Query
  /\ QueryFaults \subseteq {"repo", "storage"}
  /\ MaxQueries \in Nat
  /\ MaxQueryFaults \in Nat
  \* DeleteCurrentUserAvatar goes on as a DELETE of the avatar it chose.
  /\ \A q \in Queries : q.kind = "delete_current" =>
       \A id \in Ids : [id |-> id, by |-> q.by, call |-> q.call] \in Requests

VARIABLES
  query,        \* each request: its snapshot, what it has yet to ask, answer
  queryFaults   \* failed calls so far

queryVars == <<query, queryFaults>>
allVars   == <<vars, queryVars>>

Wants == Ids \X Objects

QueryState ==
  [seen   : UNION {[S -> Row] : S \in SUBSET Ids},
   todo   : SUBSET Wants,
   shown  : SUBSET Wants,
   answer : {"none", "ok", "not_found", "not_ready", "error", "delegated"}]

Unread == [seen |-> [id \in {} |-> NoRow], todo |-> {}, shown |-> {}, answer |-> "none"]

QueryTypeOK ==
  /\ query \in [Queries -> QueryState]
  /\ queryFaults \in 0..MaxQueryFaults

QueryInit ==
  /\ Init
  /\ query = [q \in Queries |-> Unread]
  /\ queryFaults = 0

-----------------------------------------------------------------------------
QueryFails(dep) ==
  /\ dep \in QueryFaults
  /\ queryFaults < MaxQueryFaults
  /\ queryFaults' = queryFaults + 1

Snapshot(ids) == [id \in ids |-> rows[id]]

\* VariantKey: original_available is always true.
HasVariant(row, size) == size = "original" \/ size \in row.thumbs

SizesOf(q) ==
  CASE q.kind = "metadata"              -> Objects
    [] q.kind \in {"read", "read_user"} -> {q.size}
    [] OTHER                            -> {"original"}

\* The objects a request asks for, of the rows it has seen.
Asked(q, seen) ==
  {w \in (DOMAIN seen) \X SizesOf(q) : HasVariant(seen[w[1]], w[2])}

\* Nothing is left to ask for.
Exhausted(q, seen) ==
  IF q.kind = "metadata" \/ (q.kind = "gallery" /\ DOMAIN seen # {})
    THEN "ok" ELSE "not_found"

Open(q, seen) ==
  query' = [query EXCEPT ![q] =
              [seen   |-> seen,
               todo   |-> Asked(q, seen),
               shown  |-> {},
               answer |-> IF Asked(q, seen) = {} THEN Exhausted(q, seen) ELSE "none"]]

Answer(q, shown, answer) ==
  query' = [query EXCEPT ![q].todo = {}, ![q].shown = shown, ![q].answer = answer]

MayArrive == Cardinality({q \in Queries : query[q] # Unread}) < MaxQueries

\* The first call: GetActiveByID.
QueryById(q) ==
  /\ q.kind \in ByIdKinds
  /\ query[q] = Unread
  /\ MayArrive
  /\ \/ QueryFails("repo") /\ Answer(q, {}, "error")
     \/ /\ UNCHANGED queryFaults
        /\ \/ ~Active(q.id) /\ Answer(q, {}, "not_found")
           \/ /\ Active(q.id) /\ q.kind = "read" /\ ~HasVariant(rows[q.id], q.size)
              /\ Answer(q, {}, "not_ready")
           \/ /\ Active(q.id) /\ (q.kind = "read" => HasVariant(rows[q.id], q.size))
              /\ Open(q, Snapshot({q.id}))

\* The first call: ListActiveByUser.
QueryByUser(q) ==
  /\ q.kind \in ByUserKinds
  /\ query[q] = Unread
  /\ MayArrive
  /\ \/ QueryFails("repo") /\ Answer(q, {}, "error")
     \/ /\ UNCHANGED queryFaults
        /\ Open(q, Snapshot({id \in Ids : Active(id) /\ Owner[id] = q.by}))

\* Mutant: the list is walked from the oldest avatar on.
BugComesFirst(w, todo) ==
  /\ \A v \in todo : CreatedAt[w[1]] <= CreatedAt[v[1]]
  /\ w[2] = NextKey({v[2] : v \in {u \in todo : u[1] = w[1]}})

\* ORDER BY created_at DESC; the original of an avatar before its thumbnails.
ComesFirst(w, todo) ==
  /\ \A v \in todo : CreatedAt[w[1]] >= CreatedAt[v[1]]
  /\ w[2] = NextKey({v[2] : v \in {u \in todo : u[1] = w[1]}})

\* The request does without w and goes on, or has nothing left.
Skip(q, w, shown) ==
  LET rest == query[q].todo \ {w}
  IN  query' = [query EXCEPT
        ![q].todo   = rest,
        ![q].shown  = shown,
        ![q].answer = IF rest = {} THEN Exhausted(q, query[q].seen) ELSE "none"]

\* Get or Exists fails: ReadUserAvatar takes that for an absent object.
ObjectFails(q, w) ==
  /\ QueryFails("storage")
  /\ IF q.kind = "read_user" THEN Skip(q, w, {}) ELSE Answer(q, {}, "error")

\* Metadata and the gallery go on to the next object.
ObjectFound(q, w) ==
  /\ w[2] \in stored[w[1]]
  /\ UNCHANGED queryFaults
  /\ CASE q.kind \in {"metadata", "gallery"} -> Skip(q, w, query[q].shown \cup {w})
       [] q.kind \in {"read", "read_user"}   -> Answer(q, {w}, "ok")
       [] q.kind = "delete_current"          -> Answer(q, {w}, "delegated")

ObjectMissing(q, w) ==
  /\ w[2] \notin stored[w[1]]
  /\ UNCHANGED queryFaults
  /\ Skip(q, w, query[q].shown)

AskStorage(q) ==
  \E w \in query[q].todo :
    /\ ComesFirst(w, query[q].todo)
    /\ ObjectFails(q, w) \/ ObjectFound(q, w) \/ ObjectMissing(q, w)

\* A DELETE that belongs to a delete_current waits for the id it chooses.
MayStart(r) ==
  \A q \in Queries :
    q.kind = "delete_current" /\ q.by = r.by /\ q.call = r.call
      => query[q].answer = "delegated" /\ <<r.id, "original">> \in query[q].shown

LifecycleStep ==
  \/ \E id \in Ids : Upload(id)
  \/ \E r \in Requests : MayStart(r) /\ Delete(r)
  \/ \E w \in Workers : Broker(w) \/ Handler(w) \/ Process(w)

QueryStep == \E q \in Queries : QueryById(q) \/ QueryByUser(q) \/ AskStorage(q)

QueryNext ==
  \/ LifecycleStep /\ UNCHANGED queryVars
  \/ QueryStep /\ UNCHANGED vars

QuerySpec == QueryInit /\ [][QueryNext]_allVars

-----------------------------------------------------------------------------
\* ReadUserAvatar takes a failed Get for an absent object.
Misread(q) == q.kind = "read_user" /\ queryFaults > 0

\* A request leaves out or answers 404 for an object its rows named only
\* when the avatar has been deleted since: neither thumbnail handlers nor
\* their retries make the rows of an avatar and the bucket disagree.
MissingMeansDeleted ==
  \A q \in Queries :
    /\ ~Misread(q)
    /\ \/ query[q].answer \in {"none", "not_found"}
       \/ query[q].answer = "ok" /\ q.kind \in {"metadata", "gallery"}
    => \A w \in Asked(q, query[q].seen) \ (query[q].todo \cup query[q].shown) :
         rows[w[1]].deleted

\* The avatar that represents a user, in a read or for DELETE, is the newest
\* one with the variant: newer ones were deleted while the request ran.
NewestIsServed ==
  \A q \in Queries :
    /\ q.kind \in {"read_user", "delete_current"} /\ ~Misread(q)
    /\ query[q].answer \in {"ok", "delegated"}
    => \A w \in query[q].shown, v \in Asked(q, query[q].seen) :
         CreatedAt[v[1]] > CreatedAt[w[1]] => rows[v[1]].deleted

=============================================================================
