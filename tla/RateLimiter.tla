------------------------------ MODULE RateLimiter ------------------------------
(***************************************************************************)
(* The per-client token buckets of httpapi.RateLimiter.  allow reads the   *)
(* clock before it takes the mutex, so requests go through the buckets in  *)
(* an order that is not the order of their readings: time can run          *)
(* backwards for a bucket, within the time a request waits for the mutex.  *)
(* The code under the mutex is one step.                                   *)
(*                                                                         *)
(* Tokens are float64 in the code; here a bucket counts units, Token of    *)
(* them to a token, so that a tick refills a part of a token.  The set of  *)
(* buckets that cleanup shrinks is the set of clients that have one.       *)
(***************************************************************************)
EXTENDS Integers

CONSTANTS
  Clients,          \* values of clientKey
  Requests,         \* goroutines that serve requests
  Token,            \* units of one token
  Rate,             \* units a bucket gains in a tick
  Burst,            \* units of a full bucket
  BucketTTL,
  CleanupInterval,
  MaxLag,           \* longest wait between reading the clock and the mutex
  MaxTime           \* bound: the clock stops here

ASSUME LimiterAssumption ==
  /\ Token \in Nat \ {0}
  /\ Rate \in Nat \ {0}
  /\ Burst \in Nat /\ Burst >= Token
  /\ BucketTTL \in Nat \ {0}
  /\ CleanupInterval \in Nat \ {0}
  /\ MaxLag \in Nat
  /\ MaxTime \in Nat

\* A bucket that cleanup drops would have been full: the defaults, 300 s of
\* TTL for a bucket that refills in 2 s, leave minutes for MaxLag.
ASSUME RefillsWithinTTL ==
  /\ BucketTTL > 2 * MaxLag
  /\ Rate * (BucketTTL - 2 * MaxLag) >= Burst

VARIABLES
  clock,
  buckets,      \* client -> bucket, or NoBucket
  lastCleanup,
  request,      \* a request between its reading of the clock and the mutex
  start,        \* any moment: what is admitted is counted from here on
  spent         \* units each client was admitted for since start

vars == <<clock, buckets, lastCleanup, request, start, spent>>

Time == 0..MaxTime

NoBucket == [tokens |-> 0, last |-> -1, lastSeen |-> -1]
Bucket   == [tokens : 0..Burst, last : Time, lastSeen : Time]

Idle    == [client |-> "none", now |-> -1]
Waiting == [client : Clients, now : Time]

TypeOK ==
  /\ clock \in Time
  /\ buckets \in [Clients -> Bucket \cup {NoBucket}]
  /\ lastCleanup \in Time
  /\ request \in [Requests -> Waiting \cup {Idle}]
  /\ start \in Time
  /\ spent \in [Clients -> Nat]

Init ==
  /\ clock = 0
  /\ buckets = [c \in Clients |-> NoBucket]
  /\ lastCleanup = 0
  /\ request = [r \in Requests |-> Idle]
  /\ start \in Time
  /\ spent = [c \in Clients |-> 0]

-----------------------------------------------------------------------------
\* now := l.now(), before the mutex.
Arrive(r, c) ==
  /\ request[r] = Idle
  /\ request' = [request EXCEPT ![r] = [client |-> c, now |-> clock]]
  /\ UNCHANGED <<clock, buckets, lastCleanup, start, spent>>

\* Mutant: a bucket survives the cleanup at the very TTL.
BugExpired(b, now) == now - b.lastSeen > BucketTTL

Expired(b, now) == now - b.lastSeen >= BucketTTL

CleanupDue(now) == now - lastCleanup >= CleanupInterval

\* The buckets after the cleanup that a request with this reading runs.
Cleaned(now) ==
  [c \in Clients |->
     IF CleanupDue(now) /\ Expired(buckets[c], now) THEN NoBucket ELSE buckets[c]]

NewBucket(now) == [tokens |-> Burst, last |-> now, lastSeen |-> now]

AtMostBurst(units) == IF units > Burst THEN Burst ELSE units

\* Mutant: the bucket refills without bound while its client is away.
BugRefilled(b, now) ==
  IF now > b.last
    THEN [tokens |-> b.tokens + Rate * (now - b.last), last |-> now, lastSeen |-> now]
    ELSE [b EXCEPT !.lastSeen = now]

\* Mutant: a reading from before the last refill moves the bucket back.
BugRefilledBackwards(b, now) ==
  [tokens   |-> IF now > b.last THEN AtMostBurst(b.tokens + Rate * (now - b.last))
                                ELSE b.tokens,
   last     |-> now,
   lastSeen |-> now]

Refilled(b, now) ==
  IF now > b.last
    THEN [tokens   |-> AtMostBurst(b.tokens + Rate * (now - b.last)),
          last     |-> now,
          lastSeen |-> now]
    ELSE [b EXCEPT !.lastSeen = now]

\* The bucket a request takes its token from.
BucketFor(c, now) ==
  IF Cleaned(now)[c] = NoBucket THEN NewBucket(now) ELSE Refilled(Cleaned(now)[c], now)

Take(r, b) ==
  LET c   == request[r].client
      now == request[r].now
  IN  /\ buckets' = [Cleaned(now) EXCEPT ![c] = b]
      /\ lastCleanup' = IF CleanupDue(now) THEN now ELSE lastCleanup
      /\ request' = [request EXCEPT ![r] = Idle]
      /\ UNCHANGED <<clock, start>>

Admit(r) ==
  LET c   == request[r].client
      now == request[r].now
      b   == BucketFor(c, now)
  IN  /\ request[r] # Idle
      /\ b.tokens >= Token
      /\ Take(r, [b EXCEPT !.tokens = @ - Token])
      /\ spent' = IF now >= start THEN [spent EXCEPT ![c] = @ + Token] ELSE spent

\* 429 rate_limited.
Refuse(r) ==
  LET b == BucketFor(request[r].client, request[r].now)
  IN  /\ request[r] # Idle
      /\ b.tokens < Token
      /\ Take(r, b)
      /\ UNCHANGED spent

Tick ==
  /\ clock < MaxTime
  /\ \A r \in Requests : request[r] # Idle => clock - request[r].now < MaxLag
  /\ clock' = clock + 1
  /\ UNCHANGED <<buckets, lastCleanup, request, start, spent>>

Allow(r) == Admit(r) \/ Refuse(r)

Next ==
  \/ \E r \in Requests, c \in Clients : Arrive(r, c)
  \/ \E r \in Requests : Allow(r)
  \/ Tick

Spec == Init /\ [][Next]_vars

-----------------------------------------------------------------------------
\* Whatever the moment the count starts from, the requests of a client that
\* read the clock since then get through for a burst and for what the
\* elapsed time refills, no more: idle time, readings out of order, and a
\* bucket that was cleaned up and made anew add nothing.
AdmissionBound ==
  \A c \in Clients :
    spent[c] > 0 => spent[c] <= Burst + Rate * (clock - start)

\* No bucket outlives a cleanup by more than the TTL, whatever order
\* requests go through the mutex in.
StaleBucketsGo ==
  \A c \in Clients :
    buckets[c] # NoBucket => lastCleanup - buckets[c].lastSeen < BucketTTL

-----------------------------------------------------------------------------
(* The inductive invariant. *)

\* Readings are never ahead of the clock, nor behind it by more than MaxLag.
ReadingsAreRecent ==
  /\ lastCleanup <= clock
  /\ \A r \in Requests :
       request[r] # Idle => request[r].now <= clock /\ clock - request[r].now <= MaxLag
  /\ \A c \in Clients :
       buckets[c] # NoBucket =>
         /\ buckets[c].lastSeen <= buckets[c].last /\ buckets[c].last <= clock
         /\ buckets[c].last - buckets[c].lastSeen <= MaxLag

\* What a client has spent since start, its bucket lacks, up to what the
\* time until the bucket's last refill was worth.
Covered(c) ==
  \/ spent[c] = 0
  \/ /\ buckets[c] # NoBucket
     /\ buckets[c].last >= start
     /\ spent[c] + buckets[c].tokens <= Burst + Rate * (buckets[c].last - start)
  \/ /\ buckets[c] = NoBucket
     /\ start <= clock - MaxLag
     /\ spent[c] <= Rate * ((clock - MaxLag) - start)

\* Tokens and admissions balance, for every client and every start.
LimiterInv ==
  /\ TypeOK
  /\ ReadingsAreRecent
  /\ StaleBucketsGo
  /\ \A c \in Clients : Covered(c)

=============================================================================
