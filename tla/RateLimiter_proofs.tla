-------------------------- MODULE RateLimiter_proofs --------------------------
(* The rate limiter admits no more than a burst and the refill, for every   *)
(* client, window and configuration that refills a bucket within its TTL.  *)
EXTENDS RateLimiter, TLAPS

USE DEF Time

-----------------------------------------------------------------------------
(* What a time span is worth. *)

LEMMA RateAdds ==
  ASSUME NEW a \in Int, NEW b \in Int PROVE Rate * (a + b) = Rate * a + Rate * b
BY LimiterAssumption DEF LimiterAssumption

LEMMA RateGrows ==
  ASSUME NEW a \in Int, NEW b \in Int, a <= b PROVE Rate * a <= Rate * b
<1>1. b - a \in Nat
  OBVIOUS
<1>2. Rate * (b - a) >= 0
  BY <1>1, LimiterAssumption DEF LimiterAssumption
<1>3. Rate * (a + (b - a)) = Rate * a + Rate * (b - a)
  BY RateAdds
<1>4. a + (b - a) = b
  OBVIOUS
<1>5. Rate * a \in Int /\ Rate * b \in Int /\ Rate * (b - a) \in Int
  BY LimiterAssumption DEF LimiterAssumption
<1> QED BY <1>2, <1>3, <1>4, <1>5

LEMMA RateTypes == ASSUME NEW a \in Int PROVE Rate * a \in Int
BY LimiterAssumption DEF LimiterAssumption

LEMMA Constants ==
  /\ Token \in Nat /\ Token > 0 /\ Burst \in Nat /\ Burst >= Token
  /\ BucketTTL \in Nat /\ MaxLag \in Nat /\ MaxTime \in Nat
  /\ BucketTTL > 2 * MaxLag
BY LimiterAssumption, RefillsWithinTTL DEF LimiterAssumption, RefillsWithinTTL

-----------------------------------------------------------------------------
(* The bucket that a request takes its token from. *)

\* A reading that a request may come with.
Reading(now) == now \in Time /\ now <= clock /\ clock - now <= MaxLag

LEMMA BucketIsNot == \A b \in Bucket : b # NoBucket
BY DEF Bucket, NoBucket

LEMMA RefilledType ==
  ASSUME NEW b \in Bucket, NEW now \in Time
  PROVE  /\ Refilled(b, now) \in Bucket
         /\ Refilled(b, now).lastSeen = now
         /\ Refilled(b, now).last = IF now > b.last THEN now ELSE b.last
         /\ now > b.last => Refilled(b, now).tokens <= b.tokens + Rate * (now - b.last)
         /\ now <= b.last => Refilled(b, now).tokens = b.tokens
<1>1. b.tokens \in 0..Burst /\ b.last \in Time /\ b.lastSeen \in Time
  BY DEF Bucket
<1>2. CASE now > b.last
  <2>1. Rate * (now - b.last) \in Nat
    BY <1>1, <1>2, LimiterAssumption DEF LimiterAssumption
  <2> DEFINE gain == Rate * (now - b.last)
  <2>2. gain \in Nat
    BY <2>1
  <2>3. AtMostBurst(b.tokens + gain) \in 0..Burst /\ AtMostBurst(b.tokens + gain) <= b.tokens + gain
    <3> HIDE DEF gain
    <3> QED BY <1>1, <2>2, Constants DEF AtMostBurst
  <2>4. Refilled(b, now) = [tokens |-> AtMostBurst(b.tokens + gain), last |-> now, lastSeen |-> now]
    BY <1>2 DEF Refilled
  <2> HIDE DEF gain
  <2>5. /\ Refilled(b, now) \in Bucket
        /\ Refilled(b, now).lastSeen = now /\ Refilled(b, now).last = now
        /\ Refilled(b, now).tokens <= b.tokens + gain
    BY <2>3, <2>4 DEF Bucket
  <2> QED BY <1>1, <1>2, <2>5 DEF gain
<1>3. CASE ~(now > b.last)
  BY <1>1, <1>3 DEF Refilled, Bucket
<1> QED BY <1>2, <1>3

LEMMA CleanedType ==
  ASSUME LimiterInv, NEW c \in Clients, NEW now \in Int
  PROVE  /\ Cleaned(now)[c] \in {buckets[c], NoBucket}
         /\ Cleaned(now)[c] # NoBucket => Cleaned(now)[c] \in Bucket
BY DEF LimiterInv, TypeOK, Cleaned

LEMMA BucketForType ==
  ASSUME LimiterInv, NEW c \in Clients, NEW now, Reading(now)
  PROVE  /\ BucketFor(c, now) \in Bucket
         /\ BucketFor(c, now).lastSeen = now
         /\ now <= BucketFor(c, now).last /\ BucketFor(c, now).last <= clock
<1>0. now \in Time /\ now <= clock /\ clock \in Time /\ now \in Int
  BY DEF Reading, LimiterInv, TypeOK
<1>1. CASE Cleaned(now)[c] = NoBucket
  BY <1>0, <1>1, Constants DEF BucketFor, NewBucket, Bucket
<1>2. CASE Cleaned(now)[c] # NoBucket
  <2>1. Cleaned(now)[c] = buckets[c] /\ buckets[c] \in Bucket /\ buckets[c] # NoBucket
    BY <1>0, <1>2, CleanedType
  <2>2. BucketFor(c, now) = Refilled(buckets[c], now)
    BY <1>2, <2>1 DEF BucketFor
  <2>3. buckets[c].last <= clock /\ buckets[c].last \in Time
    BY <2>1 DEF LimiterInv, ReadingsAreRecent, Bucket
  <2> QED BY SMTT(30), <1>0, <2>1, <2>2, <2>3, RefilledType
<1> QED BY <1>1, <1>2

\* A client without a bucket, or whose bucket is cleaned up now, could have
\* refilled a whole burst since it last spent.
LEMMA CleanedIsPaid ==
  ASSUME LimiterInv, NEW c \in Clients, NEW now, Reading(now),
         spent[c] # 0, Cleaned(now)[c] = NoBucket
  PROVE  start <= clock - MaxLag /\ spent[c] <= Rate * ((clock - MaxLag) - start)
<1>0. /\ now \in Int /\ now <= clock /\ clock \in Int /\ start \in Int /\ MaxLag \in Nat
      /\ spent[c] \in Nat
  BY Constants DEF Reading, LimiterInv, TypeOK
<1>1. Covered(c)
  BY DEF LimiterInv
<1>2. CASE buckets[c] = NoBucket
  BY <1>1, <1>2 DEF Covered
<1>3. CASE buckets[c] # NoBucket
  <2> DEFINE last == buckets[c].last
             quiet == BucketTTL - 2 * MaxLag
  <2>1. buckets[c] \in Bucket
    BY <1>3 DEF LimiterInv, TypeOK
  <2>2. last \in Int /\ buckets[c].lastSeen \in Int /\ buckets[c].tokens \in Nat
    BY <2>1, Constants DEF Bucket
  <2>3. now - buckets[c].lastSeen >= BucketTTL
    BY <1>3 DEF Cleaned, Expired
  <2>4. last - buckets[c].lastSeen <= MaxLag
    BY <1>3 DEF LimiterInv, ReadingsAreRecent
  <2>5. last >= start /\ spent[c] + buckets[c].tokens <= Burst + Rate * (last - start)
    BY <1>1, <1>3 DEF Covered
  <2>6. quiet \in Nat /\ Rate * quiet >= Burst
    BY Constants, RefillsWithinTTL DEF RefillsWithinTTL
  <2>7. (last - start) + quiet <= (clock - MaxLag) - start
    BY <1>0, <2>2, <2>3, <2>4, Constants
  <2>8. Rate * ((last - start) + quiet) <= Rate * ((clock - MaxLag) - start)
    <3>1. (last - start) + quiet \in Int /\ (clock - MaxLag) - start \in Int
      BY <1>0, <2>2, <2>6
    <3> QED BY <2>7, <3>1, RateGrows
  <2>9. Rate * ((last - start) + quiet) = Rate * (last - start) + Rate * quiet
    <3>1. last - start \in Int /\ quiet \in Int
      BY <1>0, <2>2, <2>6
    <3> QED BY <3>1, RateAdds
  <2>10. start <= clock - MaxLag
    BY <1>0, <2>2, <2>5, <2>6, <2>7
  <2>11. /\ Rate * (last - start) \in Int /\ Rate * quiet \in Int
         /\ Rate * ((clock - MaxLag) - start) \in Int
    <3>1. last - start \in Int /\ quiet \in Int /\ (clock - MaxLag) - start \in Int
      BY <1>0, <2>2, <2>6
    <3> QED BY <3>1, RateTypes
  <2> DEFINE x == Rate * (last - start)
             y == Rate * quiet
             z == Rate * ((clock - MaxLag) - start)
  <2>12. x + y <= z /\ spent[c] + buckets[c].tokens <= Burst + x /\ y >= Burst
         /\ x \in Int /\ y \in Int /\ z \in Int
    BY <2>5, <2>6, <2>8, <2>9, <2>11
  <2> HIDE DEF x, y, z, last, quiet
  <2>13. spent[c] <= z
    BY <1>0, <2>2, <2>12, Constants
  <2> QED BY <2>10, <2>13 DEF z
<1> QED BY <1>2, <1>3

\* The bucket balances what its client has spent.
LEMMA BucketForCovers ==
  ASSUME LimiterInv, NEW c \in Clients, NEW now, Reading(now), spent[c] # 0
  PROVE  /\ BucketFor(c, now).last >= start
         /\ spent[c] + BucketFor(c, now).tokens
              <= Burst + Rate * (BucketFor(c, now).last - start)
<1>0. /\ now \in Int /\ now \in Time /\ clock \in Int /\ start \in Int /\ MaxLag \in Nat
      /\ clock - now <= MaxLag /\ spent[c] \in Nat /\ Burst \in Nat
  BY Constants DEF Reading, LimiterInv, TypeOK
<1>1. CASE Cleaned(now)[c] = NoBucket
  <2>1. start <= clock - MaxLag /\ spent[c] <= Rate * ((clock - MaxLag) - start)
    BY <1>1, CleanedIsPaid
  <2>2. BucketFor(c, now) = NewBucket(now)
    BY <1>1 DEF BucketFor
  <2>3. BucketFor(c, now).last = now /\ BucketFor(c, now).tokens = Burst
    BY <2>2 DEF NewBucket
  <2>4. (clock - MaxLag) - start <= now - start /\ start <= now
    BY <1>0, <2>1
  <2>5. /\ Rate * ((clock - MaxLag) - start) <= Rate * (now - start)
        /\ Rate * ((clock - MaxLag) - start) \in Int /\ Rate * (now - start) \in Int
    <3>1. (clock - MaxLag) - start \in Int /\ now - start \in Int
      BY <1>0
    <3> QED BY <2>4, <3>1, RateGrows, RateTypes
  <2> DEFINE x == Rate * ((clock - MaxLag) - start)
             y == Rate * (now - start)
  <2>6. spent[c] <= x /\ x <= y /\ x \in Int /\ y \in Int
    BY <2>1, <2>5
  <2> HIDE DEF x, y
  <2>7. spent[c] + Burst <= Burst + y
    BY <1>0, <2>6
  <2> QED BY <2>3, <2>4, <2>7 DEF y
<1>2. CASE Cleaned(now)[c] # NoBucket
  <2> DEFINE b == buckets[c]
             f == BucketFor(c, now)
  <2>1. Cleaned(now)[c] = b /\ b \in Bucket /\ b # NoBucket
    BY <1>0, <1>2, CleanedType
  <2>2. f = Refilled(b, now)
    BY <1>2, <2>1 DEF BucketFor
  <2>3. b.last >= start /\ spent[c] + b.tokens <= Burst + Rate * (b.last - start)
    BY <2>1 DEF LimiterInv, Covered
  <2>4. b.last \in Int /\ b.tokens \in Int
    BY <2>1, Constants DEF Bucket
  <2>5. CASE now > b.last
    <3>1. f.last = now /\ f.tokens <= b.tokens + Rate * (now - b.last)
      BY <1>0, <2>1, <2>2, <2>5, RefilledType
    <3>2. f.tokens \in Int
      BY <1>0, <2>1, <2>2, RefilledType, Constants DEF Bucket
    <3>3. Rate * ((b.last - start) + (now - b.last)) = Rate * (b.last - start) + Rate * (now - b.last)
      <4>1. b.last - start \in Int /\ now - b.last \in Int
        BY <1>0, <2>4
      <4> QED BY <4>1, RateAdds
    <3>4. (b.last - start) + (now - b.last) = now - start
      BY <1>0, <2>4
    <3>5. Rate * (b.last - start) \in Int /\ Rate * (now - b.last) \in Int
      <4>1. b.last - start \in Int /\ now - b.last \in Int
        BY <1>0, <2>4
      <4> QED BY <4>1, RateTypes
    <3> DEFINE x == Rate * (b.last - start)
               y == Rate * (now - b.last)
               z == Rate * (now - start)
    <3>6. /\ z = x + y /\ f.tokens <= b.tokens + y /\ spent[c] + b.tokens <= Burst + x
          /\ x \in Int /\ y \in Int
      BY <2>3, <3>1, <3>3, <3>4, <3>5
    <3>7. f.last >= start
      BY <1>0, <2>3, <2>4, <2>5, <3>1
    <3> HIDE DEF x, y, z, b, f
    <3>8. spent[c] + f.tokens <= Burst + z
      BY <1>0, <2>4, <3>2, <3>6
    <3> QED BY <3>1, <3>7, <3>8 DEF z, f
  <2>6. CASE now <= b.last
    <3>1. f.last = b.last /\ f.tokens = b.tokens
      BY <1>0, <2>1, <2>2, <2>4, <2>6, RefilledType
    <3> QED BY <2>3, <3>1
  <2> QED BY <1>0, <2>4, <2>5, <2>6
<1> QED BY <1>1, <1>2

-----------------------------------------------------------------------------
(* Every action preserves the balance. *)

LEMMA InitLimiter == Init => LimiterInv
<1> SUFFICES ASSUME Init PROVE LimiterInv
  OBVIOUS
<1>1. 0 \in Time
  BY Constants
<1>2. TypeOK
  BY <1>1 DEF Init, TypeOK
<1>3. ReadingsAreRecent /\ StaleBucketsGo
  BY Constants DEF Init, ReadingsAreRecent, StaleBucketsGo
<1>4. \A c \in Clients : Covered(c)
  BY DEF Init, Covered
<1> QED BY <1>2, <1>3, <1>4 DEF LimiterInv

\* What was paid for stays paid for as time passes.
LEMMA PaidLater ==
  ASSUME LimiterInv, NEW c \in Clients, buckets[c] = NoBucket, spent[c] # 0,
         NEW next \in Int, clock <= next
  PROVE  start <= next - MaxLag /\ spent[c] <= Rate * ((next - MaxLag) - start)
<1>0. clock \in Int /\ start \in Int /\ MaxLag \in Int /\ spent[c] \in Int /\ Covered(c)
  BY Constants DEF LimiterInv, TypeOK
<1>1. start <= clock - MaxLag /\ spent[c] <= Rate * ((clock - MaxLag) - start)
  BY <1>0 DEF Covered
<1> DEFINE x == Rate * ((clock - MaxLag) - start)
           y == Rate * ((next - MaxLag) - start)
<1>2. x <= y /\ x \in Int /\ y \in Int
  <2>1. /\ (clock - MaxLag) - start \in Int /\ (next - MaxLag) - start \in Int
        /\ (clock - MaxLag) - start <= (next - MaxLag) - start
    BY <1>0
  <2> QED BY <2>1, RateGrows, RateTypes
<1>3. spent[c] <= x
  BY <1>1
<1> HIDE DEF x, y
<1>4. spent[c] <= y
  BY <1>0, <1>2, <1>3
<1>5. start <= next - MaxLag
  BY <1>0, <1>1
<1> QED BY <1>4, <1>5 DEF y

\* A client's balance only looks at its bucket, at what it spent, at start
\* and, without a bucket, at the clock, which does not go back.
LEMMA StaysCovered ==
  ASSUME LimiterInv, TypeOK', NEW c \in Clients, clock <= clock',
         start' = start, spent'[c] = spent[c], buckets'[c] = buckets[c]
  PROVE  Covered(c)'
<1>1. Covered(c)
  BY DEF LimiterInv
<1>2. CASE spent[c] = 0
  BY <1>2 DEF Covered
<1>3. CASE buckets[c] # NoBucket /\ spent[c] # 0
  BY <1>1, <1>3 DEF Covered
<1>4. CASE buckets[c] = NoBucket /\ spent[c] # 0
  <2>1. clock' \in Int
    BY Constants DEF TypeOK
  <2>2. start <= clock' - MaxLag /\ spent[c] <= Rate * ((clock' - MaxLag) - start)
    BY <1>4, <2>1, PaidLater
  <2> QED BY <1>4, <2>2 DEF Covered
<1> QED BY <1>2, <1>3, <1>4

LEMMA ArriveStep ==
  ASSUME LimiterInv, NEW r \in Requests, NEW c \in Clients, Arrive(r, c)
  PROVE  LimiterInv'
<1>0. clock \in Time /\ clock \in Int
  BY DEF LimiterInv, TypeOK
<1>1. TypeOK'
  BY <1>0 DEF LimiterInv, TypeOK, Arrive, Waiting
<1>2. ReadingsAreRecent'
  BY <1>0, Constants DEF LimiterInv, TypeOK, ReadingsAreRecent, Arrive
<1>3. StaleBucketsGo'
  BY DEF LimiterInv, StaleBucketsGo, Arrive
<1>4. \A k \in Clients : Covered(k)'
  BY <1>0, <1>1, StaysCovered DEF Arrive
<1> QED BY <1>1, <1>2, <1>3, <1>4 DEF LimiterInv

LEMMA TickStep ==
  ASSUME LimiterInv, Tick PROVE LimiterInv'
<1>0. clock \in Time /\ clock \in Int /\ MaxTime \in Nat /\ clock' = clock + 1
  BY Constants DEF LimiterInv, TypeOK, Tick
<1>1. TypeOK'
  BY <1>0 DEF LimiterInv, TypeOK, Tick
<1>2. ReadingsAreRecent'
  <2>1. \A r \in Requests : request[r] # Idle => request[r].now \in Time
    BY DEF LimiterInv, TypeOK, Waiting
  <2>2. \A c \in Clients : buckets[c] # NoBucket => buckets[c].last \in Time
    BY DEF LimiterInv, TypeOK, Bucket
  <2>3. lastCleanup \in Int
    BY DEF LimiterInv, TypeOK
  <2> QED
    BY <1>0, <2>1, <2>2, <2>3, Constants DEF LimiterInv, ReadingsAreRecent, Tick
<1>3. StaleBucketsGo'
  BY DEF LimiterInv, StaleBucketsGo, Tick
<1>4. \A k \in Clients : Covered(k)'
  BY <1>0, <1>1, StaysCovered DEF Tick
<1> QED BY <1>1, <1>2, <1>3, <1>4 DEF LimiterInv

\* What both ends of allow have in common: the request's bucket b differs
\* from BucketFor at most in its tokens.
LEMMA TakeStep ==
  ASSUME LimiterInv, NEW r \in Requests, request[r] # Idle,
         NEW b \in Bucket, Take(r, b),
         NEW c \in Clients, request[r].client = c,
         NEW now \in Time, request[r].now = now,
         b.last = BucketFor(c, now).last, b.lastSeen = BucketFor(c, now).lastSeen,
         spent' \in [Clients -> Nat],
         \A k \in Clients \ {c} : spent'[k] = spent[k],
         Covered(c)'
  PROVE  LimiterInv'
<1>1. request[r].client = c /\ request[r].now = now
  OBVIOUS
<1>2. Reading(now)
  BY <1>1 DEF LimiterInv, ReadingsAreRecent, Reading
<1>3. /\ buckets' = [Cleaned(now) EXCEPT ![c] = b]
      /\ lastCleanup' = IF CleanupDue(now) THEN now ELSE lastCleanup
      /\ request' = [request EXCEPT ![r] = Idle]
      /\ clock' = clock /\ start' = start
  BY <1>1 DEF Take
<1>4. b.lastSeen = now /\ now <= b.last /\ b.last <= clock
  BY <1>1, <1>2, BucketForType
<1>5. /\ clock \in Int /\ now \in Int /\ lastCleanup \in Int /\ b.last \in Int
      /\ now <= clock /\ clock - now <= MaxLag /\ lastCleanup <= clock
  BY <1>2 DEF LimiterInv, TypeOK, ReadingsAreRecent, Reading, Bucket
<1>6. buckets'[c] = b /\ \A k \in Clients \ {c} : buckets'[k] = Cleaned(now)[k]
  BY <1>3 DEF Cleaned
<1>7. TypeOK'
  <2>1. buckets' \in [Clients -> Bucket \cup {NoBucket}]
    <3>1. Cleaned(now) \in [Clients -> Bucket \cup {NoBucket}]
      BY DEF LimiterInv, TypeOK, Cleaned
    <3> QED BY <1>3, <3>1
  <2>2. lastCleanup' \in Time
    BY <1>3 DEF LimiterInv, TypeOK
  <2> QED BY <1>3, <2>1, <2>2 DEF LimiterInv, TypeOK
<1>8. ReadingsAreRecent'
  <2>1. lastCleanup' <= clock'
    BY <1>3, <1>5
  <2>2. \A s \in Requests :
          request'[s] # Idle => request'[s].now <= clock' /\ clock' - request'[s].now <= MaxLag
    BY <1>3 DEF LimiterInv, TypeOK, ReadingsAreRecent
  <2>3. ASSUME NEW k \in Clients, buckets'[k] # NoBucket
        PROVE  /\ buckets'[k].lastSeen <= buckets'[k].last /\ buckets'[k].last <= clock'
               /\ buckets'[k].last - buckets'[k].lastSeen <= MaxLag
    <3>1. CASE k = c
      BY <1>3, <1>4, <1>5, <1>6, <3>1, Constants
    <3>2. CASE k # c
      <4>1. buckets'[k] = buckets[k]
        BY <1>5, <1>6, <2>3, <3>2, CleanedType
      <4> QED BY <1>3, <2>3, <4>1 DEF LimiterInv, ReadingsAreRecent
    <3> QED BY <3>1, <3>2
  <2> QED BY <2>1, <2>2, <2>3 DEF ReadingsAreRecent
<1>9. StaleBucketsGo'
  <2>1. ASSUME NEW k \in Clients, buckets'[k] # NoBucket
        PROVE  lastCleanup' - buckets'[k].lastSeen < BucketTTL
    <3>1. CASE k = c
      BY <1>3, <1>4, <1>5, <1>6, <3>1, Constants
    <3>2. CASE k # c
      <4>1. buckets'[k] = Cleaned(now)[k] /\ buckets'[k] = buckets[k]
        BY <1>5, <1>6, <2>1, <3>2, CleanedType
      <4>2. buckets[k].lastSeen \in Int
        BY <2>1, <4>1 DEF LimiterInv, TypeOK, Bucket
      <4>3. CASE CleanupDue(now)
        <5>1. ~Expired(buckets[k], now)
          BY <2>1, <4>1, <4>3 DEF Cleaned
        <5> QED BY <1>3, <1>5, <4>1, <4>2, <4>3, <5>1, Constants DEF Expired
      <4>4. CASE ~CleanupDue(now)
        BY <1>3, <2>1, <4>1, <4>4 DEF LimiterInv, StaleBucketsGo
      <4> QED BY <4>3, <4>4
    <3> QED BY <3>1, <3>2
  <2> QED BY <2>1 DEF StaleBucketsGo
<1>10. ASSUME NEW k \in Clients PROVE Covered(k)'
  <2>1. CASE k = c
    BY <1>1, <2>1
  <2>2. CASE k # c /\ Cleaned(now)[k] = buckets[k]
    BY <1>1, <1>3, <1>5, <1>6, <1>7, <2>2, StaysCovered
  <2>3. CASE k # c /\ Cleaned(now)[k] = NoBucket
    <3>1. spent'[k] = spent[k] /\ buckets'[k] = NoBucket
      BY <1>1, <1>6, <2>3
    <3>2. spent[k] # 0 => /\ start <= clock - MaxLag
                          /\ spent[k] <= Rate * ((clock - MaxLag) - start)
      BY <1>2, <2>3, CleanedIsPaid
    <3> QED BY <1>3, <3>1, <3>2 DEF Covered
  <2> QED BY <1>5, <2>1, <2>2, <2>3, CleanedType
<1> QED BY <1>7, <1>8, <1>9, <1>10 DEF LimiterInv

LEMMA AdmitStep ==
  ASSUME LimiterInv, NEW r \in Requests, Admit(r) PROVE LimiterInv'
<1>1. request[r] # Idle
  BY DEF Admit
<1>2. PICK c \in Clients, now \in Time :
        request[r].client = c /\ request[r].now = now
  BY <1>1 DEF LimiterInv, TypeOK, Waiting
<1> DEFINE f == BucketFor(c, now)
           b == [f EXCEPT !.tokens = @ - Token]
<1>3. Reading(now)
  BY <1>1, <1>2 DEF LimiterInv, ReadingsAreRecent, Reading
<1>4. f \in Bucket /\ now <= f.last
  BY <1>3, BucketForType
<1>5. /\ f.tokens >= Token /\ Take(r, b)
      /\ spent' = IF now >= start THEN [spent EXCEPT ![c] = @ + Token] ELSE spent
  BY <1>2 DEF Admit
<1>6. /\ b \in Bucket /\ b.last = f.last /\ b.lastSeen = f.lastSeen
      /\ b.tokens = f.tokens - Token
  BY <1>4, <1>5, Constants DEF Bucket
<1>7. /\ spent' \in [Clients -> Nat]
      /\ \A k \in Clients \ {c} : spent'[k] = spent[k]
  BY <1>5, Constants DEF LimiterInv, TypeOK
<1>8. buckets'[c] = b /\ start' = start
  BY <1>2, <1>5 DEF Take, Cleaned
<1>9. /\ f.tokens \in 0..Burst /\ f.last \in Int /\ start \in Int /\ now \in Int
      /\ spent[c] \in Nat /\ Token \in Nat /\ Burst \in Nat
  BY <1>2, <1>4, Constants DEF Bucket, LimiterInv, TypeOK
<1>10. b # NoBucket
  BY <1>6, BucketIsNot
<1>11. Covered(c)'
  <2>1. CASE spent'[c] = 0
    BY <2>1 DEF Covered
  <2>2. CASE spent'[c] # 0 /\ spent[c] # 0
    <3>1. f.last >= start /\ spent[c] + f.tokens <= Burst + Rate * (f.last - start)
      BY <1>3, <2>2, BucketForCovers
    <3>2. spent'[c] = spent[c] \/ spent'[c] = spent[c] + Token
      BY <1>5 DEF LimiterInv, TypeOK
    <3>3. Rate * (f.last - start) \in Int
      <4>1. f.last - start \in Int
        BY <1>9
      <4> QED BY <4>1, RateTypes
    <3>4. spent'[c] + b.tokens <= Burst + Rate * (f.last - start)
      <4> DEFINE x == Rate * (f.last - start)
      <4>1. spent[c] + f.tokens <= Burst + x /\ x \in Int
        BY <3>1, <3>3
      <4> HIDE DEF x, b, f
      <4>2. spent'[c] + b.tokens <= Burst + x
        BY <1>6, <1>9, <3>2, <4>1
      <4> QED BY <4>2 DEF x
    <3> QED BY <1>6, <1>8, <1>10, <3>1, <3>4 DEF Covered
  <2>3. CASE spent'[c] # 0 /\ spent[c] = 0
    <3>1. now >= start /\ spent'[c] = Token
      BY <1>5, <1>9, <2>3 DEF LimiterInv, TypeOK
    <3>2. f.last >= start /\ f.last - start \in Int /\ 0 <= f.last - start
      BY <1>4, <1>9, <3>1
    <3>3. Rate * 0 <= Rate * (f.last - start) /\ Rate * (f.last - start) \in Int
      BY <3>2, RateGrows, RateTypes
    <3>4. Rate * 0 = 0
      BY LimiterAssumption DEF LimiterAssumption
    <3>5. spent'[c] + b.tokens <= Burst + Rate * (f.last - start)
      <4> DEFINE x == Rate * (f.last - start)
      <4>1. x \in Int /\ 0 <= x
        BY <3>3, <3>4
      <4> HIDE DEF x, b, f
      <4>2. spent'[c] + b.tokens <= Burst + x
        BY <1>6, <1>9, <3>1, <4>1
      <4> QED BY <4>2 DEF x
    <3> QED BY <1>6, <1>8, <1>10, <3>2, <3>5 DEF Covered
  <2> QED BY <2>1, <2>2, <2>3
<1> HIDE DEF f, b
<1> QED BY <1>1, <1>2, <1>5, <1>6, <1>7, <1>11, TakeStep DEF f

LEMMA RefuseStep ==
  ASSUME LimiterInv, NEW r \in Requests, Refuse(r) PROVE LimiterInv'
<1>1. request[r] # Idle
  BY DEF Refuse
<1>2. PICK c \in Clients, now \in Time :
        request[r].client = c /\ request[r].now = now
  BY <1>1 DEF LimiterInv, TypeOK, Waiting
<1> DEFINE f == BucketFor(c, now)
<1>3. Reading(now)
  BY <1>1, <1>2 DEF LimiterInv, ReadingsAreRecent, Reading
<1>4. f \in Bucket /\ f # NoBucket
  BY <1>3, BucketForType, BucketIsNot
<1>5. Take(r, f) /\ spent' = spent
  BY <1>2 DEF Refuse
<1>6. buckets'[c] = f /\ start' = start
  BY <1>2, <1>5 DEF Take, Cleaned
<1>7. Covered(c)'
  <2>1. CASE spent[c] = 0
    BY <1>5, <2>1 DEF Covered
  <2>2. CASE spent[c] # 0
    <3>1. f.last >= start /\ spent[c] + f.tokens <= Burst + Rate * (f.last - start)
      BY <1>3, <2>2, BucketForCovers
    <3> QED BY <1>4, <1>5, <1>6, <3>1 DEF Covered
  <2> QED BY <2>1, <2>2
<1>8. spent' \in [Clients -> Nat] /\ \A k \in Clients \ {c} : spent'[k] = spent[k]
  BY <1>5 DEF LimiterInv, TypeOK
<1> HIDE DEF f
<1> QED BY <1>1, <1>2, <1>4, <1>5, <1>7, <1>8, TakeStep DEF f

LEMMA NextLimiter == LimiterInv /\ [Next]_vars => LimiterInv'
<1> SUFFICES ASSUME LimiterInv, [Next]_vars PROVE LimiterInv'
  OBVIOUS
<1>1. ASSUME NEW r \in Requests, NEW c \in Clients, Arrive(r, c) PROVE LimiterInv'
  BY <1>1, ArriveStep
<1>2. ASSUME NEW r \in Requests, Allow(r) PROVE LimiterInv'
  BY <1>2, AdmitStep, RefuseStep DEF Allow
<1>3. CASE Tick
  BY <1>3, TickStep
<1>4. CASE UNCHANGED vars
  BY <1>4 DEF vars, LimiterInv, TypeOK, ReadingsAreRecent, StaleBucketsGo, Covered
<1> QED BY <1>1, <1>2, <1>3, <1>4 DEF Next

-----------------------------------------------------------------------------
LEMMA InvariantBounds == LimiterInv => AdmissionBound
<1> SUFFICES ASSUME LimiterInv, NEW c \in Clients, spent[c] > 0
             PROVE  spent[c] <= Burst + Rate * (clock - start)
  BY DEF AdmissionBound
<1>0. /\ spent[c] \in Nat /\ clock \in Int /\ start \in Int /\ Burst \in Nat /\ MaxLag \in Nat
      /\ Covered(c) /\ spent[c] # 0
  BY Constants DEF LimiterInv, TypeOK
<1>1. PICK t \in Int : t <= clock - start /\ spent[c] <= Burst + Rate * t
  <2>1. CASE buckets[c] # NoBucket
    <3>1. /\ buckets[c].last <= clock /\ buckets[c].last \in Int /\ buckets[c].tokens \in Nat
          /\ spent[c] + buckets[c].tokens <= Burst + Rate * (buckets[c].last - start)
      BY <1>0, <2>1, Constants DEF LimiterInv, TypeOK, ReadingsAreRecent, Bucket, Covered
    <3> DEFINE t == buckets[c].last - start
    <3>2. t \in Int /\ t <= clock - start
      BY <1>0, <3>1
    <3>3. Rate * t \in Int
      BY <3>2, RateTypes
    <3>4. spent[c] <= Burst + Rate * t
      BY <1>0, <3>1, <3>3
    <3> QED BY <3>2, <3>4
  <2>2. CASE buckets[c] = NoBucket
    <3> DEFINE t == (clock - MaxLag) - start
    <3>1. spent[c] <= Rate * t /\ t \in Int /\ t <= clock - start
      BY <1>0, <2>2 DEF Covered
    <3>2. Rate * t \in Int
      BY <3>1, RateTypes
    <3>3. spent[c] <= Burst + Rate * t
      BY <1>0, <3>1, <3>2
    <3> QED BY <3>1, <3>3
  <2> QED BY <2>1, <2>2
<1>2. Rate * t <= Rate * (clock - start)
  <2>1. clock - start \in Int
    BY <1>0
  <2> QED BY <1>1, <2>1, RateGrows
<1>3. Rate * t \in Int /\ Rate * (clock - start) \in Int
  BY <1>0, RateTypes
<1> QED BY <1>0, <1>1, <1>2, <1>3

\* Whatever the window, the load, the order in which requests get the mutex
\* and the cleanups in between, a client gets at most a burst and the refill.
THEOREM LimiterIsBounded == Spec => []AdmissionBound
BY InitLimiter, NextLimiter, InvariantBounds, PTL DEF Spec

\* Tokens, readings and counts keep their types.
THEOREM LimiterIsTyped == Spec => []TypeOK
<1>1. LimiterInv => TypeOK BY DEF LimiterInv
<1> QED BY InitLimiter, NextLimiter, <1>1, PTL DEF Spec

\* Every bucket that remains was seen within the TTL before the last cleanup.
THEOREM LimiterForgets == Spec => []StaleBucketsGo
<1>1. LimiterInv => StaleBucketsGo BY DEF LimiterInv
<1> QED BY InitLimiter, NextLimiter, <1>1, PTL DEF Spec

\* The inductive invariant itself: tokens and admissions balance.
THEOREM LimiterBalance == Spec => []LimiterInv
BY InitLimiter, NextLimiter, PTL DEF Spec

=============================================================================
