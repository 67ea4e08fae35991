-------------------------- MODULE MessageQueue_proofs --------------------------
(* What the broker promises to whatever implements it.                      *)
EXTENDS MessageQueue, TLAPS

QueueInv ==
  /\ unacked \in [Workers -> SUBSET sent]
  /\ OnePlace
  /\ Prefetch

LEMMA QueueInvInit == Init => QueueInv
BY DEF Init, QueueInv, OnePlace, Prefetch

\* Whoever answers a message was the only one to have it.
LEMMA AnswerStep ==
  ASSUME QueueInv, NEW w \in Workers, NEW m \in unacked[w],
         unacked' = [unacked EXCEPT ![w] = @ \ {m}],
         ready' \in {ready, ready \cup {m}}, UNCHANGED sent
  PROVE  QueueInv'
<1>1. m \in sent /\ \A v \in Workers : m \in unacked[v] => v = w
  BY DEF QueueInv, OnePlace
<1>2. \A v \in Workers : unacked'[v] = unacked[v] \ {m}
  BY <1>1 DEF QueueInv
<1>3. unacked' \in [Workers -> SUBSET sent']
  BY DEF QueueInv
<1>4. OnePlace'
  BY <1>1, <1>2 DEF QueueInv, OnePlace
<1>5. Prefetch'
  BY <1>2 DEF QueueInv, Prefetch
<1> QED
  BY <1>3, <1>4, <1>5 DEF QueueInv

LEMMA DeliverStep ==
  ASSUME QueueInv, NEW w \in Workers, NEW m \in Messages, Deliver(w, m) PROVE QueueInv'
<1>1. /\ m \in ready /\ m \in sent /\ ready' = ready \ {m} /\ UNCHANGED sent
      /\ \A v \in Workers : unacked'[v] = IF v = w THEN unacked[v] \cup {m} ELSE unacked[v]
  BY DEF QueueInv, OnePlace, Deliver
<1>2. unacked' \in [Workers -> SUBSET sent']
  BY <1>1 DEF QueueInv, Deliver
<1>3. OnePlace'
  <2>1. \A v \in Workers : m \notin unacked[v] /\ unacked[v] \subseteq sent \ ready
    BY <1>1 DEF QueueInv, OnePlace
  <2>2. ready' \subseteq sent' /\ \A v \in Workers : unacked'[v] \subseteq sent' \ ready'
    BY <1>1, <2>1 DEF QueueInv, OnePlace
  <2>3. ASSUME NEW u \in Workers, NEW v \in Workers, unacked'[v] \cap unacked'[u] # {}
        PROVE  v = u
    BY ZenonT(30), <1>1, <2>1, <2>3 DEF QueueInv, OnePlace
  <2> QED
    BY <2>2, <2>3 DEF OnePlace
<1>4. Prefetch'
  <2>1. \A n \in unacked[w] : QueueOf[n] # QueueOf[m]
    BY DEF Deliver
  <2>2. \A v \in Workers : \A k, n \in unacked[v] : QueueOf[k] = QueueOf[n] => k = n
    BY DEF QueueInv, Prefetch
  <2>3. ASSUME NEW k \in unacked'[w], NEW n \in unacked'[w], QueueOf[k] = QueueOf[n] PROVE k = n
    <3>1. unacked'[w] = unacked[w] \cup {m}
      BY <1>1
    <3>2. k \in unacked[w] => QueueOf[k] # QueueOf[m]
      BY <2>1
    <3>3. n \in unacked[w] => QueueOf[n] # QueueOf[m]
      BY <2>1
    <3>4. k \in unacked[w] /\ n \in unacked[w] => k = n
      BY <2>2, <2>3
    <3>5. CASE k \in unacked[w]
      BY <2>3, <3>1, <3>2, <3>4, <3>5
    <3>6. CASE k = m
      BY <2>3, <3>1, <3>3, <3>6
    <3> QED
      BY <3>1, <3>5, <3>6
  <2> QED
    BY <1>1, <2>2, <2>3 DEF Prefetch
<1> QED
  BY <1>2, <1>3, <1>4 DEF QueueInv

LEMMA RecoverStep ==
  ASSUME QueueInv, NEW w \in Workers, Recover(w) PROVE QueueInv'
<1>1. /\ ready' = ready \cup unacked[w] /\ UNCHANGED sent
      /\ \A v \in Workers : unacked'[v] = IF v = w THEN {} ELSE unacked[v]
  BY DEF QueueInv, Recover
<1>2. unacked' \in [Workers -> SUBSET sent']
  BY <1>1 DEF QueueInv, Recover
<1>3. OnePlace'
  BY <1>1 DEF QueueInv, OnePlace
<1>4. Prefetch'
  BY <1>1 DEF QueueInv, Prefetch
<1> QED
  BY <1>2, <1>3, <1>4 DEF QueueInv

LEMMA QueueInvStep == QueueInv /\ [Next]_queueVars => QueueInv'
<1> SUFFICES ASSUME QueueInv, [Next]_queueVars PROVE QueueInv'
  OBVIOUS
<1>1. ASSUME NEW m \in Messages, Publish(m) PROVE QueueInv'
  BY <1>1 DEF QueueInv, OnePlace, Prefetch, Publish
<1>2. ASSUME NEW w \in Workers, NEW m \in Messages, Ack(w, m) \/ Nack(w, m) PROVE QueueInv'
  BY <1>2, AnswerStep DEF Ack, Nack
<1>3. CASE UNCHANGED queueVars
  BY <1>3 DEF queueVars, QueueInv, OnePlace, Prefetch
<1> QED
  BY <1>1, <1>2, <1>3, DeliverStep, RecoverStep DEF Next

\* At-least-once delivery keeps each message in one place: two workers have
\* it at once only if the broker no longer counts on one of them.
THEOREM MessagesHaveOnePlace == Spec => []OnePlace
<1>1. QueueInv => OnePlace
  BY DEF QueueInv
<1> QED
  BY <1>1, QueueInvInit, QueueInvStep, PTL DEF Spec

\* Qos(1) holds through recoveries and requeues.
THEOREM PrefetchIsKept == Spec => []Prefetch
<1>1. QueueInv => Prefetch
  BY DEF QueueInv
<1> QED
  BY <1>1, QueueInvInit, QueueInvStep, PTL DEF Spec

\* An acknowledged message does not come back.
THEOREM AcknowledgedIsGone == Spec => GoneForGood
<1>1. QueueInv /\ [Next]_queueVars => [\A m \in sent : m \in Live' => m \in Live]_queueVars
  <2> SUFFICES ASSUME QueueInv, Next, NEW m \in sent, m \in Live' PROVE m \in Live
    OBVIOUS
  <2>1. ASSUME NEW n \in Messages, Publish(n) PROVE m \in Live
    BY <2>1 DEF Publish, Live
  <2>2. ASSUME NEW w \in Workers, NEW n \in Messages, Deliver(w, n) \/ Ack(w, n) \/ Nack(w, n)
        PROVE  m \in Live
    <3>1. /\ unacked'[w] \subseteq unacked[w] \cup ready
          /\ \A v \in Workers \ {w} : unacked'[v] = unacked[v]
          /\ ready' \subseteq ready \cup unacked[w]
      BY <2>2 DEF Deliver, Ack, Nack, QueueInv
    <3> QED
      BY <3>1 DEF Live
  <2>3. ASSUME NEW w \in Workers, Recover(w) PROVE m \in Live
    <3>1. /\ \A v \in Workers : unacked'[v] \subseteq unacked[v]
          /\ ready' = ready \cup unacked[w]
      BY <2>3 DEF Recover, QueueInv
    <3> QED
      BY <3>1 DEF Live
  <2> QED
    BY <2>1, <2>2, <2>3 DEF Next
<1> QED
  BY <1>1, QueueInvInit, QueueInvStep, PTL DEF Spec, GoneForGood

=============================================================================
