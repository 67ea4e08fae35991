----------------------------- MODULE MessageQueue -----------------------------
(***************************************************************************)
(* What RabbitMQ is for the service: queues that deliver at least once.  A *)
(* message is in its queue, or with the one consumer it was delivered to,  *)
(* until that consumer acknowledges it.  AvatarLifecycle and EventConsumer *)
(* both implement this specification (ImplementsQueue), so what the one    *)
(* has of handlers and the other of connections fits one broker.           *)
(***************************************************************************)
CONSTANTS Messages, QueueOf, Workers

VARIABLES
  sent,      \* messages whose publication succeeded
  ready,     \* messages that wait for delivery
  unacked    \* messages each worker has to answer

queueVars == <<sent, ready, unacked>>

Init ==
  /\ sent = {}
  /\ ready = {}
  /\ unacked = [w \in Workers |-> {}]

\* Without confirms, a publication that succeeded may still be dropped.
Publish(m) ==
  /\ m \notin sent
  /\ sent' = sent \cup {m}
  /\ ready' \in {ready, ready \cup {m}}
  /\ UNCHANGED unacked

\* Qos(1): one unanswered message of each queue.
Deliver(w, m) ==
  /\ m \in ready
  /\ \A n \in unacked[w] : QueueOf[n] # QueueOf[m]
  /\ ready' = ready \ {m}
  /\ unacked' = [unacked EXCEPT ![w] = @ \cup {m}]
  /\ UNCHANGED sent

Ack(w, m) ==
  /\ m \in unacked[w]
  /\ unacked' = [unacked EXCEPT ![w] = @ \ {m}]
  /\ UNCHANGED <<sent, ready>>

Nack(w, m) ==
  /\ m \in unacked[w]
  /\ unacked' = [unacked EXCEPT ![w] = @ \ {m}]
  /\ ready' = ready \cup {m}
  /\ UNCHANGED sent

\* A connection ends: everything unanswered waits again.
Recover(w) ==
  /\ unacked[w] # {}
  /\ ready' = ready \cup unacked[w]
  /\ unacked' = [unacked EXCEPT ![w] = {}]
  /\ UNCHANGED sent

Next ==
  \/ \E m \in Messages : Publish(m)
  \/ \E w \in Workers, m \in Messages : Deliver(w, m) \/ Ack(w, m) \/ Nack(w, m)
  \/ \E w \in Workers : Recover(w)

Spec == Init /\ [][Next]_queueVars

-----------------------------------------------------------------------------
(* What follows for every implementation. *)

\* A message is in one place: no two workers have it to answer, and none
\* has it while it waits.
OnePlace ==
  /\ ready \subseteq sent
  /\ \A w \in Workers :
       /\ unacked[w] \subseteq sent \ ready
       /\ \A v \in Workers : unacked[v] \cap unacked[w] # {} => v = w

\* No worker has two messages of one queue to answer.
Prefetch ==
  \A w \in Workers : \A m, n \in unacked[w] : QueueOf[m] = QueueOf[n] => m = n

Live == ready \cup UNION {unacked[w] : w \in Workers}

\* What was acknowledged, or dropped on publication, is never delivered
\* again.
GoneForGood == [][\A m \in sent : m \in Live' => m \in Live]_queueVars

=============================================================================
