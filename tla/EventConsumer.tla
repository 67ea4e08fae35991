----------------------------- MODULE EventConsumer -----------------------------
(***************************************************************************)
(* Worker processes as consumers of RabbitMQ: RunWorker, Runner.Run and    *)
(* Client.Consume with its two merge goroutines.  AvatarLifecycle has what *)
(* the handlers do; here a handler succeeds or fails, and what counts is   *)
(* which message it gets next, and where each message is when connections  *)
(* break and processes stop.                                               *)
(*                                                                         *)
(* Per worker and queue there is one slot, because Qos(1) lets a consumer  *)
(* have one unacknowledged message.  The merge goroutines of a worker meet *)
(* its Runner at an unbuffered channel, which serves blocked senders in    *)
(* the order in which they came (`line').                                  *)
(***************************************************************************)
EXTENDS Naturals, Sequences, FiniteSets

CONSTANTS
  Messages,
  QueueOf,      \* QueueOf[m]: the queue the exchange routes m to
  Rank,         \* Rank[m]: m's place in the order of publication
  Poison,       \* messages whose handling always fails: a body without an
                \* avatar id, an upload that cannot be decoded
  Workers,
  FaultKinds,
  MaxFaults,    \* bound: how many faults happen in a behaviour
  NoMessage

Queues == {"uploads", "deletes"}
Fault  == {"call", "consume", "cut", "stop", "crash"}

ASSUME ConsumerAssumption ==
  /\ QueueOf \in [Messages -> Queues]
  /\ Rank \in [Messages -> Nat]
  /\ \A m, n \in Messages : Rank[m] = Rank[n] => m = n
  /\ Poison \subseteq Messages
  /\ FaultKinds \subseteq Fault
  /\ MaxFaults \in Nat
  /\ NoMessage \notin Messages

VARIABLES
  published,   \* messages the server has published
  ready,       \* messages ready for delivery in their queues
  handled,     \* messages some handler finished without an error
  phase,       \* where RunWorker is in each process
  link,        \* AMQP connection: "none", "open", "lost"
  cancelled,   \* SIGTERM has cancelled the context
  subs,        \* the queues with a live consumer of each worker
  merges,      \* the queues whose merge goroutine of a worker still runs
  slot,        \* the message each worker holds of each queue
  stage,       \* where it is: "none", "wire", "offered", "running"
  line,        \* merge goroutines blocked in `out <- ...', first come first
  faults       \* faults so far

brokerVars == <<published, ready>>
workerVars == <<phase, link, cancelled, subs, merges, slot, stage, line>>
vars == <<published, ready, handled, workerVars, faults>>

WellTyped ==
  /\ published \in SUBSET Messages
  /\ ready \in SUBSET Messages
  /\ handled \in SUBSET Messages
  /\ phase \in [Workers -> {"down", "dialed", "half", "running", "closing"}]
  /\ link \in [Workers -> {"none", "open", "lost"}]
  /\ cancelled \in [Workers -> BOOLEAN]
  /\ subs \in [Workers -> SUBSET Queues]
  /\ merges \in [Workers -> SUBSET Queues]
  /\ slot \in [Workers -> [Queues -> Messages \cup {NoMessage}]]
  /\ stage \in [Workers -> [Queues -> {"none", "wire", "offered", "running"}]]
  /\ line \in [Workers -> Seq(Queues)]
  /\ faults \in 0..MaxFaults

SlotsFit ==
  \A w \in Workers, q \in Queues : slot[w][q] = NoMessage <=> stage[w][q] = "none"

\* Every variable has its type, and a slot is taken just as long as its
\* message is on the way to the Runner or with a handler.
TypeOK == WellTyped /\ SlotsFit

NoSlots  == [q \in Queues |-> NoMessage]
NoStages == [q \in Queues |-> "none"]

Init ==
  /\ published = {} /\ ready = {} /\ handled = {}
  /\ phase = [w \in Workers |-> "down"]
  /\ link = [w \in Workers |-> "none"]
  /\ cancelled = [w \in Workers |-> FALSE]
  /\ subs = [w \in Workers |-> {}]
  /\ merges = [w \in Workers |-> {}]
  /\ slot = [w \in Workers |-> NoSlots]
  /\ stage = [w \in Workers |-> NoStages]
  /\ line = [w \in Workers |-> <<>>]
  /\ faults = 0

Spend(kind) ==
  /\ kind \in FaultKinds
  /\ faults < MaxFaults
  /\ faults' = faults + 1

-----------------------------------------------------------------------------
(* RabbitMQ. *)

Publish(m) ==
  /\ m \notin published
  /\ \A n \in Messages \ published : QueueOf[n] = QueueOf[m] => Rank[m] <= Rank[n]
  /\ published' = published \cup {m}
  /\ ready' = ready \cup {m}
  /\ UNCHANGED <<handled, workerVars, faults>>

Waiting(q) == {m \in ready : QueueOf[m] = q}

\* What the broker counts as unacknowledged on the connection of w.
Unacked(w) ==
  IF link[w] = "open" THEN {slot[w][q] : q \in Queues} \ {NoMessage} ELSE {}

\* A requeued message takes its old place: the oldest ready one is next.
Oldest(m, q) == m \in Waiting(q) /\ \A n \in Waiting(q) : Rank[m] <= Rank[n]

Deliver(w, q) ==
  /\ link[w] = "open"
  /\ q \in subs[w]
  /\ stage[w][q] = "none"
  /\ \E m \in Messages :
       /\ Oldest(m, q)
       /\ ready' = ready \ {m}
       /\ slot' = [slot EXCEPT ![w][q] = m]
  /\ stage' = [stage EXCEPT ![w][q] = "wire"]
  /\ UNCHANGED <<published, handled, phase, link, cancelled, subs, merges, line, faults>>

ConnectionLost(w) ==
  /\ link[w] = "open"
  /\ Spend("cut")
  /\ ready' = ready \cup Unacked(w)
  /\ link' = [link EXCEPT ![w] = "lost"]
  /\ subs' = [subs EXCEPT ![w] = {}]
  /\ UNCHANGED <<published, handled, phase, cancelled, merges, slot, stage, line>>

-----------------------------------------------------------------------------
(* RunWorker and Client.Consume. *)

\* Dial, newStoreFromEnv, NewRunner.  A start that fails is tried again.
Start(w) ==
  /\ phase[w] = "down"
  /\ phase' = [phase EXCEPT ![w] = "dialed"]
  /\ link' = [link EXCEPT ![w] = "open"]
  /\ UNCHANGED <<brokerVars, handled, cancelled, subs, merges, slot, stage, line, faults>>

\* The first ConsumeWithContext: the broker may deliver from now on.
ConsumeUploads(w) ==
  /\ phase[w] = "dialed"
  /\ \/ /\ link[w] = "open"
        /\ phase' = [phase EXCEPT ![w] = "half"]
        /\ subs' = [subs EXCEPT ![w] = {"uploads"}]
        /\ UNCHANGED faults
     \/ /\ IF link[w] = "open" THEN Spend("consume") ELSE UNCHANGED faults
        /\ phase' = [phase EXCEPT ![w] = "closing"]
        /\ UNCHANGED subs
  /\ UNCHANGED <<brokerVars, handled, link, cancelled, merges, slot, stage, line>>

\* The second one; if it fails, nobody reads what the first one receives.
ConsumeDeletes(w) ==
  /\ phase[w] = "half"
  /\ \/ /\ link[w] = "open"
        /\ phase' = [phase EXCEPT ![w] = "running"]
        /\ subs' = [subs EXCEPT ![w] = @ \cup {"deletes"}]
        /\ merges' = [merges EXCEPT ![w] = Queues]
        /\ UNCHANGED faults
     \/ /\ IF link[w] = "open" THEN Spend("consume") ELSE UNCHANGED faults
        /\ phase' = [phase EXCEPT ![w] = "closing"]
        /\ UNCHANGED <<subs, merges>>
  /\ UNCHANGED <<brokerVars, handled, link, cancelled, slot, stage, line>>

\* SIGTERM.
Stop(w) ==
  /\ phase[w] # "down" /\ ~cancelled[w]
  /\ Spend("stop")
  /\ cancelled' = [cancelled EXCEPT ![w] = TRUE]
  /\ UNCHANGED <<brokerVars, handled, phase, link, subs, merges, slot, stage, line>>

\* Mutant: Consume instead of ConsumeWithContext.
BugCancelConsumer(w, q) == FALSE

\* Each consumer waits for the context and cancels itself.
CancelConsumer(w, q) ==
  /\ cancelled[w]
  /\ q \in subs[w]
  /\ subs' = [subs EXCEPT ![w] = @ \ {q}]
  /\ UNCHANGED <<brokerVars, handled, phase, link, cancelled, merges, slot, stage, line, faults>>

\* The merge goroutine has a delivery and blocks in `out <- delivery'.
OfferNext(w, q) ==
  /\ q \in merges[w]
  /\ stage[w][q] = "wire"
  /\ stage' = [stage EXCEPT ![w][q] = "offered"]
  /\ line' = [line EXCEPT ![w] = Append(@, q)]
  /\ UNCHANGED <<brokerVars, handled, phase, link, cancelled, subs, merges, slot, faults>>

\* Mutant: the merge goroutine returns with its context, not with its input.
BugMergeEnds(w, q) ==
  /\ q \in merges[w] \ subs[w]
  /\ merges' = [merges EXCEPT ![w] = @ \ {q}]
  /\ UNCHANGED <<brokerVars, handled, phase, link, cancelled, subs, slot, stage, line, faults>>

\* A cancelled consumer delivers what it has buffered and closes its input.
MergeEnds(w, q) ==
  /\ q \in merges[w] \ subs[w]
  /\ stage[w][q] \notin {"wire", "offered"}
  /\ merges' = [merges EXCEPT ![w] = @ \ {q}]
  /\ UNCHANGED <<brokerVars, handled, phase, link, cancelled, subs, slot, stage, line, faults>>

\* The client of a dead connection may drop what it has buffered.
DropBuffered(w, q) ==
  /\ link[w] = "lost"
  /\ stage[w][q] = "wire"
  /\ slot' = [slot EXCEPT ![w][q] = NoMessage]
  /\ stage' = [stage EXCEPT ![w][q] = "none"]
  /\ UNCHANGED <<brokerVars, handled, phase, link, cancelled, subs, merges, line, faults>>

-----------------------------------------------------------------------------
(* Runner.Run. *)

Idle(w) == \A q \in Queues : stage[w][q] # "running"

\* Mutant: a receive that looks at uploads first.
BugTake(w) ==
  LET q == IF stage[w]["uploads"] = "offered" THEN "uploads" ELSE Head(line[w])
  IN  /\ Idle(w)
      /\ line[w] # <<>>
      /\ stage' = [stage EXCEPT ![w][q] = "running"]
      /\ line' = [line EXCEPT ![w] = SelectSeq(@, LAMBDA p : p # q)]
      /\ UNCHANGED <<brokerVars, handled, phase, link, cancelled, subs, merges, slot, faults>>

\* `for delivery := range deliveries': the sender that blocked first.
Take(w) ==
  /\ Idle(w)
  /\ line[w] # <<>>
  /\ stage' = [stage EXCEPT ![w][Head(line[w])] = "running"]
  /\ line' = [line EXCEPT ![w] = Tail(@)]
  /\ UNCHANGED <<brokerVars, handled, phase, link, cancelled, subs, merges, slot, faults>>

\* Mutant: the slot of an answered delivery is not given back.
BugFinish(w, q) ==
  /\ stage[w][q] = "running"
  /\ stage' = [stage EXCEPT ![w][q] = "none"]
  /\ UNCHANGED <<published, phase, link, cancelled, subs, merges, slot, line>>

Finish(w, q) ==
  /\ stage[w][q] = "running"
  /\ slot' = [slot EXCEPT ![w][q] = NoMessage]
  /\ stage' = [stage EXCEPT ![w][q] = "none"]
  /\ UNCHANGED <<published, phase, link, cancelled, subs, merges, line>>

\* handle returns nil, and Ack removes the message if the connection lives.
Succeed(w, q) ==
  /\ slot[w][q] \notin Poison
  /\ Finish(w, q)
  /\ handled' = handled \cup {slot[w][q]}
  /\ UNCHANGED <<ready, faults>>

\* Mutant: Nack(requeue = false).
BugFail(w, q) ==
  /\ slot[w][q] \in Poison \/ cancelled[w] \/ faults < MaxFaults
  /\ Finish(w, q)
  /\ IF slot[w][q] \in Poison \/ cancelled[w] THEN UNCHANGED faults ELSE Spend("call")
  /\ UNCHANGED <<ready, handled>>

\* Mutant: a requeue that does not ask whether the connection lives.
BugFailTwice(w, q) ==
  /\ Finish(w, q)
  /\ IF slot[w][q] \in Poison \/ cancelled[w] THEN UNCHANGED faults ELSE Spend("call")
  /\ ready' = ready \cup {slot[w][q]}
  /\ UNCHANGED handled

\* handle returns an error, and Nack(true) requeues if the connection lives.
Fail(w, q) ==
  /\ Finish(w, q)
  /\ IF slot[w][q] \in Poison \/ cancelled[w] THEN UNCHANGED faults ELSE Spend("call")
  /\ ready' = IF link[w] = "open" THEN ready \cup {slot[w][q]} ELSE ready
  /\ UNCHANGED handled

-----------------------------------------------------------------------------
(* The end of a process. *)

\* wg.Wait, close(out): the range loop ends.  The deferred consumer.Close
\* has nothing left to give back.
Return(w) ==
  /\ phase[w] = "running"
  /\ Idle(w) /\ merges[w] = {}
  /\ phase' = [phase EXCEPT ![w] = "closing"]
  /\ UNCHANGED <<brokerVars, handled, link, cancelled, subs, merges, slot, stage, line, faults>>

\* The broker gets back what a closed or broken connection had not answered.
Gone(w) ==
  /\ ready' = ready \cup Unacked(w)
  /\ phase' = [phase EXCEPT ![w] = "down"]
  /\ link' = [link EXCEPT ![w] = "none"]
  /\ cancelled' = [cancelled EXCEPT ![w] = FALSE]
  /\ subs' = [subs EXCEPT ![w] = {}]
  /\ merges' = [merges EXCEPT ![w] = {}]
  /\ slot' = [slot EXCEPT ![w] = NoSlots]
  /\ stage' = [stage EXCEPT ![w] = NoStages]
  /\ line' = [line EXCEPT ![w] = <<>>]
  /\ UNCHANGED <<published, handled>>

\* The deferred closes of RunWorker, and the end of the process.
Exit(w) == phase[w] = "closing" /\ Gone(w) /\ UNCHANGED faults

Crash(w) == phase[w] # "down" /\ Spend("crash") /\ Gone(w)

-----------------------------------------------------------------------------
Main(w)     == Start(w) \/ ConsumeUploads(w) \/ ConsumeDeletes(w) \/ Exit(w)
Merge(w, q) == OfferNext(w, q) \/ MergeEnds(w, q) \/ DropBuffered(w, q)
Run(w)      == Take(w) \/ (\E q \in Queues : Succeed(w, q) \/ Fail(w, q)) \/ Return(w)

Next ==
  \/ \E m \in Messages : Publish(m)
  \/ \E w \in Workers :
       \/ Main(w) \/ Run(w)
       \/ \E q \in Queues : Deliver(w, q) \/ Merge(w, q) \/ CancelConsumer(w, q)
       \/ ConnectionLost(w) \/ Stop(w) \/ Crash(w)

Spec == Init /\ [][Next]_vars

-----------------------------------------------------------------------------
(* Safety. *)

\* A published message that no handler has finished is ready, or the broker
\* counts it as unacknowledged: no order of subscribing, failing,
\* cancelling, draining, breaking and closing loses one.
NothingLost ==
  \A m \in published \ handled :
    m \in ready \/ \E w \in Workers : m \in Unacked(w)

\* When Run returns because its consumers are gone, every delivery it got
\* has been handled and answered: the stores are closed under no handler,
\* and no message is left for a redelivery.
ReturnsDrained ==
  [][\A w \in Workers :
       phase[w] = "running" /\ phase'[w] = "closing" => slot[w] = NoSlots]_vars

-----------------------------------------------------------------------------
(* Refinement: where the broker has each message. *)

Queue == INSTANCE MessageQueue WITH
  sent    <- published,
  unacked <- [w \in Workers |-> Unacked(w)]

\* Connections that break, buffers that drain and processes that end make of
\* RabbitMQ what MessageQueue says: one place for each message, one message
\* of a queue per worker, and no way back once it is acknowledged.
ImplementsQueue == Queue!Spec

-----------------------------------------------------------------------------
(* Liveness.  Every goroutine that can go on does, the broker delivers to  *)
(* every consumer that has nothing unacknowledged, processes are restarted.*)

Fairness ==
  \A w \in Workers :
    /\ WF_vars(Main(w)) /\ WF_vars(Run(w))
    /\ \A q \in Queues :
         WF_vars(Deliver(w, q)) /\ WF_vars(Merge(w, q)) /\ WF_vars(CancelConsumer(w, q))

FairSpec == Spec /\ Fairness

\* No message that always fails is ahead of m in its queue.
ClearAhead(m) ==
  \A n \in Poison : QueueOf[n] = QueueOf[m] => Rank[m] < Rank[n]

\* A message with none ahead of it that fails for ever is handled: uploads
\* that are requeued without end do not keep deletes from the Runner.
GetsThrough ==
  \A m \in Messages \ Poison :
    ClearAhead(m) /\ m \in published ~> m \in handled

\* A worker that got SIGTERM ends, whatever is requeued meanwhile.
WorkersStop == \A w \in Workers : cancelled[w] ~> phase[w] = "down"

=============================================================================
