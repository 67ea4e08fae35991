-------------------------- MODULE EventConsumer_proofs --------------------------
(* Safety of the consumers, for any messages, workers and faults.           *)
EXTENDS EventConsumer, SequenceTheorems, TLAPS

LEMMA InitTypes == Init => WellTyped
BY ConsumerAssumption, EmptySeq DEF ConsumerAssumption, Init, WellTyped, NoSlots, NoStages

LEMMA SpendType ==
  ASSUME WellTyped, NEW kind, Spend(kind) PROVE faults' \in 0..MaxFaults
BY ConsumerAssumption DEF ConsumerAssumption, WellTyped, Spend

LEMMA UnackedType ==
  ASSUME WellTyped, NEW w \in Workers PROVE Unacked(w) \subseteq Messages
BY DEF WellTyped, Unacked

LEMMA GoneType ==
  ASSUME WellTyped, faults' \in 0..MaxFaults, NEW w \in Workers, Gone(w) PROVE WellTyped'
BY UnackedType, EmptySeq DEF WellTyped, Gone, NoSlots, NoStages

LEMMA FinishType ==
  ASSUME WellTyped, NEW w \in Workers, NEW q \in Queues, Finish(w, q), faults' \in 0..MaxFaults,
         ready' \in SUBSET Messages, handled' \in SUBSET Messages
  PROVE  WellTyped'
BY DEF WellTyped, Finish

LEMMA RunningSlot ==
  ASSUME WellTyped, NEW w \in Workers, NEW q \in Queues
  PROVE  slot[w][q] \in Messages \cup {NoMessage} /\ stage[w][q] \in {"none", "wire", "offered", "running"}
BY DEF WellTyped

-----------------------------------------------------------------------------
(* A slot holds a message exactly while its stage says so; the line holds  *)
(* the offered ones, once each; a running worker has a merge goroutine for *)
(* every consumer and for every delivery not yet handed to the Runner.     *)

LineFits ==
  \A w \in Workers :
    /\ \A i \in 1..Len(line[w]) : stage[w][line[w][i]] = "offered"
    /\ \A i, j \in 1..Len(line[w]) : line[w][i] = line[w][j] => i = j

MergesFit ==
  \A w \in Workers :
    phase[w] = "running" =>
      /\ subs[w] \subseteq merges[w]
      /\ \A q \in Queues : stage[w][q] \in {"wire", "offered"} => q \in merges[w]

ConsumerInv == WellTyped /\ SlotsFit /\ LineFits /\ MergesFit /\ NothingLost

LEMMA InitConsumer == Init => ConsumerInv
<1> SUFFICES ASSUME Init PROVE ConsumerInv
  OBVIOUS
<1>1. SlotsFit
  BY DEF Init, SlotsFit, NoSlots, NoStages
<1>2. LineFits
  BY DEF Init, LineFits
<1>3. MergesFit /\ NothingLost
  BY DEF Init, MergesFit, NothingLost
<1> QED
  BY <1>1, <1>2, <1>3, InitTypes DEF ConsumerInv

-----------------------------------------------------------------------------
(* Frame conditions.                                                       *)

\* NothingLost survives a step that gives every message of ready and of the
\* connections a place again.
LEMMA KeepsAll ==
  ASSUME NothingLost, handled \subseteq handled', published' = published,
         \A m \in ready : m \in ready' \/ m \in handled' \/ \E w \in Workers : m \in Unacked(w)',
         \A w \in Workers : \A m \in Unacked(w) :
           m \in ready' \/ m \in handled' \/ \E v \in Workers : m \in Unacked(v)'
  PROVE  NothingLost'
<1> SUFFICES ASSUME NEW m \in published', m \notin handled'
             PROVE  m \in ready' \/ \E w \in Workers : m \in Unacked(w)'
  BY DEF NothingLost
<1>1. m \in published /\ m \notin handled
  OBVIOUS
<1>2. m \in ready \/ \E w \in Workers : m \in Unacked(w)
  BY <1>1 DEF NothingLost
<1> QED
  BY <1>2

LEMMA SamePlaces ==
  ASSUME NothingLost, UNCHANGED <<published, ready, handled, link, slot>> PROVE NothingLost'
BY DEF NothingLost, Unacked

LEMMA SameSlots ==
  ASSUME ConsumerInv, UNCHANGED <<slot, stage, line>> PROVE SlotsFit' /\ LineFits'
BY DEF ConsumerInv, SlotsFit, LineFits

LEMMA SameMerges ==
  ASSUME ConsumerInv, UNCHANGED <<phase, subs, merges, stage>> PROVE MergesFit'
BY DEF ConsumerInv, MergesFit

-----------------------------------------------------------------------------
(* Every action preserves the invariant.                                   *)

LEMMA PublishStep ==
  ASSUME ConsumerInv, NEW m \in Messages, Publish(m) PROVE ConsumerInv'
<1>1. WellTyped'
  BY DEF ConsumerInv, WellTyped, Publish, workerVars
<1>2. NothingLost'
  BY DEF ConsumerInv, NothingLost, Publish, workerVars, Unacked
<1>3. SlotsFit' /\ LineFits' /\ MergesFit'
  BY SameSlots, SameMerges DEF Publish, workerVars
<1> QED
  BY <1>1, <1>2, <1>3 DEF ConsumerInv

LEMMA DeliverStep ==
  ASSUME ConsumerInv, NEW w \in Workers, NEW q \in Queues, Deliver(w, q) PROVE ConsumerInv'
<1>1. PICK m \in Messages : /\ m \in ready
                            /\ ready' = ready \ {m}
                            /\ slot' = [slot EXCEPT ![w][q] = m]
  BY DEF Deliver, Oldest, Waiting
<1>2. /\ stage' = [stage EXCEPT ![w][q] = "wire"] /\ stage[w][q] = "none"
      /\ link[w] = "open" /\ q \in subs[w]
      /\ UNCHANGED <<published, handled, phase, link, cancelled, subs, merges, line, faults>>
  BY DEF Deliver
<1>3. WellTyped'
  BY <1>1, <1>2 DEF ConsumerInv, WellTyped
<1>4. /\ \A v \in Workers, p \in Queues :
           /\ v # w \/ p # q => slot'[v][p] = slot[v][p] /\ stage'[v][p] = stage[v][p]
           /\ v = w /\ p = q => slot'[v][p] = m /\ stage'[v][p] = "wire"
  BY <1>1, <1>2 DEF ConsumerInv, WellTyped
<1>5. SlotsFit'
  BY <1>4, ConsumerAssumption DEF ConsumerAssumption, ConsumerInv, SlotsFit
<1>6. LineFits'
  <2>1. \A v \in Workers : \A i \in 1..Len(line[v]) : line[v][i] \in Queues
    BY DEF ConsumerInv, WellTyped
  <2> QED
    BY <1>2, <1>4, <2>1 DEF ConsumerInv, LineFits
<1>7. MergesFit'
  BY <1>2, <1>4 DEF ConsumerInv, MergesFit
<1>8. NothingLost'
  <2>1. slot[w][q] = NoMessage
    BY <1>2 DEF ConsumerInv, SlotsFit
  <2>2. m \in Unacked(w)'
    BY <1>2, <1>4, ConsumerAssumption DEF ConsumerAssumption, Unacked
  <2>3. \A v \in Workers : Unacked(v) \subseteq Unacked(v)'
    BY <1>2, <1>4, <2>1 DEF Unacked
  <2> QED
    BY <1>1, <1>2, <2>2, <2>3, KeepsAll DEF ConsumerInv
<1> QED
  BY <1>3, <1>5, <1>6, <1>7, <1>8 DEF ConsumerInv

LEMMA ConnectionLostStep ==
  ASSUME ConsumerInv, NEW w \in Workers, ConnectionLost(w) PROVE ConsumerInv'
<1>1. WellTyped'
  BY SpendType, UnackedType DEF ConsumerInv, WellTyped, ConnectionLost
<1>2. SlotsFit' /\ LineFits'
  BY SameSlots DEF ConnectionLost
<1>3. MergesFit'
  <2>1. \A v \in Workers : subs'[v] \subseteq subs[v]
    BY DEF ConsumerInv, WellTyped, ConnectionLost
  <2> QED
    BY <2>1 DEF ConsumerInv, MergesFit, ConnectionLost
<1>4. NothingLost'
  <2>1. \A v \in Workers \ {w} : Unacked(v)' = Unacked(v)
    BY DEF ConsumerInv, WellTyped, ConnectionLost, Unacked
  <2>2. ready' = ready \cup Unacked(w) /\ UNCHANGED <<published, handled>>
    BY DEF ConnectionLost
  <2> QED
    BY <2>1, <2>2, KeepsAll DEF ConsumerInv
<1> QED
  BY <1>1, <1>2, <1>3, <1>4 DEF ConsumerInv

LEMMA StartStep ==
  ASSUME ConsumerInv, NEW w \in Workers, Start(w) PROVE ConsumerInv'
<1>1. WellTyped'
  BY DEF ConsumerInv, WellTyped, Start, brokerVars
<1>2. SlotsFit' /\ LineFits'
  BY SameSlots DEF Start
<1>3. MergesFit'
  BY DEF ConsumerInv, WellTyped, MergesFit, Start
<1>4. NothingLost'
  <2>1. \A v \in Workers : Unacked(v) \subseteq Unacked(v)'
    BY DEF ConsumerInv, WellTyped, Start, Unacked
  <2> QED
    BY <2>1, KeepsAll DEF ConsumerInv, Start, brokerVars
<1> QED
  BY <1>1, <1>2, <1>3, <1>4 DEF ConsumerInv

LEMMA ConsumeStep ==
  ASSUME ConsumerInv, NEW w \in Workers, ConsumeUploads(w) \/ ConsumeDeletes(w)
  PROVE  ConsumerInv'
<1>1. faults' \in 0..MaxFaults
  BY SpendType DEF ConsumerInv, WellTyped, ConsumeUploads, ConsumeDeletes
<1>2. WellTyped'
  <2>1. \E ph \in {"half", "running", "closing"} : phase' = [phase EXCEPT ![w] = ph]
    BY DEF ConsumeUploads, ConsumeDeletes
  <2>2. merges' = merges \/ merges' = [merges EXCEPT ![w] = Queues]
    BY DEF ConsumeUploads, ConsumeDeletes
  <2>4. \/ subs' = subs
        \/ subs' = [subs EXCEPT ![w] = {"uploads"}]
        \/ subs' = [subs EXCEPT ![w] = @ \cup {"deletes"}]
    BY DEF ConsumeUploads, ConsumeDeletes
  <2>5. phase' \in [Workers -> {"down", "dialed", "half", "running", "closing"}]
    BY <2>1 DEF ConsumerInv, WellTyped
  <2>6. merges' \in [Workers -> SUBSET Queues]
    BY <2>2 DEF ConsumerInv, WellTyped
  <2>7. subs' \in [Workers -> SUBSET Queues]
    <3>1. {"uploads"} \subseteq Queues /\ subs[w] \cup {"deletes"} \subseteq Queues
      BY DEF ConsumerInv, WellTyped, Queues
    <3>2. subs \in [Workers -> SUBSET Queues]
      BY DEF ConsumerInv, WellTyped
    <3>3. \E s \in SUBSET Queues : subs' = subs \/ subs' = [subs EXCEPT ![w] = s]
      BY <2>4, <3>1
    <3> QED
      BY <3>2, <3>3
  <2>3. UNCHANGED <<published, ready, handled, link, cancelled, slot, stage, line>>
    BY DEF ConsumeUploads, ConsumeDeletes, brokerVars
  <2> QED
    BY <1>1, <2>3, <2>5, <2>6, <2>7 DEF ConsumerInv, WellTyped
<1>3. SlotsFit' /\ LineFits'
  BY SameSlots DEF ConsumeUploads, ConsumeDeletes
<1>4. NothingLost'
  BY SamePlaces DEF ConsumerInv, ConsumeUploads, ConsumeDeletes, brokerVars
<1>5. MergesFit'
  <2>1. \A v \in Workers \ {w} :
          phase'[v] = phase[v] /\ subs'[v] = subs[v] /\ merges'[v] = merges[v]
    BY DEF ConsumerInv, WellTyped, ConsumeUploads, ConsumeDeletes
  <2>2. phase'[w] = "running" => merges'[w] = Queues
    BY DEF ConsumerInv, WellTyped, ConsumeUploads, ConsumeDeletes
  <2>3. subs'[w] \subseteq Queues /\ stage' = stage
    BY <1>2 DEF WellTyped, ConsumeUploads, ConsumeDeletes
  <2> QED
    BY <2>1, <2>2, <2>3 DEF ConsumerInv, MergesFit
<1> QED
  BY <1>2, <1>3, <1>4, <1>5 DEF ConsumerInv

LEMMA StopStep ==
  ASSUME ConsumerInv, NEW w \in Workers, Stop(w) PROVE ConsumerInv'
<1>1. WellTyped'
  BY SpendType DEF ConsumerInv, WellTyped, Stop, brokerVars
<1> QED
  BY <1>1, SameSlots, SameMerges, SamePlaces DEF ConsumerInv, Stop, brokerVars

LEMMA CancelStep ==
  ASSUME ConsumerInv, NEW w \in Workers, NEW q \in Queues, CancelConsumer(w, q)
  PROVE  ConsumerInv'
<1>1. WellTyped'
  BY DEF ConsumerInv, WellTyped, CancelConsumer, brokerVars
<1>2. MergesFit'
  <2>1. \A v \in Workers : subs'[v] \subseteq subs[v]
    BY DEF ConsumerInv, WellTyped, CancelConsumer
  <2> QED
    BY <2>1 DEF ConsumerInv, MergesFit, CancelConsumer
<1> QED
  BY <1>1, <1>2, SameSlots, SamePlaces DEF ConsumerInv, CancelConsumer, brokerVars

LEMMA MergeEndsStep ==
  ASSUME ConsumerInv, NEW w \in Workers, NEW q \in Queues, MergeEnds(w, q)
  PROVE  ConsumerInv'
<1>1. WellTyped'
  BY DEF ConsumerInv, WellTyped, MergeEnds, brokerVars
<1>2. MergesFit'
  BY DEF ConsumerInv, WellTyped, MergesFit, MergeEnds
<1> QED
  BY <1>1, <1>2, SameSlots, SamePlaces DEF ConsumerInv, MergeEnds, brokerVars

LEMMA ReturnStep ==
  ASSUME ConsumerInv, NEW w \in Workers, Return(w) PROVE ConsumerInv'
<1>1. WellTyped'
  BY DEF ConsumerInv, WellTyped, Return, brokerVars
<1>2. MergesFit'
  BY DEF ConsumerInv, WellTyped, MergesFit, Return
<1> QED
  BY <1>1, <1>2, SameSlots, SamePlaces DEF ConsumerInv, Return, brokerVars

LEMMA GoneStep ==
  ASSUME ConsumerInv, NEW w \in Workers, Gone(w), faults' \in 0..MaxFaults
  PROVE  ConsumerInv'
<1>1. WellTyped'
  BY GoneType DEF ConsumerInv
<1>2. SlotsFit'
  BY DEF ConsumerInv, WellTyped, SlotsFit, Gone, NoSlots, NoStages
<1>3. LineFits'
  <2>1. \A v \in Workers \ {w} : line'[v] = line[v] /\ stage'[v] = stage[v]
    BY DEF ConsumerInv, WellTyped, Gone
  <2>2. line'[w] = <<>>
    BY DEF ConsumerInv, WellTyped, Gone
  <2> QED
    BY <2>1, <2>2 DEF ConsumerInv, LineFits
<1>4. MergesFit'
  BY DEF ConsumerInv, WellTyped, MergesFit, Gone
<1>5. NothingLost'
  <2>1. \A v \in Workers \ {w} : Unacked(v)' = Unacked(v)
    BY DEF ConsumerInv, WellTyped, Gone, Unacked
  <2>2. ready' = ready \cup Unacked(w) /\ UNCHANGED <<published, handled>>
    BY DEF Gone
  <2> QED
    BY <2>1, <2>2, KeepsAll DEF ConsumerInv
<1> QED
  BY <1>1, <1>2, <1>3, <1>4, <1>5 DEF ConsumerInv

LEMMA OfferStep ==
  ASSUME ConsumerInv, NEW w \in Workers, NEW q \in Queues, OfferNext(w, q)
  PROVE  ConsumerInv'
<1>1. /\ stage[w][q] = "wire" /\ q \in merges[w]
      /\ stage' = [stage EXCEPT ![w][q] = "offered"]
      /\ line' = [line EXCEPT ![w] = Append(line[w], q)]
      /\ UNCHANGED <<published, ready, handled, phase, link, cancelled, subs, merges, slot, faults>>
  BY DEF OfferNext, brokerVars
<1>2. line[w] \in Seq(Queues)
  BY DEF ConsumerInv, WellTyped
<1>3. Append(line[w], q) \in Seq(Queues)
  BY <1>2, AppendProperties
<1>4. WellTyped'
  BY <1>1, <1>3 DEF ConsumerInv, WellTyped
<1>5. \A v \in Workers, p \in Queues :
        stage'[v][p] = IF v = w /\ p = q THEN "offered" ELSE stage[v][p]
  BY <1>1 DEF ConsumerInv, WellTyped
<1>6. SlotsFit'
  BY <1>1, <1>5 DEF ConsumerInv, SlotsFit
<1>7. LineFits'
  <2>1. /\ \A i \in 1..Len(line[w]) : stage[w][line[w][i]] = "offered" /\ line[w][i] \in Queues
        /\ \A i, j \in 1..Len(line[w]) : line[w][i] = line[w][j] => i = j
    BY <1>2 DEF ConsumerInv, LineFits
  <2>2. /\ Len(line'[w]) = Len(line[w]) + 1
        /\ \A i \in 1..Len(line[w]) : line'[w][i] = line[w][i]
        /\ line'[w][Len(line[w]) + 1] = q
    BY <1>1, <1>2, AppendProperties DEF ConsumerInv, WellTyped
  <2>3. \A i \in 1..Len(line[w]) : line[w][i] # q
    BY <1>1, <2>1
  <2>4. \A v \in Workers \ {w} : line'[v] = line[v] /\ stage'[v] = stage[v]
    BY <1>1 DEF ConsumerInv, WellTyped
  <2>5. /\ \A i \in 1..Len(line'[w]) : stage'[w][line'[w][i]] = "offered"
        /\ \A i, j \in 1..Len(line'[w]) : line'[w][i] = line'[w][j] => i = j
    <3> DEFINE n == Len(line[w])
    <3>1. 1..Len(line'[w]) = (1..n) \cup {n + 1}
      BY <1>2, <2>2
    <3>2. \A i \in 1..n : line'[w][i] = line[w][i]
      BY <2>2
    <3>3. line'[w][n + 1] = q /\ stage'[w][q] = "offered"
      BY <1>1, <1>5, <2>2
    <3>4. n + 1 \notin 1..n
      BY <1>2
    <3> HIDE DEF n
    <3>5. \A i \in 1..n : stage'[w][line'[w][i]] = "offered"
      <4>1. \A p \in Queues : stage[w][p] = "offered" => stage'[w][p] = "offered"
        BY <1>5
      <4>2. \A i \in 1..n : stage[w][line[w][i]] = "offered" /\ line[w][i] \in Queues
        BY <2>1 DEF n
      <4> QED
        BY <3>2, <4>1, <4>2
    <3>6. \A i \in 1..n : line[w][i] # q
      BY <2>3 DEF n
    <3>7. \A i, j \in 1..n : line[w][i] = line[w][j] => i = j
      BY <2>1 DEF n
    <3>8. \A i \in 1..Len(line'[w]) : stage'[w][line'[w][i]] = "offered"
      BY <3>1, <3>3, <3>5
    <3>9. \A i, j \in 1..Len(line'[w]) : line'[w][i] = line'[w][j] => i = j
      BY <3>1, <3>2, <3>3, <3>6, <3>7
    <3> QED
      BY <3>8, <3>9
  <2> QED
    BY <2>4, <2>5 DEF ConsumerInv, LineFits
<1>8. MergesFit'
  BY <1>1, <1>5 DEF ConsumerInv, MergesFit
<1> QED
  BY <1>1, <1>4, <1>6, <1>7, <1>8, SamePlaces DEF ConsumerInv

LEMMA TakeStep ==
  ASSUME ConsumerInv, NEW w \in Workers, Take(w) PROVE ConsumerInv'
<1> DEFINE q == Head(line[w])
<1>1. /\ line[w] # <<>>
      /\ stage' = [stage EXCEPT ![w][q] = "running"]
      /\ line' = [line EXCEPT ![w] = Tail(line[w])]
      /\ UNCHANGED <<published, ready, handled, phase, link, cancelled, subs, merges, slot, faults>>
  BY DEF Take, brokerVars
<1>2. line[w] \in Seq(Queues)
  BY DEF ConsumerInv, WellTyped
<1>3. /\ q \in Queues /\ Tail(line[w]) \in Seq(Queues)
      /\ q = line[w][1] /\ 1 \in 1..Len(line[w])
      /\ Len(Tail(line[w])) = Len(line[w]) - 1
      /\ \A i \in 1..Len(Tail(line[w])) : Tail(line[w])[i] = line[w][i + 1]
  BY <1>1, <1>2, HeadTailProperties
<1>4. stage[w][q] = "offered"
  BY <1>3 DEF ConsumerInv, LineFits
<1> HIDE DEF q
<1>5. WellTyped'
  BY <1>1, <1>3 DEF ConsumerInv, WellTyped
<1>6. \A v \in Workers, p \in Queues :
        stage'[v][p] = IF v = w /\ p = q THEN "running" ELSE stage[v][p]
  BY <1>1, <1>3 DEF ConsumerInv, WellTyped
<1>7. SlotsFit'
  BY <1>1, <1>4, <1>6 DEF ConsumerInv, SlotsFit
<1>8. LineFits'
  <2>1. /\ \A i \in 1..Len(line[w]) : stage[w][line[w][i]] = "offered" /\ line[w][i] \in Queues
        /\ \A i, j \in 1..Len(line[w]) : line[w][i] = line[w][j] => i = j
    BY <1>2 DEF ConsumerInv, LineFits
  <2>2. line'[w] = Tail(line[w])
    BY <1>1 DEF ConsumerInv, WellTyped
  <2>3. \A i \in 1..Len(line'[w]) :
          /\ i + 1 \in 1..Len(line[w]) /\ line'[w][i] = line[w][i + 1]
          /\ line[w][i + 1] # q
    BY <1>2, <1>3, <2>1, <2>2
  <2>4. \A v \in Workers \ {w} : line'[v] = line[v] /\ stage'[v] = stage[v]
    BY <1>1 DEF ConsumerInv, WellTyped
  <2>5. \A i \in 1..Len(line'[w]) : stage'[w][line'[w][i]] = "offered"
    BY <1>6, <2>1, <2>3
  <2>6. \A i, j \in 1..Len(line'[w]) : line'[w][i] = line'[w][j] => i = j
    BY <2>1, <2>3
  <2> QED
    BY <2>4, <2>5, <2>6 DEF ConsumerInv, LineFits
<1>9. MergesFit'
  BY <1>1, <1>6 DEF ConsumerInv, MergesFit
<1> QED
  BY <1>1, <1>5, <1>7, <1>8, <1>9, SamePlaces DEF ConsumerInv

\* What empties one slot: a handler that returns, a buffer that is dropped.
LEMMA EmptySlot ==
  ASSUME ConsumerInv, NEW w \in Workers, NEW q \in Queues,
         stage[w][q] \in {"wire", "running"},
         slot' = [slot EXCEPT ![w][q] = NoMessage], stage' = [stage EXCEPT ![w][q] = "none"],
         UNCHANGED <<phase, subs, merges, line>>
  PROVE  SlotsFit' /\ LineFits' /\ MergesFit'
<1>1. \A v \in Workers, p \in Queues :
        /\ stage'[v][p] = IF v = w /\ p = q THEN "none" ELSE stage[v][p]
        /\ slot'[v][p] = IF v = w /\ p = q THEN NoMessage ELSE slot[v][p]
  BY DEF ConsumerInv, WellTyped
<1>2. SlotsFit' /\ MergesFit'
  BY <1>1 DEF ConsumerInv, SlotsFit, MergesFit
<1>3. LineFits'
  <2>1. \A v \in Workers : \A i \in 1..Len(line[v]) : line[v][i] \in Queues
    BY DEF ConsumerInv, WellTyped
  <2> QED
    BY <1>1, <2>1 DEF ConsumerInv, LineFits
<1> QED
  BY <1>2, <1>3

LEMMA DropStep ==
  ASSUME ConsumerInv, NEW w \in Workers, NEW q \in Queues, DropBuffered(w, q)
  PROVE  ConsumerInv'
<1>1. WellTyped'
  BY DEF ConsumerInv, WellTyped, DropBuffered, brokerVars
<1>2. SlotsFit' /\ LineFits' /\ MergesFit'
  BY EmptySlot DEF DropBuffered
<1>3. NothingLost'
  <2>1. \A v \in Workers : Unacked(v) \subseteq Unacked(v)'
    BY DEF ConsumerInv, WellTyped, DropBuffered, Unacked
  <2> QED
    BY <2>1, KeepsAll DEF ConsumerInv, DropBuffered, brokerVars
<1> QED
  BY <1>1, <1>2, <1>3 DEF ConsumerInv

LEMMA FinishStep ==
  ASSUME ConsumerInv, NEW w \in Workers, NEW q \in Queues, Succeed(w, q) \/ Fail(w, q)
  PROVE  ConsumerInv'
<1>1. Finish(w, q) /\ stage[w][q] = "running"
  BY DEF Succeed, Fail, Finish
<1>2. slot[w][q] \in Messages
  BY <1>1 DEF ConsumerInv, WellTyped, SlotsFit
<1>3. faults' \in 0..MaxFaults
  BY SpendType DEF ConsumerInv, WellTyped, Succeed, Fail
<1>4. ready' \in SUBSET Messages /\ handled' \in SUBSET Messages
  BY <1>2 DEF ConsumerInv, WellTyped, Succeed, Fail
<1>5. WellTyped'
  BY <1>1, <1>3, <1>4, FinishType DEF ConsumerInv
<1>6. SlotsFit' /\ LineFits' /\ MergesFit'
  BY <1>1, EmptySlot DEF Finish
<1>7. NothingLost'
  <2>1. ready \subseteq ready' /\ handled \subseteq handled' /\ published' = published
    BY <1>1 DEF Succeed, Fail, Finish
  <2>2. link[w] = "open" => slot[w][q] \in ready' \cup handled'
    BY DEF Succeed, Fail
  <2>3. \A v \in Workers : \A m \in Unacked(v) : m \in Unacked(v)' \/ m \in ready' \cup handled'
    BY <1>1, <2>2 DEF ConsumerInv, WellTyped, Finish, Unacked
  <2> QED
    BY <2>1, <2>3, KeepsAll DEF ConsumerInv
<1> QED
  BY <1>5, <1>6, <1>7 DEF ConsumerInv

LEMMA ConsumerStep == ConsumerInv /\ [Next]_vars => ConsumerInv'
<1> SUFFICES ASSUME ConsumerInv, [Next]_vars PROVE ConsumerInv'
  OBVIOUS
<1>1. ASSUME NEW w \in Workers, Main(w) PROVE ConsumerInv'
  BY <1>1, StartStep, ConsumeStep, GoneStep DEF Main, Exit, ConsumerInv, WellTyped
<1>2. ASSUME NEW w \in Workers, Run(w) PROVE ConsumerInv'
  BY <1>2, TakeStep, FinishStep, ReturnStep DEF Run
<1>3. ASSUME NEW w \in Workers, NEW q \in Queues,
             Deliver(w, q) \/ Merge(w, q) \/ CancelConsumer(w, q)
      PROVE  ConsumerInv'
  BY <1>3, DeliverStep, OfferStep, MergeEndsStep, DropStep, CancelStep DEF Merge
<1>4. ASSUME NEW w \in Workers, ConnectionLost(w) \/ Stop(w) PROVE ConsumerInv'
  BY <1>4, ConnectionLostStep, StopStep
<1>5. ASSUME NEW w \in Workers, Crash(w) PROVE ConsumerInv'
  BY <1>5, SpendType, GoneStep DEF Crash, ConsumerInv
<1>6. ASSUME NEW m \in Messages, Publish(m) PROVE ConsumerInv'
  BY <1>6, PublishStep
<1>7. CASE UNCHANGED vars
  <2>1. WellTyped'
    BY <1>7 DEF ConsumerInv, WellTyped, vars, workerVars
  <2> QED
    BY <1>7, <2>1, SameSlots, SameMerges, SamePlaces DEF ConsumerInv, vars, workerVars
<1> QED
  BY <1>1, <1>2, <1>3, <1>4, <1>5, <1>6, <1>7 DEF Next

\* Connections, slots and goroutines of every worker stay well typed, and a
\* slot is taken just while its message is under way.
THEOREM ConsumersAreTyped == Spec => []TypeOK
<1>1. ConsumerInv => TypeOK
  BY DEF ConsumerInv, TypeOK
<1> QED
  BY <1>1, InitConsumer, ConsumerStep, PTL DEF Spec

\* Runner.Run and Client.Consume lose no message, whatever fails or ends in
\* whatever order, for any number of messages, workers and faults.
THEOREM ConsumersLoseNothing == Spec => []NothingLost
<1>1. ConsumerInv => NothingLost
  BY DEF ConsumerInv
<1> QED
  BY <1>1, InitConsumer, ConsumerStep, PTL DEF Spec

\* Run returns with nothing in hand: both merge goroutines have handed over
\* what their consumers had received.
THEOREM RunReturnsDrained == Spec => ReturnsDrained
<1>1. ASSUME ConsumerInv, [Next]_vars
      PROVE  [\A w \in Workers :
                phase[w] = "running" /\ phase'[w] = "closing" => slot[w] = NoSlots]_vars
  <2> SUFFICES ASSUME NEW w \in Workers, phase[w] = "running", phase'[w] = "closing"
               PROVE  slot[w] = NoSlots
    OBVIOUS
  <2>1. Return(w)
    BY <1>1
    DEF Next, Main, Run, Merge, Start, ConsumeUploads, ConsumeDeletes, Exit, Gone, Crash,
        Take, Succeed, Fail, Finish, Return, Deliver, OfferNext, MergeEnds, DropBuffered,
        CancelConsumer, ConnectionLost, Stop, Publish, workerVars, vars, ConsumerInv, WellTyped
  <2>2. \A q \in Queues : stage[w][q] = "none"
    BY <1>1, <2>1 DEF Return, Idle, ConsumerInv, WellTyped, MergesFit
  <2> QED
    BY <1>1, <2>2 DEF ConsumerInv, WellTyped, SlotsFit, NoSlots
<1> QED
  BY <1>1, InitConsumer, ConsumerStep, PTL DEF Spec, ReturnsDrained

-----------------------------------------------------------------------------
(* The consumers implement MessageQueue.  A slot holds messages of its own *)
(* queue, and a process that is down holds none.                           *)

SlotsKeepQueue ==
  \A w \in Workers, q \in Queues : slot[w][q] # NoMessage => QueueOf[slot[w][q]] = q

DownIsEmpty ==
  \A w \in Workers : phase[w] = "down" => link[w] = "none" /\ slot[w] = NoSlots

BrokerInv == ConsumerInv /\ SlotsKeepQueue /\ DownIsEmpty

LEMMA BrokerInit == Init => BrokerInv
<1>1. Init => SlotsKeepQueue /\ DownIsEmpty
  BY DEF Init, SlotsKeepQueue, DownIsEmpty, NoSlots
<1> QED
  BY <1>1, InitConsumer DEF BrokerInv

LEMMA BrokerStep == BrokerInv /\ [Next]_vars => BrokerInv'
<1> SUFFICES ASSUME BrokerInv, [Next]_vars PROVE SlotsKeepQueue' /\ DownIsEmpty'
  BY ConsumerStep DEF BrokerInv
<1>1. WellTyped
  BY DEF BrokerInv, ConsumerInv
<1>2. ASSUME UNCHANGED slot PROVE SlotsKeepQueue'
  BY <1>2 DEF BrokerInv, SlotsKeepQueue
<1>3. ASSUME UNCHANGED <<phase, link, slot>> PROVE DownIsEmpty'
  BY <1>3 DEF BrokerInv, DownIsEmpty
<1>4. ASSUME NEW w \in Workers, NEW q \in Queues, Deliver(w, q)
      PROVE  SlotsKeepQueue' /\ DownIsEmpty'
  <2>1. PICK m \in Messages : QueueOf[m] = q /\ slot' = [slot EXCEPT ![w][q] = m]
    BY <1>4 DEF Deliver, Oldest, Waiting
  <2>2. \A v \in Workers, p \in Queues :
          slot'[v][p] = IF v = w /\ p = q THEN m ELSE slot[v][p]
    BY <1>1, <2>1 DEF WellTyped
  <2>3. link[w] = "open" /\ UNCHANGED <<phase, link>>
    BY <1>4 DEF Deliver
  <2>4. \A v \in Workers \ {w} : slot'[v] = slot[v]
    BY <1>1, <2>1 DEF WellTyped
  <2> QED
    BY <2>1, <2>2, <2>3, <2>4 DEF BrokerInv, SlotsKeepQueue, DownIsEmpty
<1>5. ASSUME NEW w \in Workers, NEW q \in Queues,
             slot' = [slot EXCEPT ![w][q] = NoMessage], UNCHANGED <<phase, link>>
      PROVE  SlotsKeepQueue' /\ DownIsEmpty'
  <2>1. \A v \in Workers, p \in Queues :
          slot'[v][p] = IF v = w /\ p = q THEN NoMessage ELSE slot[v][p]
    BY <1>1, <1>5 DEF WellTyped
  <2>2. \A v \in Workers : slot[v] = NoSlots => slot'[v] = NoSlots
    BY <1>1, <1>5 DEF WellTyped, NoSlots
  <2> QED
    BY <1>5, <2>1, <2>2 DEF BrokerInv, SlotsKeepQueue, DownIsEmpty
<1>6. ASSUME NEW w \in Workers, Gone(w) PROVE SlotsKeepQueue' /\ DownIsEmpty'
  <2>1. slot'[w] = NoSlots /\ link'[w] = "none" /\ phase'[w] = "down"
    BY <1>1, <1>6 DEF WellTyped, Gone
  <2>2. \A v \in Workers \ {w} : slot'[v] = slot[v] /\ link'[v] = link[v] /\ phase'[v] = phase[v]
    BY <1>1, <1>6 DEF WellTyped, Gone
  <2> QED
    BY <2>1, <2>2 DEF BrokerInv, SlotsKeepQueue, DownIsEmpty, NoSlots
<1>7. ASSUME NEW w \in Workers, Start(w) \/ ConsumeUploads(w) \/ ConsumeDeletes(w) \/ Return(w)
      PROVE  SlotsKeepQueue' /\ DownIsEmpty'
  <2>1. /\ slot' = slot /\ phase'[w] # "down"
        /\ \A v \in Workers \ {w} : link'[v] = link[v] /\ phase'[v] = phase[v]
    BY <1>1, <1>7 DEF WellTyped, Start, ConsumeUploads, ConsumeDeletes, Return
  <2> QED
    BY <1>2, <2>1 DEF BrokerInv, DownIsEmpty
<1>8. ASSUME NEW w \in Workers, ConnectionLost(w) PROVE SlotsKeepQueue' /\ DownIsEmpty'
  BY <1>1, <1>2, <1>8 DEF ConnectionLost, BrokerInv, DownIsEmpty, WellTyped
<1>9. ASSUME NEW m \in Messages, Publish(m) PROVE SlotsKeepQueue' /\ DownIsEmpty'
  BY <1>2, <1>3, <1>9 DEF Publish, workerVars
<1>10. ASSUME NEW w \in Workers, NEW q \in Queues,
              OfferNext(w, q) \/ MergeEnds(w, q) \/ CancelConsumer(w, q)
       PROVE  SlotsKeepQueue' /\ DownIsEmpty'
  BY <1>2, <1>3, <1>10 DEF OfferNext, MergeEnds, CancelConsumer
<1>11. ASSUME NEW w \in Workers, Take(w) \/ Stop(w) PROVE SlotsKeepQueue' /\ DownIsEmpty'
  BY <1>2, <1>3, <1>11 DEF Take, Stop
<1>12. CASE UNCHANGED vars
  BY <1>2, <1>3, <1>12 DEF vars, workerVars
<1> QED
  BY <1>4, <1>5, <1>6, <1>7, <1>8, <1>9, <1>10, <1>11, <1>12
  DEF Next, Main, Run, Merge, Exit, Crash, DropBuffered, Succeed, Fail, Finish

\* A step that leaves every message where it is.
LEMMA SameQueue ==
  ASSUME UNCHANGED <<published, ready>>, \A w \in Workers : Unacked(w)' = Unacked(w)
  PROVE  UNCHANGED Queue!queueVars
BY DEF Queue!queueVars

\* A connection that ends, whether or not something was unanswered.
LEMMA RecoverRefines ==
  ASSUME NEW w \in Workers, ready' = ready \cup Unacked(w), UNCHANGED published,
         Unacked(w)' = {}, \A v \in Workers \ {w} : Unacked(v)' = Unacked(v)
  PROVE  [Queue!Next]_Queue!queueVars
<1>1. CASE Unacked(w) = {}
  BY <1>1, SameQueue
<1>2. CASE Unacked(w) # {}
  <2>1. Queue!Recover(w)
    BY <1>2 DEF Queue!Recover
  <2> QED
    BY <2>1 DEF Queue!Next
<1> QED
  BY <1>1, <1>2

\* An answer: the slot is the only one with its message.
LEMMA AnswerRefines ==
  ASSUME BrokerInv, NEW w \in Workers, NEW q \in Queues, Succeed(w, q) \/ Fail(w, q)
  PROVE  [Queue!Next]_Queue!queueVars
<1> DEFINE m == slot[w][q]
<1>1. WellTyped /\ stage[w][q] = "running" /\ UNCHANGED <<published, link>>
      /\ slot' = [slot EXCEPT ![w][q] = NoMessage]
  BY DEF BrokerInv, ConsumerInv, Succeed, Fail, Finish
<1>2. m \in Messages
  BY <1>1 DEF BrokerInv, ConsumerInv, SlotsFit, WellTyped
<1>3. \A v \in Workers, p \in Queues :
        slot'[v][p] = IF v = w /\ p = q THEN NoMessage ELSE slot[v][p]
  BY <1>1 DEF WellTyped
<1>4. \A p \in Queues \ {q} : slot[w][p] # m
  BY <1>2, ConsumerAssumption DEF BrokerInv, SlotsKeepQueue, ConsumerAssumption
<1>5. \A v \in Workers \ {w} : Unacked(v)' = Unacked(v)
  BY <1>1, <1>3 DEF Unacked
<1>6. CASE link[w] # "open"
  <2>1. ready' = ready /\ Unacked(w)' = {} /\ Unacked(w) = {}
    BY <1>1, <1>6 DEF Succeed, Fail, Unacked
  <2> QED
    BY <1>1, <1>5, <2>1, SameQueue
<1>7. CASE link[w] = "open"
  <2>1. m \in Unacked(w) /\ Unacked(w)' = Unacked(w) \ {m}
    BY <1>1, <1>2, <1>3, <1>4, <1>7, ConsumerAssumption DEF Unacked, ConsumerAssumption
  <2>2. CASE Succeed(w, q)
    <3>1. Queue!Ack(w, m)
      BY <1>1, <1>5, <2>1, <2>2 DEF Queue!Ack, Succeed
    <3> QED
      BY <1>2, <3>1 DEF Queue!Next
  <2>3. CASE Fail(w, q)
    <3>1. Queue!Nack(w, m)
      BY <1>1, <1>5, <1>7, <2>1, <2>3 DEF Queue!Nack, Fail
    <3> QED
      BY <1>2, <3>1 DEF Queue!Next
  <2> QED
    BY <2>2, <2>3
<1> QED
  BY <1>6, <1>7

LEMMA DeliverRefines ==
  ASSUME BrokerInv, NEW w \in Workers, NEW q \in Queues, Deliver(w, q)
  PROVE  [Queue!Next]_Queue!queueVars
<1>1. PICK m \in Messages : /\ m \in ready /\ QueueOf[m] = q
                            /\ ready' = ready \ {m}
                            /\ slot' = [slot EXCEPT ![w][q] = m]
  BY DEF Deliver, Oldest, Waiting
<1>2. link[w] = "open" /\ stage[w][q] = "none" /\ UNCHANGED <<published, link>> /\ WellTyped
  BY DEF Deliver, BrokerInv, ConsumerInv
<1>3. \A v \in Workers, p \in Queues :
        slot'[v][p] = IF v = w /\ p = q THEN m ELSE slot[v][p]
  BY <1>1, <1>2 DEF WellTyped
<1>4. slot[w][q] = NoMessage
  BY <1>2 DEF BrokerInv, ConsumerInv, SlotsFit
<1>5. Unacked(w)' = Unacked(w) \cup {m}
  BY <1>2, <1>3, <1>4, ConsumerAssumption DEF Unacked, ConsumerAssumption
<1>6. ASSUME NEW v \in Workers \ {w} PROVE Unacked(v)' = Unacked(v)
  <2>1. slot'[v] = slot[v] /\ link'[v] = link[v]
    BY <1>1, <1>2
  <2> QED
    BY <2>1 DEF Unacked
<1>7. \A n \in Unacked(w) : QueueOf[n] # QueueOf[m]
  BY <1>1, <1>4 DEF Unacked, BrokerInv, SlotsKeepQueue
<1>8. Queue!Deliver(w, m)
  BY <1>1, <1>2, <1>5, <1>6, <1>7 DEF Queue!Deliver
<1> QED
  BY <1>8 DEF Queue!Next

LEMMA QueueStep == BrokerInv /\ [Next]_vars => [Queue!Next]_Queue!queueVars
<1> SUFFICES ASSUME BrokerInv, [Next]_vars PROVE [Queue!Next]_Queue!queueVars
  OBVIOUS
<1>1. WellTyped
  BY DEF BrokerInv, ConsumerInv
<1>2. ASSUME UNCHANGED <<published, ready, link, slot>> PROVE UNCHANGED Queue!queueVars
  BY <1>2, SameQueue DEF Unacked
<1>3. ASSUME NEW m \in Messages, Publish(m) PROVE Queue!Publish(m)
  BY <1>3 DEF Publish, Queue!Publish, workerVars, Unacked
<1>4. ASSUME NEW w \in Workers, ConnectionLost(w) PROVE [Queue!Next]_Queue!queueVars
  <2>1. Unacked(w)' = {} /\ \A v \in Workers \ {w} : Unacked(v)' = Unacked(v)
    BY <1>1, <1>4 DEF ConnectionLost, Unacked, WellTyped
  <2> QED
    BY <1>4, <2>1, RecoverRefines DEF ConnectionLost
<1>5. ASSUME NEW w \in Workers, Gone(w) PROVE [Queue!Next]_Queue!queueVars
  <2>1. Unacked(w)' = {} /\ \A v \in Workers \ {w} : Unacked(v)' = Unacked(v)
    BY <1>1, <1>5 DEF Gone, Unacked, WellTyped
  <2> QED
    BY <1>5, <2>1, RecoverRefines DEF Gone
<1>6. ASSUME NEW w \in Workers, Start(w) PROVE UNCHANGED Queue!queueVars
  <2>1. slot[w] = NoSlots /\ link[w] = "none" /\ link' = [link EXCEPT ![w] = "open"]
        /\ UNCHANGED <<published, ready, slot>>
    BY <1>6 DEF Start, brokerVars, BrokerInv, DownIsEmpty
  <2>2. Unacked(w)' = {} /\ Unacked(w) = {}
    BY <1>1, <2>1 DEF Unacked, NoSlots, WellTyped
  <2>3. \A v \in Workers \ {w} : Unacked(v)' = Unacked(v)
    BY <1>1, <2>1 DEF Unacked, WellTyped
  <2> QED
    BY <2>1, <2>2, <2>3, SameQueue
<1>7. ASSUME NEW w \in Workers, NEW q \in Queues, DropBuffered(w, q)
      PROVE  UNCHANGED Queue!queueVars
  <2>1. link[w] = "lost" /\ UNCHANGED <<published, ready, link>>
        /\ \A v \in Workers \ {w} : slot'[v] = slot[v]
    BY <1>1, <1>7 DEF DropBuffered, brokerVars, WellTyped
  <2>2. \A v \in Workers : Unacked(v)' = Unacked(v)
    BY <2>1 DEF Unacked
  <2> QED
    BY <2>1, <2>2, SameQueue
<1>8. ASSUME NEW w \in Workers,
             ConsumeUploads(w) \/ ConsumeDeletes(w) \/ Return(w) \/ Take(w) \/ Stop(w)
      PROVE  UNCHANGED Queue!queueVars
  BY <1>2, <1>8 DEF ConsumeUploads, ConsumeDeletes, Return, Take, Stop, brokerVars
<1>9. ASSUME NEW w \in Workers, NEW q \in Queues,
             OfferNext(w, q) \/ MergeEnds(w, q) \/ CancelConsumer(w, q)
      PROVE  UNCHANGED Queue!queueVars
  BY <1>2, <1>9 DEF OfferNext, MergeEnds, CancelConsumer, brokerVars
<1>10. CASE UNCHANGED vars
  BY <1>2, <1>10 DEF vars, brokerVars, workerVars
<1>11. ASSUME NEW m \in Messages, Publish(m) PROVE [Queue!Next]_Queue!queueVars
  BY <1>3, <1>11 DEF Queue!Next
<1> QED
  BY <1>4, <1>5, <1>6, <1>7, <1>8, <1>9, <1>10, <1>11, AnswerRefines, DeliverRefines
  DEF Next, Main, Run, Merge, Exit, Crash

LEMMA QueueInit == Init => Queue!Init
BY DEF Init, Queue!Init, Unacked

\* Whatever connections, consumers, merge goroutines and processes do, the
\* broker delivers at least once, for any messages, workers and faults.
THEOREM ConsumersImplementQueue == Spec => ImplementsQueue
<1>1. Spec => []BrokerInv
  BY BrokerInit, BrokerStep, PTL DEF Spec
<1> QED
  BY <1>1, QueueInit, QueueStep, PTL DEF Spec, ImplementsQueue, Queue!Spec

-----------------------------------------------------------------------------
(* What the consumers have from their broker.                              *)

InBroker == INSTANCE MessageQueue_proofs WITH
  sent    <- published,
  unacked <- [w \in Workers |-> Unacked(w)]

LEMMA SameBroker == Queue!Spec <=> InBroker!Spec
BY PTL
   DEF Queue!Spec, Queue!Init, Queue!Next, Queue!queueVars, Queue!Publish, Queue!Deliver,
       Queue!Ack, Queue!Nack, Queue!Recover,
       InBroker!Spec, InBroker!Init, InBroker!Next, InBroker!queueVars, InBroker!Publish,
       InBroker!Deliver, InBroker!Ack, InBroker!Nack, InBroker!Recover

\* No two connected workers ever have one message, and none has it while it
\* waits: through buffers, merge goroutines, lost connections and restarts.
THEOREM MessagesStayInOnePlace == Spec => []Queue!OnePlace
<1>1. Queue!OnePlace <=> InBroker!OnePlace
  BY DEF Queue!OnePlace, InBroker!OnePlace
<1> QED
  BY <1>1, ConsumersImplementQueue, SameBroker, InBroker!MessagesHaveOnePlace, PTL
  DEF ImplementsQueue

\* A message that was acknowledged never comes back to any worker.
THEOREM MessagesStayGone == Spec => Queue!GoneForGood
<1>1. Queue!GoneForGood <=> InBroker!GoneForGood
  BY PTL DEF Queue!GoneForGood, Queue!Live, Queue!queueVars, InBroker!GoneForGood, InBroker!Live,
             InBroker!queueVars
<1> QED
  BY <1>1, ConsumersImplementQueue, SameBroker, InBroker!AcknowledgedIsGone, PTL DEF ImplementsQueue

=============================================================================
