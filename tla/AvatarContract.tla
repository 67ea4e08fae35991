---------------------------- MODULE AvatarContract ----------------------------
(***************************************************************************)
(* What clients of the service are promised, with no word of messages,     *)
(* workers, retries or faults: an avatar is offered once and, after a      *)
(* DELETE of its owner, never again; what is offered can be read; one      *)
(* DELETE per avatar succeeds.  AvatarLifecycle implements this            *)
(* specification (ImplementsContract).                                     *)
(***************************************************************************)
CONSTANTS Ids, Owner, Requests

VARIABLES
  phase,     \* of an avatar: "unborn", "shown" or, for ever, "hidden"
  offered,   \* the variants of each avatar a client may ask for
  kept,      \* the variants of each avatar the service can return
  answered   \* DELETE requests answered 204

contractVars == <<phase, offered, kept, answered>>

Variants == {"original", "thumb100", "thumb300"}

Init ==
  /\ phase = [id \in Ids |-> "unborn"]
  /\ offered = [id \in Ids |-> {}]
  /\ kept = [id \in Ids |-> {}]
  /\ answered = {}

\* The service may store variants ahead of offering them, and too late.
Keep(id) ==
  /\ \E v \in Variants : kept' = [kept EXCEPT ![id] = @ \cup {v}]
  /\ UNCHANGED <<phase, offered, answered>>

\* An upload succeeds: its original can be read at once.
Show(id) ==
  /\ phase[id] = "unborn"
  /\ "original" \in kept[id]
  /\ phase' = [phase EXCEPT ![id] = "shown"]
  /\ offered' = [offered EXCEPT ![id] = {"original"}]
  /\ UNCHANGED <<kept, answered>>

\* Processing ends: both thumbnails are there, or none is offered.
Offer(id) ==
  /\ phase[id] = "shown"
  /\ \E vs \in {{"original"}, Variants} :
       /\ vs \subseteq kept[id]
       /\ offered' = [offered EXCEPT ![id] = vs]
  /\ UNCHANGED <<phase, kept, answered>>

\* A DELETE by the owner takes effect, whether or not he will hear of it.
Hide(r) ==
  /\ r.by = Owner[r.id]
  /\ phase[r.id] = "shown"
  /\ phase' = [phase EXCEPT ![r.id] = "hidden"]
  /\ offered' = [offered EXCEPT ![r.id] = {}]
  /\ UNCHANGED <<kept, answered>>

\* 204 for the only DELETE of an avatar that gets it.
Answer(r) ==
  /\ r.by = Owner[r.id]
  /\ phase[r.id] = "hidden"
  /\ \A s \in answered : s.id # r.id
  /\ answered' = answered \cup {r}
  /\ UNCHANGED <<phase, offered, kept>>

\* Only what is hidden is removed.
Remove(id) ==
  /\ phase[id] = "hidden"
  /\ \E v \in Variants : kept' = [kept EXCEPT ![id] = @ \ {v}]
  /\ UNCHANGED <<phase, offered, answered>>

Next ==
  \/ \E id \in Ids : Keep(id) \/ Show(id) \/ Offer(id) \/ Remove(id)
  \/ \E r \in Requests : Hide(r) \/ Answer(r)

Spec == Init /\ [][Next]_contractVars

=============================================================================
