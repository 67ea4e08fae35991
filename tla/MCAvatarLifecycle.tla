-------------------------- MODULE MCAvatarLifecycle --------------------------
(* Small instances of AvatarLifecycle for TLC. *)
EXTENDS AvatarLifecycle, TLC

CONSTANTS a1, a2, alice, bob, w1, w2

MCOwner == [id \in Ids |-> alice]

\* Two racing DELETEs by the owner and one by somebody else, on a1.
MCRacingDeletes ==
  {[id |-> a1, by |-> u, call |-> n] : u \in {alice}, n \in 1..2}
    \cup {[id |-> a1, by |-> bob, call |-> 1]}

\* One DELETE by the owner of each avatar.
MCOwnDeletes == {[id |-> id, by |-> alice, call |-> 1] : id \in Ids}

MCWorkerSymmetry == Permutations(Workers)
=============================================================================
