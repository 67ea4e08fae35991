---------------------------- MODULE MCAvatarQueries ----------------------------
(* Small instances of AvatarQueries for TLC. *)
EXTENDS AvatarQueries

CONSTANTS a1, a2, alice, bob, w1, w2

MCOwner     == [id \in Ids |-> alice]
MCCreatedAt == [id \in Ids |-> IF id = a1 THEN 1 ELSE 2]

\* One DELETE by the owner of each avatar.
MCOwnDeletes == {[id |-> id, by |-> alice, call |-> 1] : id \in Ids}

\* A DELETE of the newest avatar by id, and one of the current avatar.
MCCurrentDeletes ==
  {[id |-> id, by |-> alice, call |-> 2] : id \in Ids}
    \cup {[id |-> a2, by |-> alice, call |-> 1]}

Ask(kind, id, size, call) ==
  [kind |-> kind, id |-> id, by |-> alice, size |-> size, call |-> call]

MCById     == {Ask("read", a1, "thumb100", 0), Ask("metadata", a1, "original", 0),
               Ask("gallery", a1, "original", 0)}
MCByUser   == {Ask("read_user", a1, "thumb300", 0), Ask("delete_current", a1, "original", 2)}
MCAll      == MCById \cup MCByUser
=============================================================================
