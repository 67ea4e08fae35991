---------------------------- MODULE MCEventConsumer ----------------------------
(* Small instances of EventConsumer for TLC. *)
EXTENDS EventConsumer

CONSTANTS u1, u2, d1, w1, w2

MCQueueOf == [m \in Messages |-> IF m = d1 THEN "deletes" ELSE "uploads"]
MCRank    == [m \in Messages |-> CASE m = u1 -> 1 [] m = u2 -> 2 [] OTHER -> 3]
=============================================================================
