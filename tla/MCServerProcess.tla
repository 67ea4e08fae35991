---------------------------- MODULE MCServerProcess ----------------------------
(* Small instances of ServerProcess for TLC. *)
EXTENDS ServerProcess
CONSTANTS s1, u1, u2, d1
MCKind == [r \in Requests |-> IF r = d1 THEN "delete" ELSE "upload"]
=============================================================================
