---------------------------- MODULE MCCodexAuth ----------------------------
(* CodexAuth on small instances: q1 and q2 are requests to the first router,  *)
(* q3 is one to the second.                                                   *)
EXTENDS CodexAuth

CONSTANTS A, B, q1, q2, q3

MCProcessOf == [q \in Requests |-> IF q = q3 THEN B ELSE A]
=============================================================================
