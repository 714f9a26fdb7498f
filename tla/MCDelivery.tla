----------------------------- MODULE MCDelivery -----------------------------
(* Delivery on small instances: the constants of its runs.  Time is kept    *)
(* minimal: retries are due at once, and the claims of a dead router are     *)
(* stale as soon as a unit of time has passed.                               *)
EXTENDS Delivery, TLC

CONSTANTS A, B,          \* routers
          S, T,          \* sessions
          r1, r2, r3     \* records

MCBackoff == <<0>>

\* All sessions belong to the first router; r3 is of the second session.
MCOwner     == [s \in Sessions |-> A]
MCSessionOf == [r \in Records |-> IF r = r3 THEN T ELSE S]

Symmetry == Permutations(Records \ {r3})
=============================================================================
