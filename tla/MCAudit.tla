------------------------------ MODULE MCAudit -------------------------------
(* Audit, and Delivery with it, on small instances; time is kept as in        *)
(* MCDelivery.                                                                *)
EXTENDS Audit

CONSTANTS A,          \* the router
          S,          \* the session
          r1, r2      \* its turns

MCBackoff == <<0>>

MCOwner     == [s \in Sessions |-> A]
MCSessionOf == [r \in Records |-> S]
=============================================================================
