-------------------------- MODULE MCIngestService --------------------------
(* IngestService on small instances: b1 and b1x share a record_id, b1 and b2  *)
(* a turn of their session.                                                  *)
EXTENDS IngestService, TLC

CONSTANTS b1, b1x, b2, i1, i2, s1

MCBodyId   == [b \in Bodies |-> IF b = b2 THEN i2 ELSE i1]
MCBodySession == [b \in Bodies |-> s1]
MCBodyTurn == [b \in Bodies |-> IF b = b1x THEN 2 ELSE 1]

Symmetry == Permutations(Calls) \cup Permutations(Enrolled)
=============================================================================
