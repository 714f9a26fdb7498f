------------------------------ MODULE MCRoster ------------------------------
(* Roster on a small instance: t1 and t2 share a prefix. *)
EXTENDS Roster, TLC

CONSTANTS t1, t2, t3, t4, u1, u2, m1, m2

MCPrefixOf == [t \in Tokens |-> IF t = t2 THEN t1 ELSE t]
MCMailOf   == [u \in Users |-> IF u = u1 THEN m1 ELSE m2]
MCRosters  == {<<u1>>, <<u2>>, <<u1, u2>>}

Symmetry == Permutations(Admins)
=============================================================================
