------------------------------ MODULE MCOutbox ------------------------------
(* Outbox on small instances: the constants of its runs. *)
EXTENDS Outbox, TLC

MCBackoff      == <<1, 2>>
MCShortBackoff == <<1>>

Symmetry == Permutations(Records) \cup Permutations(Routers)
=============================================================================
