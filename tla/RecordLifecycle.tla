-------------------------- MODULE RecordLifecycle --------------------------
(* What the outbox promises about one captured turn, whoever works on it:  *)
(* the record moves forward one stage at a time, and an end state is final. *)
(* This is the lifecycle at the head of outbox/queue.ts.                    *)
CONSTANT Records

VARIABLE life       \* life[r]: the lifecycle state of record r

Active    == {"captured", "ingested", "synced"}
Final     == {"done", "conflict", "fatal"}
RecordState == {"absent"} \cup Active \cup Final

NextStateAfter(s) == CASE s = "captured" -> "ingested"
                       [] s = "ingested" -> "synced"
                       [] s = "synced"   -> "done"
                       [] OTHER          -> s

Init == life = [r \in Records |-> "absent"]

Capture(r) == /\ life[r] = "absent"
              /\ life' = [life EXCEPT ![r] = "captured"]

Advance(r) == /\ life[r] \in Active
              /\ life' = [life EXCEPT ![r] = NextStateAfter(life[r])]

\* Only the ingest stage can be told that the body conflicts.
Conflict(r) == /\ life[r] = "captured"
               /\ life' = [life EXCEPT ![r] = "conflict"]

Fail(r) == /\ life[r] \in Active
           /\ life' = [life EXCEPT ![r] = "fatal"]

Next == \E r \in Records : Capture(r) \/ Advance(r) \/ Conflict(r) \/ Fail(r)

Spec == Init /\ [][Next]_life
=============================================================================
