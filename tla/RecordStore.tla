---------------------------- MODULE RecordStore ----------------------------
(* What the backend promises about context records (models.py 93-100): the  *)
(* table only grows, a record_id is recorded once, and so is a turn of a     *)
(* session.                                                                 *)
CONSTANTS Rows,          \* rows that may be recorded
          IdOf(_),       \* record_id of a row
          TurnOf(_)      \* (session_id, turn_count) of a row

VARIABLE store           \* the rows recorded so far

Fits(e) == \A f \in store : IdOf(f) # IdOf(e) /\ TurnOf(f) # TurnOf(e)

Init == store = {}

Record(e) == Fits(e) /\ store' = store \cup {e}

Next == \E e \in Rows : Record(e)

Spec == Init /\ [][Next]_store
=============================================================================
