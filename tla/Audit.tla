------------------------------- MODULE Audit --------------------------------
(* The backend's admin endpoints (routes/admin.py, jbox.py) beside a running  *)
(* Delivery: an audit reads the record and the latest turn of its session from *)
(* the database, then fetches the session's blob from jbox and compares its    *)
(* hash with the one the record bears.  The fetch is an await of its own.      *)
EXTENDS Delivery

CONSTANT Audited   \* sessions whose records are audited

ASSUME AuditAssumption == Audited \subseteq Sessions

VARIABLE audit     \* the audit under way, or the answer just given

avars == <<dvars, audit>>

---------------------------------------------------------------------------
NoAudit == [step |-> "none"]

\* The ingested records of session s, and the latest of them: the highest
\* turn_count, which no two records of a session share.
OnRecord(s) == {r \in ingested : SessionOf[r] = s}

\* Mutant: the order of the turns is ascending.
EarliestOf(s) == {r \in OnRecord(s) : \A q \in OnRecord(s) : turn[r] <= turn[q]}

LatestOf(s) == {r \in OnRecord(s) : \A q \in OnRecord(s) : turn[q] <= turn[r]}

\* Every row of the session is done and no capture of it is under way.
Quiet(s) == ~ Writing(s) /\ \A r \in RowsOf(row, s) : row[r].state = "done"

\* The bytes jbox has now are those whose hash the record bears.
Verified(r) == jbox[SessionOf[r]] = turn[r]

\* get_payload and, for the latest record, get_session_payload, up to the await
\* of the fetch.
Lookup(r) ==
  LET s == SessionOf[r] IN
  /\ audit = NoAudit
  /\ s \in Audited /\ r \in ingested
  /\ audit' = [step |-> "fetching", record |-> r, latest |-> r \in LatestOf(s),
               calm |-> Quiet(s), counted |-> Counted(s)]
  /\ UNCHANGED dvars

\* _fetch_and_verify: 404 without a blob, else whether the hash matches.
Fetch ==
  LET r == audit.record
      s == SessionOf[r]
  IN
  /\ audit.step = "fetching"
  /\ audit' = [step |-> "answered", latest |-> audit.latest,
               calm |-> audit.calm /\ Quiet(s) /\ Counted(s) = audit.counted,
               code |-> IF jbox[s] = 0 THEN 404 ELSE 200,
               verified |-> jbox[s] # 0 /\ Verified(r)]
  /\ UNCHANGED dvars

\* The fetch fails otherwise: 502.
FetchFails ==
  /\ audit.step = "fetching"
  /\ audit' = NoAudit
  /\ UNCHANGED dvars

AInit == DInit /\ audit = NoAudit

Answered == audit.step = "answered"

\* An answer is gone with the next step.
ANext == \/ DNext /\ audit' = IF Answered THEN NoAudit ELSE audit
         \/ \E r \in Records : Lookup(r)
         \/ Fetch \/ FetchFails

ASpec == AInit /\ [][ANext]_avars

AFairSpec == ASpec /\ DFairness

---------------------------------------------------------------------------
(* Properties *)

\* "Only the latest turn's hash matches at any given moment.  The is_latest_turn
\* flag on the admin endpoint surfaces this" (wiki/backend.md 139-143): an audit
\* of a session that was quiet all along finds its blob, and finds it to match
\* for the latest turn and for no other.
CalmAuditIsExact ==
  Answered /\ audit.calm => audit.code = 200 /\ (audit.verified <=> audit.latest)

\* "the is_latest_turn flag tells you whether a mismatch is tampering vs. just
\* an older turn" (wiki/ta-deployment.md 260-261): as nobody tampers with jbox
\* here, a blob that does not match would have to be of an older turn.
MismatchIsOlderTurn ==
  Answered /\ audit.code = 200 /\ ~ audit.verified => ~ audit.latest
=============================================================================
