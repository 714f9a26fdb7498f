---------------------------- MODULE AuditProofs -----------------------------
(* What an audit of a quiet session answers, for any number of sessions and   *)
(* turns: the record that bears the latest turn verifies, and no other does.   *)
EXTENDS Audit, DeliveryProofs

(* The three steps of an audit leave what Delivery keeps alone.                 *)
LEMMA AuditStepProjects == [ANext]_avars => [DNext]_dvars
BY DEF ANext, Lookup, Fetch, FetchFails, avars

(* Audits only read (admin.py get_payload): a behaviour with audits in it is     *)
(* one of Delivery.                                                            *)
THEOREM AuditsOnlyRead == ASpec => DSpec
<1>1. AInit => DInit
  BY DEF AInit
<1> QED BY <1>1, AuditStepProjects, PTL DEF ASpec, DSpec

---------------------------------------------------------------------------
(* A session that is quiet stays so until it is given a further turn: nothing   *)
(* is left that could write a row, post a record or begin a batch.             *)
LEMMA QuietStays ==
  ASSUME TypeOK, WorldInv, SnapshotCurrent, StoreInv, [DNext]_dvars,
         NEW s \in Sessions, Quiet(s), Counted(s)' = Counted(s)
  PROVE  Quiet(s)' /\ OnRecord(s)' = OnRecord(s) /\ LatestOf(s)' = LatestOf(s)
<1> USE Turnable
<1>c. Counted(s) \in Nat
  <2>1. Counted(s) \in 0 .. MaxTurn
    BY CountedBounds
  <2> QED BY <2>1
<1>1. \A r \in Turns(s) : ~ StartCapture(r) /\ turn'[r] = turn[r]
  <2>1. ASSUME NEW q \in Records, StartCapture(q),
               turn' = [turn EXCEPT ![q] = Counted(SessionOf[q]) + 1],
               Counted(SessionOf[q])' = Counted(SessionOf[q]) + 1
        PROVE  SessionOf[q] # s /\ \A r \in Turns(s) : turn'[r] = turn[r]
    BY <2>1, <1>c DEF Turns, WorldInv
  <2>2. ASSUME NEW r \in Turns(s), StartCapture(r) PROVE FALSE
    <3>1. SessionOf[r] = s /\ turn' = [turn EXCEPT ![r] = NextTurn(s)] /\ turn[r] = 0
      BY <2>2 DEF StartCapture, Turns, WorldInv
    <3>2. turn'[r] = Counted(s) + 1 /\ turn[r] = 0
      BY <3>1 DEF NextTurn, WorldInv, Turns
    <3>3. PICK q \in Records : /\ StartCapture(q)
                               /\ turn' = [turn EXCEPT ![q] = Counted(SessionOf[q]) + 1]
                               /\ Counted(SessionOf[q])' = Counted(SessionOf[q]) + 1
      BY <1>c, <3>2, TurnSteps
    <3>4. \A p \in Turns(s) : turn'[p] = turn[p]
      BY <2>1, <3>3
    <3> QED BY <1>c, <2>2, <3>2, <3>4
  <2> QED BY <2>1, <2>2, TurnSteps
<1>2. \A r \in Turns(s) : capture[r] \notin {"writing", "renamed"}
  BY DEF Quiet, Writing
<1>3. \A r \in Turns(s) : capture'[r] \notin {"writing", "renamed"}
  BY <1>1, <1>2, CaptureSteps DEF Turns
<1>4. \A r \in Turns(s) : row[r].state \in {"absent", "done"}
  BY DEF Quiet, RowsOf
<1>5. \A r \in Turns(s) : row'[r].state = row[r].state
  <2> TAKE r \in Turns(s)
  <2>1. r \in Records /\ row[r].state \notin ActiveStates
    BY <1>4 DEF Turns, ActiveStates
  <2>2. ~ FinishCapture(r)
    BY <1>2 DEF FinishCapture
  <2> QED BY <2>1, <2>2, StateSteps
<1>6. Quiet(s)'
  BY <1>3, <1>4, <1>5 DEF Quiet, Writing, RowsOf
<1>7. ASSUME NEW r \in Turns(s) PROVE r \in ingested' <=> r \in ingested
  <2>1. ASSUME NEW w \in Routers, PostLands(w, r) PROVE FALSE
    <3>1. r \in Records /\ Working(w, r) /\ slot[w][r].state = "captured"
      BY <2>1 DEF PostLands, Calling, Working, Turns
    <3>2. row[r].state = "captured"
      BY <3>1 DEF SnapshotCurrent
    <3> QED BY <1>4, <3>2
  <2>2. ASSUME NEW w \in Routers, NEW q \in Records, PostLands(w, q)
        PROVE  r \in ingested' <=> r \in ingested
    BY <2>1, <2>2 DEF PostLands
  <2> QED BY <2>2, IngestedSteps
<1>8. ingested \subseteq Records /\ ingested' \subseteq Records
  BY IngestedSteps DEF WorldInv, PostLands
<1>9. OnRecord(s)' = OnRecord(s)
  <2>1. ASSUME NEW r PROVE r \in OnRecord(s)' <=> r \in OnRecord(s)
    BY <1>7, <1>8 DEF OnRecord, Turns
  <2> QED BY <2>1
<1>10. \A r \in OnRecord(s) : r \in Turns(s)
  BY <1>8 DEF OnRecord, Turns
<1>11. LatestOf(s)' = LatestOf(s)
  <2>1. ASSUME NEW r PROVE r \in LatestOf(s)' <=> r \in LatestOf(s)
    BY <1>1, <1>9, <1>10 DEF LatestOf
  <2> QED BY <2>1
<1> QED BY <1>6, <1>9, <1>11

---------------------------------------------------------------------------
(* An audit under way knows what it read; if the session was quiet then and has  *)
(* been given no turn since, it is quiet now and what was read is still so.     *)
Fetching ==
  LET r == audit.record
      s == SessionOf[r]
  IN
  /\ audit.step = "fetching"
  /\ r \in ingested
  /\ audit.counted \in Nat /\ audit.counted <= Counted(s)
  /\ audit.calm /\ audit.counted = Counted(s)
       => Quiet(s) /\ (audit.latest <=> r \in LatestOf(s))

AuditInv == audit = NoAudit \/ (Answered /\ CalmAuditIsExact) \/ Fetching

LEMMA CalmFetchIsExact ==
  ASSUME WorldInv, StoreInv, RowsTellTheTruth, LatestOnJbox,
         NEW r \in ingested, Quiet(SessionOf[r])
  PROVE  /\ jbox[SessionOf[r]] # 0
         /\ Verified(r) <=> r \in LatestOf(SessionOf[r])
<1> DEFINE s == SessionOf[r]
           R == RowsOf(row, s)
<1>1. r \in Records /\ s \in Sessions /\ r \in R
  BY Turnable DEF WorldInv, StoreInv, RowsOf, Turns
<1>2. ~ Writing(s) /\ \A q \in R : row[q].state = "done"
  BY DEF Quiet
<1>3. PICK p \in R : jbox[s] = turn[p] /\ \A q \in R : turn[q] <= turn[p]
  BY <1>1, <1>2 DEF LatestOnJbox
<1>4. \A q \in R : q \in Records /\ SessionOf[q] = s /\ turn[q] \in Nat /\ turn[q] # 0
  BY Turnable DEF RowsOf, Turns, StoreInv, WorldInv
<1>5. \A q : q \in OnRecord(s) <=> q \in R
  <2>1. ASSUME NEW q \in R PROVE q \in OnRecord(s)
    BY <1>2, <1>4 DEF RowsTellTheTruth, OnRecord
  <2>2. ASSUME NEW q \in OnRecord(s) PROVE q \in R
    BY DEF OnRecord, WorldInv, StoreInv, RowsOf, Turns
  <2> QED BY <2>1, <2>2
<1>6. Verified(r) <=> turn[r] = turn[p]
  BY <1>3 DEF Verified
<1>7. r \in LatestOf(s) <=> turn[r] = turn[p]
  BY <1>1, <1>3, <1>4, <1>5 DEF LatestOf
<1> QED BY <1>3, <1>4, <1>6, <1>7

LEMMA AuditNext ==
  ASSUME TypeOK, WorldInv, SnapshotCurrent, StoreInv, RowsTellTheTruth, LatestOnJbox,
         AuditInv, [ANext]_avars
  PROVE  AuditInv'
<1> USE Turnable
<1>1. [DNext]_dvars
  BY AuditStepProjects
<1>c. \A s \in Sessions : Counted(s) \in Nat /\ Counted(s)' \in Nat /\ Counted(s) <= Counted(s)'
  <2> TAKE s \in Sessions
  <2>1. Counted(s) \in 0 .. MaxTurn
    BY CountedBounds
  <2>2. CASE UNCHANGED turn
    BY <2>1, <2>2 DEF Counted
  <2>3. CASE ~ UNCHANGED turn
    BY <2>1, <2>3, <1>1, TurnSteps
  <2> QED BY <2>2, <2>3
<1>i. ingested \subseteq ingested' /\ ingested \subseteq Records
  BY <1>1, WorldGrows DEF WorldInv
<1>2. ASSUME Fetching, UNCHANGED audit PROVE Fetching'
  <2>p. PICK r \in ingested, s \in Sessions, n \in Nat :
          audit.record = r /\ SessionOf[r] = s /\ audit.counted = n
    BY <1>2, <1>i DEF Fetching
  <2>0. r \in ingested'
    BY <1>i
  <2>1. n <= Counted(s) /\ n <= Counted(s)'
    <3>1. Counted(s) \in Nat /\ Counted(s)' \in Nat /\ Counted(s) <= Counted(s)'
      BY <1>c
    <3> QED BY <1>2, <2>p, <3>1 DEF Fetching
  <2>2. ASSUME audit.calm, n = Counted(s)'
        PROVE  Quiet(s)' /\ (audit.latest <=> r \in LatestOf(s)')
    <3>1. Counted(s)' = Counted(s) /\ n = Counted(s)
      BY <2>1, <2>2, <1>c
    <3>2. Quiet(s) /\ (audit.latest <=> r \in LatestOf(s))
      BY <1>2, <2>p, <2>2, <3>1 DEF Fetching
    <3>3. Quiet(s)' /\ LatestOf(s)' = LatestOf(s)
      BY <1>1, <3>1, <3>2, QuietStays
    <3> QED BY <3>2, <3>3
  <2> QED BY <1>2, <2>p, <2>0, <2>1, <2>2 DEF Fetching
<1>3. ASSUME UNCHANGED audit PROVE AuditInv'
  <2>1. CASE audit = NoAudit
    BY <1>3, <2>1 DEF AuditInv, NoAudit
  <2>2. CASE Answered /\ CalmAuditIsExact
    BY <1>3, <2>2 DEF AuditInv, Answered, CalmAuditIsExact
  <2> QED BY <1>2, <1>3, <2>1, <2>2 DEF AuditInv
<1>4. ASSUME NEW r \in Records, Lookup(r) PROVE Fetching'
  <2> DEFINE s == SessionOf[r]
  <2>1. /\ audit'.step = "fetching" /\ audit'.record = r /\ audit'.counted = Counted(s)
        /\ audit'.calm <=> Quiet(s)
        /\ audit'.latest <=> r \in LatestOf(s)
    BY <1>4 DEF Lookup
  <2>2. UNCHANGED dvars /\ r \in ingested' /\ s \in Sessions
    BY <1>4, <1>i DEF Lookup
  <2>3. Counted(s)' = Counted(s) /\ Quiet(s)' = Quiet(s) /\ LatestOf(s)' = LatestOf(s)
    BY <2>2 DEF Counted, Quiet, Writing, RowsOf, LatestOf, OnRecord, dvars, vars, captureVars,
       worldVars
  <2>4. Counted(s) \in Nat
    BY <1>c, <2>2
  <2> QED BY <2>1, <2>2, <2>3, <2>4 DEF Fetching
<1>5. CASE Fetch
  <2> DEFINE r == audit.record
             s == SessionOf[r]
  <2>1. Fetching
    BY <1>5 DEF Fetch, AuditInv, NoAudit, Answered
  <2>2. /\ Answered' /\ audit'.latest = audit.latest
        /\ audit'.calm <=> audit.calm /\ Quiet(s) /\ Counted(s) = audit.counted
        /\ audit'.code = IF jbox[s] = 0 THEN 404 ELSE 200
        /\ audit'.verified <=> jbox[s] # 0 /\ Verified(r)
    BY <1>5 DEF Fetch, Answered
  <2>3. ASSUME audit.calm, Quiet(s), Counted(s) = audit.counted
        PROVE  jbox[s] # 0 /\ (Verified(r) <=> audit.latest)
    BY <2>1, <2>3, CalmFetchIsExact DEF Fetching
  <2>4. CalmAuditIsExact'
    BY <2>2, <2>3 DEF CalmAuditIsExact
  <2> QED BY <2>2, <2>4 DEF AuditInv
<1>6. CASE FetchFails
  BY <1>6 DEF FetchFails, AuditInv, NoAudit
<1>7. CASE audit' = NoAudit
  BY <1>7 DEF AuditInv, NoAudit
<1> QED BY <1>3, <1>4, <1>5, <1>6, <1>7 DEF ANext, AuditInv, avars

(* An audit of a quiet session finds the blob, and finds it to match for the     *)
(* latest turn and for no other (wiki/backend.md 139-143), however many turns     *)
(* were captured, retried and put before (routes/admin.py _fetch_and_verify).    *)
THEOREM CalmAuditsExact ==
  ASSUME Timely, Serial, Spaced, Alone, NoLoss
  PROVE  ASpec => []CalmAuditIsExact
<1>1. AInit => AuditInv
  BY DEF AInit, AuditInv
<1>2. AuditInv => CalmAuditIsExact
  BY DEF AuditInv, CalmAuditIsExact, Answered, NoAudit, Fetching
<1>3. ASpec => [](TypeOK /\ WorldInv /\ SnapshotCurrent /\ StoreInv /\ RowsTellTheTruth
                  /\ LatestOnJbox)
  BY AuditsOnlyRead, WorldHolds, StoreHolds, RowsTrue, LatestTurnOnJbox, SnapshotsCurrent,
     DeliveryImplementsOutbox, PTL
<1> QED BY <1>1, <1>2, <1>3, AuditNext, PTL DEF ASpec
=============================================================================
