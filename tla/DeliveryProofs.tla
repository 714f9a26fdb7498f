--------------------------- MODULE DeliveryProofs ---------------------------
(* What holds of the outbox together with its stages, for any sets of records, *)
(* sessions and routers.                                                      *)
EXTENDS Delivery, OutboxProofs, FiniteSetTheorems

(* A step of the whole is one of the outbox, or leaves the outbox alone.        *)
LEMMA StepProjects == [DNext]_dvars => [Next]_vars
<1> SUFFICES ASSUME [DNext]_dvars PROVE Next \/ UNCHANGED vars
  OBVIOUS
<1>1. CASE DTick \/ UNCHANGED dvars
  BY <1>1 DEF DTick, Next, dvars
<1>2. ASSUME NEW r \in Records, CaptureStep(r) PROVE Next \/ UNCHANGED vars
  BY <1>2 DEF CaptureStep, StartCapture, RenameLands, WriteFails, FinishCapture, EnqueueFails, Next
<1>3. ASSUME NEW w \in Routers, DClaim(w) \/ DCrash(w) \/ TtlPass(w)
      PROVE  Next \/ UNCHANGED vars
  BY <1>3 DEF DClaim, DCrash, TtlPass, Next
<1>4. ASSUME NEW w \in Routers, NEW r \in Records, CallStep(w, r) PROVE Next \/ UNCHANGED vars
  BY <1>4 DEF CallStep, DCall, PostLands, ReadFile, PutLands, ConfirmLands, DAdvance, DRetry,
     DTerminal, DAfterAdvance, DWriteThrows, Next, Result
<1>5. ASSUME NEW w \in Routers, NEW s \in Sessions, TtlCheck(w, s) PROVE UNCHANGED vars
  BY <1>5 DEF TtlCheck
<1>6. ASSUME NEW w \in Routers, NEW l \in GcLanes, GcStep(w, l) PROVE UNCHANGED vars
  BY <1>6 DEF GcStep, UnlinkLands, UnlinkFails, MarkEvicted
<1> QED BY <1>1, <1>2, <1>3, <1>4, <1>5, <1>6 DEF DNext

(* Nothing that captures, stage handlers and deletions do to the outbox goes   *)
(* beyond its own steps: what is proved of the outbox holds of the whole.      *)
THEOREM DeliveryImplementsOutbox == DSpec => Spec
<1>1. DInit => Init
  BY DEF DInit
<1> QED BY <1>1, StepProjects, PTL DEF DSpec, Spec

---------------------------------------------------------------------------
(* Updating a field of a table of two dimensions.                              *)
LEMMA SetAt ==
  ASSUME NEW A, NEW Y, NEW V, NEW f \in [A -> [Y -> V]], NEW a \in A, NEW b \in Y, NEW v \in V
  PROVE  [f EXCEPT ![a][b] = v] \in [A -> [Y -> V]]
OBVIOUS

(* Types.  A record has a turn once its capture has begun.                     *)
Gcs == [phase : {"none", "listed", "unlinking", "unlinked"}, ids : SUBSET Records]

Captures == {"no", "writing", "renamed", "queued", "lost"}

WorldInv ==
  /\ file \in [Sessions -> 0 .. MaxTurn] /\ jbox \in [Sessions -> 0 .. MaxTurn]
  /\ puts \in [Sessions -> SUBSET (1 .. MaxTurn)]
  /\ ingested \subseteq Records /\ uploaded \subseteq Records /\ evicted \subseteq Records
  /\ capture \in [Records -> Captures]
  /\ turn \in [Records -> 0 .. MaxTurn]
  /\ known \subseteq Sessions
  /\ bytes \in [Routers -> [Records -> Unread .. MaxTurn]]
  /\ landed \in [Routers -> [Records -> BOOLEAN]]
  /\ gc \in [Routers -> [GcLanes -> Gcs]]
  /\ \A r \in Records : capture[r] = "no" <=> turn[r] = 0

LEMMA Turnable ==
  /\ MaxTurn \in Nat
  /\ \A s \in Sessions : Turns(s) \subseteq Records /\ IsFiniteSet(Turns(s))
  /\ \A r \in Records : SessionOf[r] \in Sessions /\ r \in Turns(SessionOf[r])
BY DeliveryAssumption, FS_CardinalityType, FS_Subset DEF MaxTurn, Turns

(* A session has fewer counted turns than records while one is not counted.    *)
LEMMA CountedBounds ==
  ASSUME NEW s \in Sessions
  PROVE  /\ IsFiniteSet({q \in Turns(s) : turn[q] > 0}) /\ Counted(s) \in 0 .. MaxTurn
         /\ \A r \in Turns(s) : ~ turn[r] > 0 => Counted(s) + 1 \in 1 .. MaxTurn
<1> DEFINE C == {q \in Turns(s) : turn[q] > 0}
<1>1. C \subseteq Records /\ IsFiniteSet(Records)
  BY DeliveryAssumption DEF Turns
<1>2. IsFiniteSet(C) /\ Cardinality(C) \in Nat /\ Cardinality(C) <= MaxTurn
  BY <1>1, FS_Subset, FS_CardinalityType DEF MaxTurn
<1>3. ASSUME NEW r \in Turns(s), ~ turn[r] > 0 PROVE Cardinality(C) + 1 <= MaxTurn
  <2>1. C # Records
    BY <1>3 DEF Turns
  <2>2. Cardinality(C) # MaxTurn
    BY <1>1, <2>1, FS_Subset DEF MaxTurn
  <2> QED BY <1>2, <2>2, Turnable
<1> QED BY <1>2, <1>3, Turnable DEF Counted

LEMMA EndedCall ==
  ASSUME WorldInv, NEW w \in Routers, NEW r \in Records, EndCall(w, r)
  PROVE  /\ bytes' \in [Routers -> [Records -> Unread .. MaxTurn]]
         /\ landed' \in [Routers -> [Records -> BOOLEAN]]
<1>1. Unread \in Unread .. MaxTurn
  BY Turnable DEF Unread
<1> QED BY <1>1, SetAt DEF EndCall, WorldInv

LEMMA WorldInit == DInit => WorldInv
BY Turnable DEF DInit, WorldInv, Captures, Gcs, NoGc, Unread

LEMMA WorldNext == TypeOK /\ WorldInv /\ [DNext]_dvars => WorldInv'
<1> SUFFICES ASSUME TypeOK, WorldInv, [DNext]_dvars PROVE WorldInv'
  OBVIOUS
<1> USE Turnable
<1>1. CASE DTick \/ UNCHANGED dvars
  BY <1>1 DEF DTick, dvars, worldVars, captureVars, callVars, gcVars, WorldInv
<1>2. ASSUME NEW r \in Records, StartCapture(r) PROVE WorldInv'
  <2>1. NextTurn(SessionOf[r]) \in 1 .. MaxTurn
    <3>1. turn[r] = 0
      BY <1>2 DEF StartCapture, WorldInv
    <3>2. r \in Turns(SessionOf[r]) /\ ~ turn[r] > 0
      BY <3>1
    <3>3. Counted(SessionOf[r]) + 1 \in 1 .. MaxTurn
      BY <3>2, CountedBounds
    <3> QED BY <3>3 DEF NextTurn
  <2>2. capture' \in [Records -> Captures] /\ turn' \in [Records -> 0 .. MaxTurn]
    BY <1>2, <2>1 DEF StartCapture, WorldInv, Captures
  <2>3. \A q \in Records : capture'[q] = "no" <=> turn'[q] = 0
    <3>1. /\ turn'[r] = NextTurn(SessionOf[r]) /\ capture'[r] = "writing"
          /\ \A q \in Records \ {r} : turn'[q] = turn[q] /\ capture'[q] = capture[q]
      BY <1>2 DEF StartCapture, WorldInv
    <3>2. turn'[r] # 0
      BY <2>1, <3>1
    <3> QED BY <3>1, <3>2 DEF WorldInv
  <2> QED BY <1>2, <2>2, <2>3 DEF StartCapture, WorldInv, worldVars, callVars, gcVars
<1>3. ASSUME NEW r \in Records, RenameLands(r) \/ WriteFails(r) \/ FinishCapture(r) \/ EnqueueFails(r)
      PROVE  WorldInv'
  <2>1. /\ capture' \in [Records -> Captures]
        /\ \A q \in Records : capture'[q] = "no" <=> capture[q] = "no"
    BY <1>3 DEF RenameLands, WriteFails, FinishCapture, EnqueueFails, WorldInv, Captures
  <2>2. file' \in [Sessions -> 0 .. MaxTurn]
    BY <1>3 DEF RenameLands, WriteFails, FinishCapture, EnqueueFails, WorldInv
  <2> QED BY <1>3, <2>1, <2>2 DEF RenameLands, WriteFails, FinishCapture, EnqueueFails, WorldInv,
          worldVars, callVars, gcVars
<1>4. ASSUME NEW w \in Routers, DClaim(w) PROVE WorldInv'
  BY <1>4 DEF DClaim, worldVars, captureVars, callVars, gcVars, WorldInv
<1>5. ASSUME NEW w \in Routers, DCrash(w) PROVE WorldInv'
  <2>1. /\ capture' \in [Records -> Captures]
        /\ \A q \in Records : capture'[q] = "no" <=> capture[q] = "no"
    BY <1>5 DEF DCrash, WorldInv, Captures
  <2>2. /\ bytes' \in [Routers -> [Records -> Unread .. MaxTurn]]
        /\ landed' \in [Routers -> [Records -> BOOLEAN]]
    BY <1>5 DEF DCrash, WorldInv, Unread
  <2>3. gc' \in [Routers -> [GcLanes -> Gcs]]
    <3>1. [l \in GcLanes |-> NoGc] \in [GcLanes -> Gcs]
      BY DEF NoGc, Gcs
    <3> QED BY <1>5, <3>1 DEF DCrash, WorldInv
  <2> QED BY <1>5, <2>1, <2>2, <2>3 DEF DCrash, WorldInv, worldVars
<1>6. ASSUME NEW w \in Routers, NEW r \in Records,
             DCall(w, r) \/ DAfterAdvance(w, r) \/ DRetry(w, r) \/ DTerminal(w, r) \/ DWriteThrows(w, r)
      PROVE  WorldInv'
  <2>1. /\ bytes' \in [Routers -> [Records -> Unread .. MaxTurn]]
        /\ landed' \in [Routers -> [Records -> BOOLEAN]]
    <3>1. EndCall(w, r) \/ UNCHANGED callVars
      BY <1>6 DEF DCall, DAfterAdvance, DRetry, DTerminal, DWriteThrows
    <3> QED BY <3>1, EndedCall DEF WorldInv, callVars
  <2> QED BY <1>6, <2>1 DEF DCall, DAfterAdvance, DRetry, DTerminal, DWriteThrows, WorldInv,
          worldVars, captureVars, gcVars
<1>7. ASSUME NEW w \in Routers, NEW r \in Records,
             PostLands(w, r) \/ ReadFile(w, r) \/ PutLands(w, r) \/ ConfirmLands(w, r)
      PROVE  WorldInv'
  <2>1. /\ bytes' \in [Routers -> [Records -> Unread .. MaxTurn]]
        /\ landed' \in [Routers -> [Records -> BOOLEAN]]
    <3>1. file[SessionOf[r]] \in Unread .. MaxTurn
      BY DEF WorldInv, Unread
    <3>2. bytes' = [bytes EXCEPT ![w][r] = file[SessionOf[r]]] \/ UNCHANGED bytes
      BY <1>7 DEF PostLands, ReadFile, PutLands, ConfirmLands
    <3>3. landed' = [landed EXCEPT ![w][r] = TRUE] \/ UNCHANGED landed
      BY <1>7 DEF PostLands, ReadFile, PutLands, ConfirmLands
    <3>4. bytes' \in [Routers -> [Records -> Unread .. MaxTurn]]
      <4>1. bytes \in [Routers -> [Records -> Unread .. MaxTurn]]
        BY DEF WorldInv
      <4>2. [bytes EXCEPT ![w][r] = file[SessionOf[r]]] \in [Routers -> [Records -> Unread .. MaxTurn]]
        BY <3>1, <4>1, SetAt
      <4> QED BY <3>2, <4>1, <4>2
    <3>5. landed' \in [Routers -> [Records -> BOOLEAN]]
      <4>1. landed \in [Routers -> [Records -> BOOLEAN]]
        BY DEF WorldInv
      <4>2. [landed EXCEPT ![w][r] = TRUE] \in [Routers -> [Records -> BOOLEAN]]
        BY <4>1, SetAt
      <4> QED BY <3>3, <4>1, <4>2
    <3> QED BY <3>4, <3>5
  <2>2. /\ jbox' \in [Sessions -> 0 .. MaxTurn]
        /\ puts' \in [Sessions -> SUBSET (1 .. MaxTurn)]
    <3>1. CASE PutLands(w, r)
      <4>1. bytes[w][r] \in 1 .. MaxTurn
        BY <3>1 DEF PutLands, WorldInv, Unread
      <4> QED BY <3>1, <4>1 DEF PutLands, WorldInv
    <3> QED BY <1>7, <3>1 DEF PostLands, ReadFile, ConfirmLands, WorldInv, worldVars
  <2>3. ingested' \subseteq Records /\ uploaded' \subseteq Records
    BY <1>7 DEF PostLands, ReadFile, PutLands, ConfirmLands, WorldInv, worldVars
  <2> QED BY <1>7, <2>1, <2>2, <2>3 DEF PostLands, ReadFile, PutLands, ConfirmLands, WorldInv,
          worldVars, captureVars, gcVars
<1>8. ASSUME NEW w \in Routers, NEW r \in Records, DAdvance(w, r) PROVE WorldInv'
  <2>1. /\ bytes' \in [Routers -> [Records -> Unread .. MaxTurn]]
        /\ landed' \in [Routers -> [Records -> BOOLEAN]]
    BY <1>8, EndedCall DEF DAdvance
  <2>2. gc' \in [Routers -> [GcLanes -> Gcs]]
    <3>1. [phase |-> "unlinking", ids |-> RowsOf(row', SessionOf[r])] \in Gcs
      BY DEF RowsOf, Turns, Gcs
    <3>2. r \in GcLanes
      BY DEF GcLanes
    <3> QED BY <1>8, <3>1, <3>2 DEF DAdvance, WorldInv
  <2> QED BY <1>8, <2>1, <2>2 DEF DAdvance, WorldInv, worldVars, captureVars
<1>9. ASSUME NEW w \in Routers, TtlPass(w) PROVE WorldInv'
  <2>1. \A s \in Sessions, p \in {"listed", "unlinking"} :
          /\ [phase |-> p, ids |-> RowsOf(row, s)] \in Gcs
          /\ Checked(w, s, RowsOf(row, s)) \in Gcs
    BY DEF Checked, RowsOf, Turns, Gcs, NoGc
  <2>2. PICK g \in [GcLanes -> Gcs] : gc' = [gc EXCEPT ![w] = g]
    <3> DEFINE L == {s \in Sessions : Reclaimable(row, s)}
               new(s) == [l \in GcLanes |->
                CASE l = s       -> Checked(w, s, RowsOf(row, s))
                  [] l \in L \ {s} -> [phase |-> "listed", ids |-> RowsOf(row, l)]
                  [] OTHER       -> gc[w][l]]
    <3>1. PICK s \in L : gc' = [gc EXCEPT ![w] = new(s)]
      BY <1>9 DEF TtlPass
    <3>2. ASSUME NEW l \in GcLanes PROVE new(s)[l] \in Gcs
      <4>1. CASE l = s
        BY <2>1, <4>1
      <4>2. CASE l \in L \ {s}
        BY <2>1, <4>2
      <4>3. CASE l # s /\ l \notin L \ {s}
        BY <4>3 DEF WorldInv
      <4> QED BY <4>1, <4>2, <4>3
    <3>3. new(s) \in [GcLanes -> Gcs]
      BY <3>2
    <3> QED BY <3>1, <3>3
  <2> QED BY <1>9, <2>2 DEF TtlPass, WorldInv, worldVars, captureVars, callVars
<1>10. ASSUME NEW w \in Routers, NEW l \in GcLanes,
              (l \in Sessions /\ TtlCheck(w, l)) \/ GcStep(w, l)
       PROVE  WorldInv'
  <2>0. gc[w][l] \in Gcs
    BY DEF WorldInv
  <2>1. gc' \in [Routers -> [GcLanes -> Gcs]]
    <3>1. NoGc \in Gcs /\ Checked(w, l, gc[w][l].ids) \in Gcs
      BY <2>0 DEF Gcs, NoGc, Checked
    <3>2. CASE UnlinkLands(w, l)
      <4>1. [gc[w][l] EXCEPT !.phase = "unlinked"] \in Gcs
        BY <2>0 DEF Gcs
      <4>2. gc' = [gc EXCEPT ![w][l] = [gc[w][l] EXCEPT !.phase = "unlinked"]]
        BY <3>2 DEF UnlinkLands
      <4> QED BY <4>1, <4>2, SetAt DEF WorldInv
    <3>3. CASE l \in Sessions /\ TtlCheck(w, l)
      <4>1. gc' = [gc EXCEPT ![w][l] = Checked(w, l, gc[w][l].ids)]
        BY <3>3 DEF TtlCheck
      <4> QED BY <3>1, <4>1, SetAt DEF WorldInv
    <3>4. CASE UnlinkFails(w, l) \/ MarkEvicted(w, l)
      <4>1. gc' = [gc EXCEPT ![w][l] = NoGc]
        BY <3>4 DEF UnlinkFails, MarkEvicted
      <4> QED BY <3>1, <4>1, SetAt DEF WorldInv
    <3> QED BY <1>10, <3>2, <3>3, <3>4 DEF GcStep
  <2>2. file' \in [Sessions -> 0 .. MaxTurn]
    <3>1. CASE UnlinkLands(w, l)
      <4>1. \A s \in Sessions : {0, file[s]} \subseteq 0 .. MaxTurn
        BY DEF WorldInv
      <4> QED BY <3>1, <4>1 DEF UnlinkLands
    <3> QED BY <1>10, <3>1 DEF TtlCheck, GcStep, UnlinkLands, UnlinkFails, MarkEvicted, WorldInv
  <2>3. evicted' \subseteq Records
    <3>1. gc[w][l].ids \subseteq Records
      BY <2>0 DEF Gcs
    <3> QED BY <1>10, <3>1 DEF TtlCheck, GcStep, UnlinkLands, UnlinkFails, MarkEvicted, WorldInv, Gcs
  <2> QED BY <1>10, <2>1, <2>2, <2>3 DEF TtlCheck, GcStep, UnlinkLands, UnlinkFails, MarkEvicted,
          WorldInv, worldVars, captureVars, callVars
<1> QED BY <1>1, <1>2, <1>3, <1>4, <1>5, <1>6, <1>7, <1>8, <1>9, <1>10
    DEF DNext, CaptureStep, CallStep, GcLanes

LEMMA WorldHolds == DSpec => [](TypeOK /\ WorldInv)
BY WorldInit, WorldNext, DeliveryImplementsOutbox, TypeCorrect, PTL DEF DSpec

(* Rows, files, blobs and everything in memory keep the shape the code gives   *)
(* them.                                                                     *)
THEOREM DeliveryTypeCorrect == DSpec => []DTypeOK
<1>1. TypeOK /\ WorldInv => DTypeOK
  BY DEF WorldInv, DTypeOK, Captures, Gcs
<1> QED BY <1>1, WorldHolds, PTL

---------------------------------------------------------------------------
(* What the rows say has happened outside.  A handler that has succeeded, or   *)
(* whose call has taken effect, has done what its stage is for; the servers    *)
(* forget nothing.                                                           *)
Happened(r, s) == /\ s = "captured" => r \in ingested
                  /\ s = "ingested" => jbox[SessionOf[r]] # 0
                  /\ s = "synced"   => r \in uploaded

TruthInv ==
  /\ \A r \in Records : \A s \in completed[r] : Happened(r, s)
  /\ \A r \in uploaded : jbox[SessionOf[r]] # 0 /\ r \in ingested
  /\ \A w \in Routers, r \in Records :
       landed[w][r] => slot[w][r].phase = "calling" /\ Happened(r, slot[w][r].state)

(* Nothing that was put or posted is ever taken back.                         *)
LEMMA WorldGrows ==
  ASSUME WorldInv, [DNext]_dvars
  PROVE  /\ ingested \subseteq ingested' /\ uploaded \subseteq uploaded'
         /\ \A s \in Sessions : jbox[s] # 0 => jbox'[s] # 0
         /\ \A s \in Sessions : puts[s] \subseteq puts'[s]
<1>1. ASSUME NEW w \in Routers, NEW r \in Records, PutLands(w, r)
      PROVE  /\ UNCHANGED <<ingested, uploaded>>
             /\ \A s \in Sessions : jbox[s] # 0 => jbox'[s] # 0
             /\ \A s \in Sessions : puts[s] \subseteq puts'[s]
  <2>1. bytes[w][r] # 0
    BY <1>1 DEF PutLands
  <2> QED BY <1>1, <2>1 DEF PutLands, WorldInv
<1>2. ASSUME NEW w \in Routers, NEW r \in Records, PostLands(w, r) \/ ConfirmLands(w, r)
      PROVE  /\ ingested \subseteq ingested' /\ uploaded \subseteq uploaded'
             /\ UNCHANGED <<jbox, puts>>
  BY <1>2 DEF PostLands, ConfirmLands
<1>3. ASSUME NEW w \in Routers, NEW r \in Records, CallStep(w, r),
             ~ PostLands(w, r), ~ PutLands(w, r), ~ ConfirmLands(w, r)
      PROVE  UNCHANGED worldVars
  BY <1>3 DEF CallStep, DCall, ReadFile, DAdvance, DRetry, DTerminal, DAfterAdvance, DWriteThrows
<1>4. ASSUME NEW r \in Records, CaptureStep(r) PROVE UNCHANGED worldVars
  BY <1>4 DEF CaptureStep, StartCapture, RenameLands, WriteFails, FinishCapture, EnqueueFails
<1>5. ASSUME NEW w \in Routers, DClaim(w) \/ DCrash(w) \/ TtlPass(w) PROVE UNCHANGED worldVars
  BY <1>5 DEF DClaim, DCrash, TtlPass
<1>6. ASSUME NEW w \in Routers, NEW l \in GcLanes,
             (l \in Sessions /\ TtlCheck(w, l)) \/ GcStep(w, l)
      PROVE  UNCHANGED worldVars
  BY <1>6 DEF TtlCheck, GcStep, UnlinkLands, UnlinkFails, MarkEvicted
<1>7. CASE DTick \/ UNCHANGED dvars
  BY <1>7 DEF DTick, dvars, worldVars
<1> QED BY <1>1, <1>2, <1>3, <1>4, <1>5, <1>6, <1>7 DEF DNext, worldVars, GcLanes

(* A call stays in effect until its lane goes on, and with the snapshot it was *)
(* made for; it takes effect in the steps of the servers alone.                *)
LEMMA LandedSteps ==
  ASSUME TypeOK, WorldInv, TruthInv, [DNext]_dvars, NEW v \in Routers, NEW q \in Records,
         landed'[v][q]
  PROVE  \/ landed[v][q] /\ slot'[v][q] = slot[v][q]
         \/ /\ PostLands(v, q) \/ PutLands(v, q) \/ ConfirmLands(v, q)
            /\ slot'[v][q] = slot[v][q] /\ slot[v][q].phase = "calling"
<1> DEFINE Goal == \/ landed[v][q] /\ slot'[v][q] = slot[v][q]
                   \/ /\ PostLands(v, q) \/ PutLands(v, q) \/ ConfirmLands(v, q)
                      /\ slot'[v][q] = slot[v][q] /\ slot[v][q].phase = "calling"
<1>0. landed[v][q] => slot[v][q].phase = "calling"
  BY DEF TruthInv
<1>1. CASE UNCHANGED <<landed, slot>>
  BY <1>1
<1>2. ASSUME NEW w \in Routers, NEW r \in Records,
             PostLands(w, r) \/ PutLands(w, r) \/ ConfirmLands(w, r)
      PROVE  Goal
  <2>1. landed' = [landed EXCEPT ![w][r] = TRUE] /\ slot' = slot /\ slot[w][r].phase = "calling"
    BY <1>2 DEF PostLands, PutLands, ConfirmLands, Calling, vars
  <2>2. landed[v][q] \/ (v = w /\ q = r)
    BY <2>1 DEF WorldInv
  <2> QED BY <1>2, <2>1, <2>2
<1>3. ASSUME NEW w \in Routers, DClaim(w) PROVE Goal
  <2>1. landed' = landed
    BY <1>3 DEF DClaim, callVars
  <2>2. v # w
    BY <1>3, <2>1, <1>0 DEF DClaim, Claim, Idle
  <2> QED BY <1>3, <2>1, <2>2, ClaimEffect DEF DClaim
<1>4. ASSUME NEW w \in Routers, DCrash(w) PROVE Goal
  <2>1. v # w /\ landed'[v] = landed[v]
    BY <1>4 DEF DCrash, WorldInv
  <2> QED BY <1>4, <2>1 DEF DCrash, Crash, TypeOK
<1>5. ASSUME NEW w \in Routers, NEW r \in Records, DCall(w, r) \/ DAfterAdvance(w, r) PROVE Goal
  <2>1. landed' = landed /\ slot[w][r].phase # "calling"
    BY <1>5 DEF DCall, DAfterAdvance, Call, AfterAdvance, callVars
  <2>2. v # w \/ q # r
    BY <2>1, <1>0
  <2> QED BY <1>5, <2>1, <2>2 DEF DCall, DAfterAdvance, Call, AfterAdvance, TypeOK
<1>6. ASSUME NEW w \in Routers, NEW r \in Records, DAdvance(w, r) \/ DRetry(w, r) \/ DTerminal(w, r)
      PROVE  Goal
  <2>1. landed' = [landed EXCEPT ![w][r] = FALSE]
    BY <1>6 DEF DAdvance, DRetry, DTerminal, EndCall
  <2>2. landed[v][q] /\ (v # w \/ q # r)
    BY <2>1 DEF WorldInv
  <2> QED BY <1>6, <2>2 DEF DAdvance, DRetry, DTerminal, Advance, Retry, Terminal, TypeOK
<1>7. ASSUME NEW w \in Routers, NEW r \in Records, DWriteThrows(w, r) PROVE Goal
  <2>1. landed' = [landed EXCEPT ![w][r] = FALSE]
    BY <1>7 DEF DWriteThrows, EndCall
  <2>2. landed[v][q] /\ (v # w \/ q # r)
    BY <2>1 DEF WorldInv
  <2>3. v # w
    BY <1>7, <1>0, <2>2 DEF DWriteThrows, WriteThrows, Busy
  <2> QED BY <1>7, <2>2, <2>3 DEF DWriteThrows, WriteThrows, TypeOK
<1>8. ASSUME NEW r \in Records, CaptureStep(r) PROVE UNCHANGED <<landed, slot>>
  BY <1>8 DEF CaptureStep, StartCapture, RenameLands, WriteFails, FinishCapture, EnqueueFails,
     Enqueue, vars, callVars
<1>9. ASSUME NEW w \in Routers, TtlPass(w) PROVE UNCHANGED <<landed, slot>>
  BY <1>9 DEF TtlPass, vars, callVars
<1>10. ASSUME NEW w \in Routers, NEW l \in GcLanes,
             (l \in Sessions /\ TtlCheck(w, l)) \/ GcStep(w, l)
      PROVE  UNCHANGED <<landed, slot>>
  BY <1>10 DEF TtlCheck, GcStep, UnlinkLands, UnlinkFails, MarkEvicted, vars, callVars
<1>11. CASE DTick \/ UNCHANGED dvars
  <2>1. UNCHANGED <<landed, slot>>
    BY <1>11 DEF DTick, Tick, dvars, vars, callVars
  <2> QED BY <2>1
<1>12. ASSUME NEW w \in Routers, NEW r \in Records, ReadFile(w, r) PROVE UNCHANGED <<landed, slot>>
  BY <1>12 DEF ReadFile, vars
<1> QED BY <1>1, <1>2, <1>3, <1>4, <1>5, <1>6, <1>7, <1>8, <1>9, <1>10, <1>11, <1>12
    DEF DNext, CallStep, GcLanes

(* A stage is completed only by a call that has taken effect.                  *)
LEMMA CompletedSteps ==
  ASSUME TypeOK, WorldInv, [DNext]_dvars, NEW q \in Records, NEW s \in completed'[q]
  PROVE  s \in completed[q] \/ \E w \in Routers : landed[w][q] /\ slot[w][q].state = s
<1> DEFINE Goal == s \in completed[q] \/ \E w \in Routers : landed[w][q] /\ slot[w][q].state = s
<1>1. CASE UNCHANGED completed
  BY <1>1
<1>2. ASSUME NEW w \in Routers, NEW r \in Records, DAdvance(w, r) PROVE Goal
  <2>1. landed[w][r] /\ completed' = [completed EXCEPT ![r] = @ \cup {slot[w][r].state}]
    BY <1>2 DEF DAdvance, Advance
  <2> QED BY <2>1 DEF TypeOK
<1>3. ASSUME NEW w \in Routers, NEW r \in Records, DWriteThrows(w, r) PROVE Goal
  <2>1. PICK S \in SUBSET {slot[w][r].state} : completed' = [completed EXCEPT ![r] = @ \cup S]
    BY <1>3 DEF DWriteThrows, WriteThrows, FailedWrite
  <2>2. completed' # completed => landed[w][r]
    BY <1>3 DEF DWriteThrows
  <2> QED BY <2>1, <2>2 DEF TypeOK
<1>4. ASSUME NEW w \in Routers, NEW r \in Records, CallStep(w, r), ~ DAdvance(w, r), ~ DWriteThrows(w, r)
      PROVE  UNCHANGED completed
  BY <1>4 DEF CallStep, DCall, Call, PostLands, ReadFile, PutLands, ConfirmLands, DRetry, Retry,
     DTerminal, Terminal, DAfterAdvance, AfterAdvance, vars
<1>5. ASSUME NEW r \in Records, CaptureStep(r) PROVE UNCHANGED completed
  BY <1>5 DEF CaptureStep, StartCapture, RenameLands, WriteFails, FinishCapture, EnqueueFails,
     Enqueue, vars
<1>6. ASSUME NEW w \in Routers, DClaim(w) \/ DCrash(w) \/ TtlPass(w) PROVE UNCHANGED completed
  BY <1>6 DEF DClaim, Claim, DCrash, Crash, TtlPass, vars
<1>7. ASSUME NEW w \in Routers, NEW l \in GcLanes,
             (l \in Sessions /\ TtlCheck(w, l)) \/ GcStep(w, l)
      PROVE  UNCHANGED completed
  BY <1>7 DEF TtlCheck, GcStep, UnlinkLands, UnlinkFails, MarkEvicted, vars
<1>8. CASE DTick \/ UNCHANGED dvars
  <2>1. UNCHANGED completed
    BY <1>8 DEF DTick, Tick, dvars, vars
  <2> QED BY <2>1
<1> QED BY <1>1, <1>2, <1>3, <1>4, <1>5, <1>6, <1>7, <1>8 DEF DNext, GcLanes

(* A record is confirmed by a confirm call.                                    *)
LEMMA UploadedSteps ==
  ASSUME [DNext]_dvars, NEW r \in uploaded' \ uploaded
  PROVE  \E w \in Routers : r \in Records /\ ConfirmLands(w, r)
<1>1. ASSUME NEW w \in Routers, NEW q \in Records, ConfirmLands(w, q) PROVE q = r
  BY <1>1 DEF ConfirmLands
<1>2. ASSUME NEW w \in Routers, NEW q \in Records, CallStep(w, q), ~ ConfirmLands(w, q)
      PROVE  UNCHANGED uploaded
  BY <1>2 DEF CallStep, DCall, PostLands, ReadFile, PutLands, DAdvance, DRetry, DTerminal,
     DAfterAdvance, DWriteThrows, worldVars
<1>3. ASSUME NEW q \in Records, CaptureStep(q) PROVE UNCHANGED uploaded
  BY <1>3 DEF CaptureStep, StartCapture, RenameLands, WriteFails, FinishCapture, EnqueueFails,
     worldVars
<1>4. ASSUME NEW w \in Routers, DClaim(w) \/ DCrash(w) \/ TtlPass(w) PROVE UNCHANGED uploaded
  BY <1>4 DEF DClaim, DCrash, TtlPass, worldVars
<1>5. ASSUME NEW w \in Routers, NEW l \in GcLanes,
             (l \in Sessions /\ TtlCheck(w, l)) \/ GcStep(w, l)
      PROVE  UNCHANGED uploaded
  BY <1>5 DEF TtlCheck, GcStep, UnlinkLands, UnlinkFails, MarkEvicted, worldVars
<1>6. CASE DTick \/ UNCHANGED dvars
  BY <1>6 DEF DTick, dvars, worldVars
<1> QED BY <1>1, <1>2, <1>3, <1>4, <1>5, <1>6 DEF DNext, GcLanes

LEMMA TruthNext ==
  ASSUME TypeOK, WorldInv, StagesInOrder, TruthInv, [DNext]_dvars
  PROVE  TruthInv'
<1> USE Turnable
<1>1. ASSUME NEW r \in Records, NEW s, Happened(r, s) PROVE Happened(r, s)'
  BY <1>1, WorldGrows DEF Happened
<1>2. ASSUME NEW w \in Routers, NEW r \in Records, landed'[w][r]
      PROVE  slot'[w][r].phase = "calling" /\ Happened(r, slot[w][r].state)'
  <2>1. CASE landed[w][r] /\ slot'[w][r] = slot[w][r]
    <3>1. slot[w][r].phase = "calling" /\ Happened(r, slot[w][r].state)
      BY <2>1 DEF TruthInv
    <3> QED BY <2>1, <3>1, WorldGrows DEF Happened
  <2>2. CASE /\ PostLands(w, r) \/ PutLands(w, r) \/ ConfirmLands(w, r)
             /\ slot'[w][r] = slot[w][r] /\ slot[w][r].phase = "calling"
    <3>1. CASE PostLands(w, r)
      BY <2>2, <3>1 DEF PostLands, Calling, Happened
    <3>2. CASE PutLands(w, r)
      <4>1. jbox'[SessionOf[r]] = bytes[w][r] /\ bytes[w][r] # 0
        BY <3>2 DEF PutLands, WorldInv
      <4> QED BY <2>2, <3>2, <4>1 DEF PutLands, Calling, Happened
    <3>3. CASE ConfirmLands(w, r)
      BY <2>2, <3>3 DEF ConfirmLands, Calling, Happened
    <3> QED BY <2>2, <3>1, <3>2, <3>3
  <2> QED BY <1>2, <2>1, <2>2, LandedSteps
<1>3. ASSUME NEW r \in Records, NEW s \in completed'[r] PROVE Happened(r, s)'
  <2>1. Happened(r, s)
    BY CompletedSteps DEF TruthInv
  <2> QED BY <2>1, <1>1
<1>4. ASSUME NEW r \in uploaded' PROVE jbox'[SessionOf[r]] # 0 /\ r \in ingested'
  <2>1. CASE r \in uploaded
    BY <2>1, WorldGrows DEF TruthInv, WorldInv
  <2>2. CASE r \notin uploaded
    <3>1. PICK w \in Routers : r \in Records /\ ConfirmLands(w, r)
      BY <2>2, UploadedSteps
    <3>2. Working(w, r) /\ slot[w][r].state = "synced" /\ r \in ingested
      BY <3>1 DEF ConfirmLands, Calling, Working
    <3>3. "ingested" \in completed[r]
      BY <3>1, <3>2 DEF StagesInOrder, CallsInOrder, Before
    <3>4. jbox[SessionOf[r]] # 0
      BY <3>1, <3>3 DEF TruthInv, Happened
    <3> QED BY <3>1, <3>2, <3>4, WorldGrows
  <2> QED BY <2>1, <2>2
<1> QED BY <1>2, <1>3, <1>4 DEF TruthInv

(* A row tells the truth about the backend and jbox, whatever overlaps, crashes *)
(* and lost answers come between the world and the row: applyResult runs only   *)
(* after the handler's call, and neither server forgets.                       *)
THEOREM RowsTrue == DSpec => []RowsTellTheTruth
<1>1. DInit => TruthInv
  BY DEF DInit, Init, TruthInv
<1>2. TruthInv /\ StagesInOrder => RowsTellTheTruth
  <2> SUFFICES ASSUME TruthInv, StagesInOrder, NEW r \in Records
               PROVE  /\ row[r].state \in {"ingested", "synced", "done"} => r \in ingested
                      /\ row[r].state \in {"synced", "done"} => jbox[SessionOf[r]] # 0
                      /\ row[r].state = "done" => r \in uploaded
                      /\ r \in uploaded => jbox[SessionOf[r]] # 0 /\ r \in ingested
    BY DEF RowsTellTheTruth
  <2>1. \A s \in Before(row[r].state) : Happened(r, s)
    BY DEF TruthInv, StagesInOrder, RowsInOrder
  <2>2. /\ row[r].state \in {"ingested", "synced", "done"} => "captured" \in Before(row[r].state)
        /\ row[r].state \in {"synced", "done"} => "ingested" \in Before(row[r].state)
        /\ row[r].state = "done" => "synced" \in Before(row[r].state)
    BY DEF Before, Stages, ActiveStates
  <2> QED BY <2>1, <2>2 DEF Happened, TruthInv
<1> QED BY <1>1, <1>2, TruthNext, WorldHolds, DeliveryImplementsOutbox, NoStageSkipped, PTL
    DEF DSpec

---------------------------------------------------------------------------
(* The staged files, while one router has the cache directory to itself and    *)
(* deletes no file of a session with a capture under way.                      *)
Alone == \A w \in Routers, s \in Sessions : Owner[s] = w

Needs == {"captured", "ingested"}     \* the states of a row that still needs its file

(* A deletion begins at a session without a row that needs the file, and, with  *)
(* the pending counter that the one router sees, without a capture under way.   *)
LEMMA DeletingSteps ==
  ASSUME Spaced, Alone, WorldInv, [DNext]_dvars, NEW s \in Sessions, Deleting(s)'
  PROVE  \/ Deleting(s)
         \/ ~ Writing(s)' /\ \A r \in Turns(s) : row'[r].state \notin Needs
<1> DEFINE Begins == ~ Writing(s)' /\ \A r \in Turns(s) : row'[r].state \notin Needs
           Goal == Deleting(s) \/ Begins
<1>1. CASE gc' = gc
  BY <1>1 DEF Deleting
<1>2. ASSUME NEW w \in Routers, NEW r \in Records, DAdvance(w, r) PROVE Goal
  <2> DEFINE t == SessionOf[r]
  <2>1. CASE gc' = [gc EXCEPT ![w][r] = [phase |-> "unlinking", ids |-> RowsOf(row', t)]]
             /\ Reclaimable(row', t) /\ ~ Pending(w, t)
    <3>1. CASE s = t
      <4>1. ~ Writing(s)
        BY <2>1, <3>1 DEF Pending, Alone
      <4>2. ~ Writing(s)'
        BY <4>1, <1>2 DEF DAdvance, captureVars, Writing
      <4>3. \A q \in Turns(s) : row'[q].state \notin Needs
        BY <2>1, <3>1 DEF Reclaimable, RowsOf, Needs
      <4> QED BY <4>2, <4>3
    <3>2. CASE s # t
      <4>1. r \in GcLanes /\ \A q \in RowsOf(row', t) : SessionOf[q] = t
        BY DEF GcLanes, RowsOf, Turns
      <4>2. \A v \in Routers, l \in GcLanes : ~ (v = w /\ l = r) => gc'[v][l] = gc[v][l]
        BY <2>1 DEF WorldInv
      <4>3. gc'[w][r].ids = RowsOf(row', t)
        BY <2>1, <4>1 DEF WorldInv
      <4> QED BY <3>2, <4>1, <4>2, <4>3 DEF Deleting
    <3> QED BY <3>1, <3>2
  <2> QED BY <1>1, <1>2, <2>1 DEF DAdvance
<1>3. ASSUME NEW w \in Routers, TtlPass(w) PROVE Goal
  <2> DEFINE L == {t \in Sessions : Reclaimable(row, t)}
  <2>1. /\ \A t \in L : ~ Writing(t)
        /\ UNCHANGED <<row, capture>>
    BY <1>3 DEF TtlPass, vars, captureVars
  <2>2. CASE s \in L
    <3>1. ~ Writing(s)'
      BY <2>1, <2>2 DEF Writing
    <3>2. \A q \in Turns(s) : row'[q].state \notin Needs
      BY <2>1, <2>2 DEF Reclaimable, RowsOf, Needs
    <3> QED BY <3>1, <3>2
  <2>3. CASE s \notin L
    <3>1. PICK v \in Routers, l \in GcLanes : /\ gc'[v][l].phase \in {"listed", "unlinking"}
                                             /\ \E r \in gc'[v][l].ids : SessionOf[r] = s
      BY DEF Deleting
    <3>2. CASE gc'[v][l] = gc[v][l]
      BY <3>1, <3>2 DEF Deleting
    <3>3. CASE gc'[v][l] # gc[v][l]
      <4>1. PICK t \in L :
              gc' = [gc EXCEPT ![w] = [k \in GcLanes |->
                CASE k = t       -> Checked(w, t, RowsOf(row, t))
                  [] k \in L \ {t} -> [phase |-> "listed", ids |-> RowsOf(row, k)]
                  [] OTHER       -> gc[w][k]]]
        BY <1>3 DEF TtlPass
      <4>2. v = w
        BY <3>3, <4>1 DEF WorldInv
      <4>3. gc'[w][l] = CASE l = t       -> Checked(w, t, RowsOf(row, t))
                          [] l \in L \ {t} -> [phase |-> "listed", ids |-> RowsOf(row, l)]
                          [] OTHER       -> gc[w][l]
        BY <4>1 DEF WorldInv
      <4>4. l \in L /\ gc'[w][l].ids \subseteq RowsOf(row, l)
        <5>1. CASE l = t
          BY <4>3, <5>1 DEF Checked, NoGc
        <5>2. CASE l \in L \ {t}
          BY <4>3, <5>2
        <5>3. CASE l # t /\ l \notin L \ {t}
          BY <3>3, <4>2, <4>3, <5>3
        <5> QED BY <5>1, <5>2, <5>3
      <4>5. l = s
        BY <3>1, <4>2, <4>4 DEF RowsOf, Turns
      <4> QED BY <2>3, <4>4, <4>5
    <3> QED BY <3>2, <3>3
  <2> QED BY <2>2, <2>3
<1>4. ASSUME NEW w \in Routers, DCrash(w) PROVE Goal
  <2>1. \A v \in Routers, l \in GcLanes :
          gc'[v][l] = IF v = w THEN NoGc ELSE gc[v][l]
    BY <1>4 DEF DCrash, WorldInv
  <2> QED BY <2>1 DEF Deleting, NoGc
<1>5. ASSUME NEW w \in Routers, NEW l \in GcLanes,
             (l \in Sessions /\ TtlCheck(w, l)) \/ GcStep(w, l)
      PROVE  Goal
  <2>0. gc[w][l] \in Gcs
    BY DEF WorldInv
  <2>1. \A v \in Routers, k \in GcLanes : ~ (v = w /\ k = l) => gc'[v][k] = gc[v][k]
    BY <1>5 DEF TtlCheck, GcStep, UnlinkLands, UnlinkFails, MarkEvicted, WorldInv
  <2>2. gc'[w][l].phase \in {"listed", "unlinking"} =>
          gc[w][l].phase \in {"listed", "unlinking"} /\ gc'[w][l].ids = gc[w][l].ids
    <3>1. CASE l \in Sessions /\ TtlCheck(w, l)
      <4>1. gc'[w][l] = Checked(w, l, gc[w][l].ids) /\ gc[w][l].phase = "listed"
        BY <3>1 DEF TtlCheck, WorldInv
      <4> QED BY <4>1 DEF Checked, NoGc
    <3>2. CASE UnlinkLands(w, l)
      <4>1. gc'[w][l] = [gc[w][l] EXCEPT !.phase = "unlinked"]
        BY <3>2 DEF UnlinkLands, WorldInv
      <4> QED BY <2>0, <4>1 DEF Gcs
    <3>3. CASE UnlinkFails(w, l) \/ MarkEvicted(w, l)
      <4>1. gc'[w][l] = NoGc
        BY <3>3 DEF UnlinkFails, MarkEvicted, WorldInv
      <4> QED BY <4>1 DEF NoGc
    <3> QED BY <1>5, <3>1, <3>2, <3>3 DEF GcStep
  <2> QED BY <2>1, <2>2 DEF Deleting
<1>6. ASSUME NEW w \in Routers, NEW r \in Records, CallStep(w, r), ~ DAdvance(w, r)
      PROVE  gc' = gc
  BY <1>6 DEF CallStep, DCall, PostLands, ReadFile, PutLands, ConfirmLands, DRetry, DTerminal,
     DAfterAdvance, DWriteThrows, gcVars
<1>7. ASSUME NEW r \in Records, CaptureStep(r) PROVE gc' = gc
  BY <1>7 DEF CaptureStep, StartCapture, RenameLands, WriteFails, FinishCapture, EnqueueFails, gcVars
<1>8. ASSUME NEW w \in Routers, DClaim(w) PROVE gc' = gc
  BY <1>8 DEF DClaim, gcVars
<1>9. CASE DTick \/ UNCHANGED dvars
  <2>1. gc' = gc
    BY <1>9 DEF DTick, dvars, gcVars
  <2> QED BY <1>1, <2>1
<1> QED BY <1>1, <1>2, <1>3, <1>4, <1>5, <1>6, <1>7, <1>8, <1>9 DEF DNext, GcLanes

(* A capture is under way from StartCapture on; its file is there from the      *)
(* rename on.                                                                 *)
LEMMA CaptureSteps ==
  ASSUME WorldInv, [DNext]_dvars, NEW r \in Records, capture'[r] \in {"writing", "renamed"}
  PROVE  \/ capture[r] = capture'[r]
         \/ StartCapture(r) /\ capture'[r] = "writing"
         \/ RenameLands(r) /\ capture[r] = "writing" /\ capture'[r] = "renamed"
<1> DEFINE Goal == \/ capture[r] = capture'[r]
                   \/ StartCapture(r) /\ capture'[r] = "writing"
                   \/ RenameLands(r) /\ capture[r] = "writing" /\ capture'[r] = "renamed"
<1>1. ASSUME NEW q \in Records, CaptureStep(q) PROVE Goal
  <2>1. q # r => capture'[r] = capture[r]
    BY <1>1 DEF CaptureStep, StartCapture, RenameLands, WriteFails, FinishCapture, EnqueueFails,
       WorldInv
  <2>2. q = r => \/ capture'[r] \in {"lost", "queued"}
                 \/ StartCapture(r) /\ capture'[r] = "writing"
                 \/ RenameLands(r) /\ capture[r] = "writing" /\ capture'[r] = "renamed"
    <3>1. CASE StartCapture(q)
      <4>1. capture'[q] = "writing"
        BY <3>1 DEF StartCapture, WorldInv
      <4> QED BY <3>1, <4>1
    <3>2. CASE RenameLands(q)
      BY <3>2 DEF RenameLands, WorldInv
    <3>3. CASE WriteFails(q) \/ FinishCapture(q) \/ EnqueueFails(q)
      BY <3>3 DEF WriteFails, FinishCapture, EnqueueFails, WorldInv
    <3> QED BY <1>1, <3>1, <3>2, <3>3 DEF CaptureStep
  <2> QED BY <2>1, <2>2
<1>2. ASSUME NEW w \in Routers, DCrash(w) PROVE Goal
  BY <1>2 DEF DCrash
<1>3. ASSUME NEW w \in Routers, DClaim(w) \/ TtlPass(w) PROVE UNCHANGED capture
  BY <1>3 DEF DClaim, TtlPass, captureVars
<1>4. ASSUME NEW w \in Routers, NEW q \in Records, CallStep(w, q) PROVE UNCHANGED capture
  BY <1>4 DEF CallStep, DCall, PostLands, ReadFile, PutLands, ConfirmLands, DAdvance, DRetry,
     DTerminal, DAfterAdvance, DWriteThrows, captureVars
<1>5. ASSUME NEW w \in Routers, NEW l \in GcLanes,
             (l \in Sessions /\ TtlCheck(w, l)) \/ GcStep(w, l)
      PROVE  UNCHANGED capture
  BY <1>5 DEF TtlCheck, GcStep, UnlinkLands, UnlinkFails, MarkEvicted, captureVars
<1>6. CASE DTick \/ UNCHANGED dvars
  BY <1>6 DEF DTick, dvars, captureVars
<1> QED BY <1>1, <1>2, <1>3, <1>4, <1>5, <1>6 DEF DNext, GcLanes

(* A file changes when a capture replaces it or a deletion takes effect.        *)
LEMMA FileSteps ==
  ASSUME WorldInv, [DNext]_dvars, NEW s \in Sessions, file'[s] # file[s]
  PROVE  /\ UNCHANGED <<row, turn>>
         /\ \/ Deleting(s) /\ file'[s] = 0 /\ UNCHANGED capture
            \/ \E r \in Turns(s) : RenameLands(r) /\ file'[s] = turn[r]
<1> DEFINE Goal == /\ UNCHANGED <<row, turn>>
                   /\ \/ Deleting(s) /\ file'[s] = 0 /\ UNCHANGED capture
                      \/ \E r \in Turns(s) : RenameLands(r) /\ file'[s] = turn[r]
<1>1. ASSUME NEW r \in Records, RenameLands(r) PROVE Goal
  <2>1. file'[s] = IF s = SessionOf[r] THEN turn[r] ELSE file[s]
    BY <1>1 DEF RenameLands, WorldInv
  <2> QED BY <1>1, <2>1, Turnable DEF RenameLands, vars
<1>2. ASSUME NEW w \in Routers, NEW l \in GcLanes, UnlinkLands(w, l) PROVE Goal
  <2>1. (\E r \in gc[w][l].ids : SessionOf[r] = s) /\ file'[s] = 0
    BY <1>2 DEF UnlinkLands, WorldInv
  <2> QED BY <1>2, <2>1 DEF UnlinkLands, Deleting, vars, captureVars
<1>3. ASSUME NEW r \in Records, CaptureStep(r), ~ RenameLands(r) PROVE UNCHANGED file
  BY <1>3 DEF CaptureStep, StartCapture, WriteFails, FinishCapture, EnqueueFails
<1>4. ASSUME NEW w \in Routers, DClaim(w) \/ DCrash(w) \/ TtlPass(w) PROVE UNCHANGED file
  BY <1>4 DEF DClaim, DCrash, TtlPass
<1>5. ASSUME NEW w \in Routers, NEW q \in Records, CallStep(w, q) PROVE UNCHANGED file
  BY <1>5 DEF CallStep, DCall, PostLands, ReadFile, PutLands, ConfirmLands, DAdvance, DRetry,
     DTerminal, DAfterAdvance, DWriteThrows
<1>6. ASSUME NEW w \in Routers, NEW l \in GcLanes,
             (l \in Sessions /\ TtlCheck(w, l)) \/ UnlinkFails(w, l) \/ MarkEvicted(w, l)
      PROVE  UNCHANGED file
  BY <1>6 DEF TtlCheck, UnlinkFails, MarkEvicted
<1>7. CASE DTick \/ UNCHANGED dvars
  BY <1>7 DEF DTick, dvars
<1> QED BY <1>1, <1>2, <1>3, <1>4, <1>5, <1>6, <1>7 DEF DNext, GcStep, GcLanes

---------------------------------------------------------------------------
SparesInv == \A s \in Sessions : Deleting(s) => ~ Writing(s)

LEMMA SparesNext ==
  ASSUME Spaced, Alone, WorldInv, SparesInv, [DNext]_dvars
  PROVE  SparesInv'
<1> SUFFICES ASSUME NEW s \in Sessions, Deleting(s)', Writing(s)' PROVE FALSE
  BY DEF SparesInv
<1>1. Deleting(s) /\ ~ Writing(s)
  BY DeletingSteps DEF SparesInv
<1>2. PICK r \in Turns(s) : capture'[r] \in {"writing", "renamed"}
  BY DEF Writing
<1>3. capture[r] \notin {"writing", "renamed"}
  BY <1>1, <1>2 DEF Writing
<1>4. r \in Records /\ SessionOf[r] = s
  BY <1>2 DEF Turns
<1>5. StartCapture(r)
  BY <1>2, <1>3, <1>4, CaptureSteps
<1> QED BY <1>1, <1>4, <1>5 DEF StartCapture

LEMMA SparesHolds == ASSUME Spaced, Alone PROVE DSpec => []SparesInv
<1>1. DInit => SparesInv
  BY DEF DInit, SparesInv, Writing, Turns
<1> QED BY <1>1, SparesNext, WorldHolds, PTL DEF DSpec

(* The cleanups delete no file that a capture is writing, when one router has   *)
(* the cache directory to itself: both ask the pending counter before they      *)
(* unlink (eviction.ts).                                                      *)
THEOREM WritersSpared == ASSUME Spaced, Alone PROVE DSpec => CleanupSparesWriters
<1> DEFINE Spares == \A s \in Sessions : file[s] # 0 /\ file'[s] = 0 => ~ Writing(s)
<1>1. ASSUME WorldInv, SparesInv, [DNext]_dvars PROVE Spares
  <2> SUFFICES ASSUME NEW s \in Sessions, file[s] # 0, file'[s] = 0 PROVE ~ Writing(s)
    OBVIOUS
  <2>1. CASE Deleting(s)
    BY <1>1, <2>1 DEF SparesInv
  <2>2. ASSUME NEW r \in Turns(s), RenameLands(r), file'[s] = turn[r] PROVE FALSE
    <3>1. r \in Records /\ capture[r] = "writing"
      BY <2>2 DEF Turns, RenameLands
    <3>2. turn[r] # 0
      BY <1>1, <3>1 DEF WorldInv
    <3> QED BY <2>2, <3>2
  <2> QED BY <1>1, <2>1, <2>2, FileSteps
<1>2. WorldInv /\ SparesInv /\ [DNext]_dvars => [Spares]_dvars
  BY <1>1
<1> QED BY <1>2, SparesHolds, WorldHolds, PTL DEF DSpec, CleanupSparesWriters

---------------------------------------------------------------------------
(* A row that needs its file has it: a deletion begins only at a session       *)
(* without such a row, none comes to be while it lasts, and in time nobody      *)
(* writes a row from a snapshot that is no longer true.                        *)
FilesInv ==
  /\ \A s \in Sessions : Deleting(s) => \A r \in Turns(s) : row[r].state \notin Needs
  /\ \A r \in Records :
       capture[r] = "renamed" \/ row[r].state \in Needs => file[SessionOf[r]] # 0

(* A row begins when its capture is enqueued, and goes on from the state it is   *)
(* in.                                                                        *)
LEMMA StateSteps ==
  ASSUME TypeOK, SnapshotCurrent, [DNext]_dvars, NEW r \in Records
  PROVE  \/ row'[r].state = row[r].state
         \/ FinishCapture(r)
         \/ /\ row[r].state \in ActiveStates
            /\ row'[r].state \in {NextStateAfter(row[r].state), "fatal", "conflict"}
<1> DEFINE Goal == \/ row'[r].state = row[r].state
                   \/ FinishCapture(r)
                   \/ /\ row[r].state \in ActiveStates
                      /\ row'[r].state \in {NextStateAfter(row[r].state), "fatal", "conflict"}
<1>1. CASE row'[r].state = row[r].state
  BY <1>1
<1>2. ASSUME NEW q \in Records, FinishCapture(q) PROVE Goal
  <2>1. CASE q = r
    BY <1>2, <2>1
  <2>2. CASE q # r
    BY <1>1, <1>2, <2>2, EnqueueEffect DEF FinishCapture
  <2> QED BY <2>1, <2>2
<1>3. ASSUME NEW q \in Records, CaptureStep(q), ~ FinishCapture(q) PROVE row' = row
  BY <1>3 DEF CaptureStep, StartCapture, RenameLands, WriteFails, EnqueueFails, vars
<1>4. ASSUME NEW w \in Routers, NEW q \in Records, DAdvance(w, q) PROVE Goal
  <2>1. Advance(w, q)
    BY <1>4 DEF DAdvance
  <2>2. CASE q = r
    <3>1. Working(w, r)
      BY <2>1, <2>2 DEF Advance, Working
    <3>2. row[r].state = slot[w][r].state
      BY <3>1 DEF SnapshotCurrent
    <3>3. slot[w][r].state \in ActiveStates
      BY DEF TypeOK, Slots
    <3>4. row'[r].state = NextStateAfter(slot[w][r].state)
      BY <2>1, <2>2, AdvanceEffect
    <3> QED BY <3>2, <3>3, <3>4
  <2>3. CASE q # r
    BY <1>1, <2>1, <2>3, AdvanceEffect
  <2> QED BY <2>2, <2>3
<1>5. ASSUME NEW w \in Routers, NEW q \in Records, DRetry(w, q) PROVE Goal
  <2>1. row'[r].state = row[r].state
    BY <1>5, RetryEffect DEF DRetry
  <2> QED BY <1>1, <2>1
<1>6. ASSUME NEW w \in Routers, NEW q \in Records, DTerminal(w, q) PROVE Goal
  <2>1. Terminal(w, q)
    BY <1>6 DEF DTerminal
  <2>2. CASE q = r
    <3>1. row'[r].state \in {"fatal", "conflict"}
      BY <2>1, <2>2, TerminalEffect
    <3>2. Working(w, r)
      BY <2>1, <2>2 DEF Terminal, Working
    <3>3. row[r].state \in ActiveStates
      BY <3>2 DEF SnapshotCurrent, TypeOK, Slots
    <3> QED BY <3>1, <3>3
  <2>3. CASE q # r
    BY <1>1, <2>1, <2>3, TerminalEffect
  <2> QED BY <2>2, <2>3
<1>7. ASSUME NEW w \in Routers, NEW q \in Records, CallStep(w, q),
             ~ DAdvance(w, q), ~ DRetry(w, q), ~ DTerminal(w, q)
      PROVE  row' = row
  BY <1>7 DEF CallStep, DCall, Call, PostLands, ReadFile, PutLands, ConfirmLands, DAfterAdvance,
     AfterAdvance, DWriteThrows, WriteThrows, FailedWrite, vars
<1>8. ASSUME NEW w \in Routers, DClaim(w) PROVE Goal
  BY <1>1, <1>8, ClaimEffect DEF DClaim
<1>9. ASSUME NEW w \in Routers, DCrash(w) \/ TtlPass(w) PROVE row' = row
  BY <1>9 DEF DCrash, Crash, TtlPass, vars
<1>10. ASSUME NEW w \in Routers, NEW l \in GcLanes,
             (l \in Sessions /\ TtlCheck(w, l)) \/ GcStep(w, l)
      PROVE  row' = row
  BY <1>10 DEF TtlCheck, GcStep, UnlinkLands, UnlinkFails, MarkEvicted, vars
<1>11. CASE DTick
  BY <1>1, <1>11, TickEffect DEF DTick
<1>12. CASE UNCHANGED dvars
  BY <1>1, <1>12 DEF dvars, vars
<1> QED BY <1>1, <1>2, <1>3, <1>4, <1>5, <1>6, <1>7, <1>8, <1>9, <1>10, <1>11, <1>12
    DEF DNext, GcLanes

(* A row comes to need its file when its capture is enqueued.                  *)
LEMMA NeedSteps ==
  ASSUME TypeOK, SnapshotCurrent, [DNext]_dvars, NEW r \in Records, row'[r].state \in Needs
  PROVE  row[r].state \in Needs \/ FinishCapture(r)
BY StateSteps DEF Needs, NextStateAfter, ActiveStates

LEMMA FilesNext ==
  ASSUME Spaced, Alone, TypeOK, WorldInv, SnapshotCurrent, SparesInv, FilesInv, [DNext]_dvars
  PROVE  FilesInv'
<1> USE Turnable
<1>1. ASSUME NEW s \in Sessions, Deleting(s)', NEW r \in Turns(s), row'[r].state \in Needs
      PROVE  FALSE
  <2>1. r \in Records /\ SessionOf[r] = s
    BY DEF Turns
  <2>2. Deleting(s)
    BY <1>1, DeletingSteps
  <2>3. row[r].state \notin Needs /\ ~ Writing(s)
    BY <2>2 DEF FilesInv, SparesInv
  <2>4. FinishCapture(r)
    BY <1>1, <2>1, <2>3, NeedSteps
  <2> QED BY <2>3, <2>4 DEF FinishCapture, Writing
<1>2. ASSUME NEW r \in Records, capture'[r] = "renamed" \/ row'[r].state \in Needs
      PROVE  file'[SessionOf[r]] # 0
  <2> DEFINE s == SessionOf[r]
  <2>1. CASE RenameLands(r)
    BY <2>1 DEF RenameLands, WorldInv
  <2>2. CASE ~ RenameLands(r)
    <3>1. capture[r] = "renamed" \/ row[r].state \in Needs
      BY <1>2, <2>2, CaptureSteps, NeedSteps DEF FinishCapture
    <3>2. file[s] # 0
      BY <3>1 DEF FilesInv
    <3>3. CASE Deleting(s) /\ UNCHANGED <<row, capture>>
      <4>1. ~ Writing(s) /\ row[r].state \notin Needs
        BY <3>3 DEF FilesInv, SparesInv
      <4> QED BY <1>2, <3>3, <4>1 DEF Writing
    <3>4. ASSUME NEW q \in Turns(s), RenameLands(q), file'[s] = turn[q] PROVE file'[s] # 0
      <4>1. q \in Records /\ capture[q] = "writing"
        BY <3>4 DEF Turns, RenameLands
      <4>2. turn[q] # 0
        BY <4>1 DEF WorldInv
      <4> QED BY <3>4, <4>2
    <3> QED BY <3>2, <3>3, <3>4, FileSteps
  <2> QED BY <2>1, <2>2
<1> QED BY <1>1, <1>2 DEF FilesInv

LEMMA FilesHold == ASSUME Timely, Spaced, Alone PROVE DSpec => []FilesInv
<1>1. DInit => FilesInv
  BY DEF DInit, Init, Absent, FilesInv, Deleting, NoGc, Needs
<1> QED BY <1>1, FilesNext, SparesHolds, WorldHolds, SnapshotsCurrent, DeliveryImplementsOutbox,
        PTL DEF DSpec

(* No record loses the file it still has to upload: while batches end in time,  *)
(* in a cache directory of one router, whatever captures, deletions, failures   *)
(* and crashes come together.                                                  *)
THEOREM NeededFilesExist == ASSUME Timely, Spaced, Alone PROVE DSpec => []NeededFileExists
<1>1. FilesInv => NeededFileExists
  BY DEF FilesInv, NeededFileExists, Needs
<1> QED BY <1>1, FilesHold, PTL

---------------------------------------------------------------------------
(* Turns.  The captures of a session, taken one after the other, write its file *)
(* in the order of their turns.                                               *)

(* A turn is given when a capture begins, and is one more than the session had. *)
LEMMA TurnSteps ==
  ASSUME WorldInv, [DNext]_dvars
  PROVE  \/ UNCHANGED turn
         \/ \E r \in Records :
              /\ StartCapture(r)
              /\ turn' = [turn EXCEPT ![r] = Counted(SessionOf[r]) + 1]
              /\ Counted(SessionOf[r])' = Counted(SessionOf[r]) + 1
              /\ \A s \in Sessions \ {SessionOf[r]} : Counted(s)' = Counted(s)
<1>1. ASSUME NEW r \in Records, StartCapture(r)
      PROVE  /\ turn' = [turn EXCEPT ![r] = Counted(SessionOf[r]) + 1]
             /\ Counted(SessionOf[r])' = Counted(SessionOf[r]) + 1
             /\ \A s \in Sessions \ {SessionOf[r]} : Counted(s)' = Counted(s)
  <2> DEFINE C(s) == {q \in Turns(s) : turn[q] > 0}
  <2>1. /\ turn' = [turn EXCEPT ![r] = Counted(SessionOf[r]) + 1] /\ turn[r] = 0
        /\ \A q \in Records \ {r} : turn'[q] = turn[q]
    BY <1>1 DEF StartCapture, NextTurn, WorldInv
  <2>2. Counted(SessionOf[r]) \in Nat /\ IsFiniteSet(C(SessionOf[r]))
    <3>1. SessionOf[r] \in Sessions /\ MaxTurn \in Nat
      BY Turnable
    <3>2. IsFiniteSet(C(SessionOf[r])) /\ Counted(SessionOf[r]) \in 0 .. MaxTurn
      BY <3>1, CountedBounds
    <3> QED BY <3>1, <3>2
  <2>3. turn'[r] = Counted(SessionOf[r]) + 1
    BY <2>1 DEF WorldInv
  <2>4. {q \in Turns(SessionOf[r]) : turn'[q] > 0} = C(SessionOf[r]) \cup {r}
    BY <2>1, <2>2, <2>3, Turnable DEF Turns
  <2>5. r \notin C(SessionOf[r])
    BY <2>1
  <2>6. Counted(SessionOf[r])' = Counted(SessionOf[r]) + 1
    BY <2>2, <2>4, <2>5, FS_AddElement DEF Counted
  <2>7. ASSUME NEW s \in Sessions \ {SessionOf[r]} PROVE Counted(s)' = Counted(s)
    <3>1. {q \in Turns(s) : turn'[q] > 0} = C(s)
      BY <2>1 DEF Turns
    <3> QED BY <3>1 DEF Counted
  <2> QED BY <2>1, <2>6, <2>7
<1>2. ASSUME NEW r \in Records, CaptureStep(r), ~ StartCapture(r) PROVE UNCHANGED turn
  BY <1>2 DEF CaptureStep, RenameLands, WriteFails, FinishCapture, EnqueueFails
<1>3. ASSUME NEW w \in Routers, DClaim(w) \/ DCrash(w) \/ TtlPass(w) PROVE UNCHANGED turn
  BY <1>3 DEF DClaim, DCrash, TtlPass, captureVars
<1>4. ASSUME NEW w \in Routers, NEW q \in Records, CallStep(w, q) PROVE UNCHANGED turn
  BY <1>4 DEF CallStep, DCall, PostLands, ReadFile, PutLands, ConfirmLands, DAdvance, DRetry,
     DTerminal, DAfterAdvance, DWriteThrows, captureVars
<1>5. ASSUME NEW w \in Routers, NEW l \in GcLanes,
             (l \in Sessions /\ TtlCheck(w, l)) \/ GcStep(w, l)
      PROVE  UNCHANGED turn
  BY <1>5 DEF TtlCheck, GcStep, UnlinkLands, UnlinkFails, MarkEvicted, captureVars
<1>6. CASE DTick \/ UNCHANGED dvars
  BY <1>6 DEF DTick, dvars, captureVars
<1> QED BY <1>1, <1>2, <1>3, <1>4, <1>5, <1>6 DEF DNext, GcLanes

(* A capture that was enqueued stays so.                                       *)
LEMMA QueuedStays ==
  ASSUME WorldInv, [DNext]_dvars, NEW r \in Records, capture[r] = "queued"
  PROVE  capture'[r] = "queued"
<1>1. ASSUME NEW q \in Records, CaptureStep(q) PROVE capture'[r] = "queued"
  BY <1>1 DEF CaptureStep, StartCapture, RenameLands, WriteFails, FinishCapture, EnqueueFails,
     WorldInv
<1>2. ASSUME NEW w \in Routers, DCrash(w) PROVE capture'[r] = "queued"
  BY <1>2 DEF DCrash
<1>3. ASSUME NEW w \in Routers, DClaim(w) \/ TtlPass(w) PROVE UNCHANGED capture
  BY <1>3 DEF DClaim, TtlPass, captureVars
<1>4. ASSUME NEW w \in Routers, NEW q \in Records, CallStep(w, q) PROVE UNCHANGED capture
  BY <1>4 DEF CallStep, DCall, PostLands, ReadFile, PutLands, ConfirmLands, DAdvance, DRetry,
     DTerminal, DAfterAdvance, DWriteThrows, captureVars
<1>5. ASSUME NEW w \in Routers, NEW l \in GcLanes,
             (l \in Sessions /\ TtlCheck(w, l)) \/ GcStep(w, l)
      PROVE  UNCHANGED capture
  BY <1>5 DEF TtlCheck, GcStep, UnlinkLands, UnlinkFails, MarkEvicted, captureVars
<1>6. CASE DTick \/ UNCHANGED dvars
  BY <1>6 DEF DTick, dvars, captureVars
<1> QED BY <1>1, <1>2, <1>3, <1>4, <1>5, <1>6 DEF DNext, GcLanes

(* The turn being written is the latest of its session; whatever the outbox or  *)
(* the backend knows of was enqueued.                                          *)
Begun(r) == row[r].state # "absent" \/ completed[r] # {} \/ r \in uploaded

TurnsInv ==
  /\ \A r \in Records : turn[r] <= Counted(SessionOf[r])
  /\ \A r \in Records : capture[r] = "writing" => turn[r] = Counted(SessionOf[r])
  /\ \A r \in Records : Begun(r) => capture[r] = "queued"

LEMMA LandedWorks ==
  ASSUME TypeOK, SnapshotCurrent, TruthInv, NEW w \in Routers, NEW r \in Records,
         landed[w][r] \/ slot[w][r].phase = "calling"
  PROVE  Working(w, r) /\ row[r].state = slot[w][r].state /\ row[r].state # "absent"
<1>1. Working(w, r)
  BY DEF TruthInv, Working
<1> QED BY <1>1 DEF SnapshotCurrent, TypeOK, Slots, ActiveStates

LEMMA TurnsNext ==
  ASSUME Serial, TypeOK, WorldInv, SnapshotCurrent, TruthInv, TurnsInv, [DNext]_dvars
  PROVE  TurnsInv'
<1> USE Turnable
<1>c. \A s \in Sessions : Counted(s) \in Nat
  <2> TAKE s \in Sessions
  <2>1. Counted(s) \in 0 .. MaxTurn
    BY CountedBounds
  <2> QED BY <2>1
<1>1. ASSUME NEW r \in Records PROVE turn'[r] <= Counted(SessionOf[r])'
  <2>1. CASE UNCHANGED turn
    BY <2>1 DEF TurnsInv, Counted
  <2>2. ASSUME NEW q \in Records,
               turn' = [turn EXCEPT ![q] = Counted(SessionOf[q]) + 1],
               Counted(SessionOf[q])' = Counted(SessionOf[q]) + 1,
               \A s \in Sessions \ {SessionOf[q]} : Counted(s)' = Counted(s)
        PROVE  turn'[r] <= Counted(SessionOf[r])'
    <3>1. turn[r] <= Counted(SessionOf[r]) /\ turn[r] \in Nat
      BY DEF TurnsInv, WorldInv
    <3>2. Counted(SessionOf[r])' >= Counted(SessionOf[r])
      BY <1>c, <2>2
    <3>3. CASE r = q
      BY <2>2, <3>3, <1>c DEF WorldInv
    <3>4. CASE r # q
      <4>1. turn'[r] = turn[r]
        BY <2>2, <3>4 DEF WorldInv
      <4>2. Counted(SessionOf[r])' \in Nat
        BY <1>c, <2>2
      <4> QED BY <1>c, <3>1, <3>2, <4>1, <4>2
    <3> QED BY <3>3, <3>4
  <2> QED BY <2>1, <2>2, TurnSteps
<1>2. ASSUME NEW r \in Records, capture'[r] = "writing"
      PROVE  turn'[r] = Counted(SessionOf[r])'
  <2>1. CASE UNCHANGED turn
    <3>1. ~ StartCapture(r)
      <4>1. ASSUME StartCapture(r) PROVE FALSE
        <5>1. turn[r] = 0 /\ turn'[r] = Counted(SessionOf[r]) + 1
          BY <4>1 DEF StartCapture, NextTurn, WorldInv
        <5> QED BY <1>c, <2>1, <5>1
      <4> QED BY <4>1
    <3>2. capture[r] = "writing"
      BY <1>2, <3>1, CaptureSteps
    <3> QED BY <2>1, <3>2 DEF TurnsInv, Counted
  <2>2. ASSUME NEW q \in Records, StartCapture(q),
               turn' = [turn EXCEPT ![q] = Counted(SessionOf[q]) + 1],
               Counted(SessionOf[q])' = Counted(SessionOf[q]) + 1,
               \A s \in Sessions \ {SessionOf[q]} : Counted(s)' = Counted(s)
        PROVE  turn'[r] = Counted(SessionOf[r])'
    <3>1. CASE r = q
      BY <2>2, <3>1 DEF WorldInv
    <3>2. CASE r # q
      <4>1. capture'[r] = capture[r] /\ turn'[r] = turn[r]
        BY <2>2, <3>2 DEF StartCapture, WorldInv
      <4>2. SessionOf[r] # SessionOf[q]
        BY <1>2, <2>2, <4>1 DEF StartCapture, Writing
      <4> QED BY <1>2, <2>2, <4>1, <4>2 DEF TurnsInv
    <3> QED BY <3>1, <3>2
  <2> QED BY <2>1, <2>2, TurnSteps
<1>3. ASSUME NEW r \in Records, Begun(r)' PROVE capture'[r] = "queued"
  <2>1. CASE Begun(r)
    BY <2>1, QueuedStays DEF TurnsInv
  <2>2. CASE ~ Begun(r)
    <3>1. CASE FinishCapture(r)
      BY <3>1 DEF FinishCapture, WorldInv
    <3>2. CASE row'[r].state = "absent" \/ ~ FinishCapture(r)
      <4>1. row'[r].state = "absent"
        BY <2>2, <3>2, StateSteps DEF Begun, ActiveStates
      <4>2. ASSUME NEW s \in completed'[r] PROVE FALSE
        <5>1. PICK w \in Routers : landed[w][r]
          BY <2>2, CompletedSteps DEF Begun
        <5> QED BY <2>2, <5>1, LandedWorks DEF Begun
      <4>3. r \notin uploaded'
        <5>1. ASSUME r \in uploaded' PROVE FALSE
          <6>1. PICK w \in Routers : ConfirmLands(w, r)
            BY <2>2, <5>1, UploadedSteps DEF Begun
          <6> QED BY <2>2, <6>1, LandedWorks DEF Begun, ConfirmLands, Calling
        <5> QED BY <5>1
      <4> QED BY <1>3, <4>1, <4>2, <4>3 DEF Begun
    <3> QED BY <3>1, <3>2
  <2> QED BY <2>1, <2>2
<1> QED BY <1>1, <1>2, <1>3 DEF TurnsInv

(* What was read for a PUT stays as it is until the call is over.               *)
LEMMA BytesSteps ==
  ASSUME TypeOK, WorldInv, [DNext]_dvars, NEW v \in Routers, NEW q \in Records,
         bytes'[v][q] # Unread, bytes[v][q] # Unread => Calling(v, q, "ingested")
  PROVE  \/ bytes[v][q] = bytes'[v][q] /\ slot'[v][q] = slot[v][q]
         \/ ReadFile(v, q) /\ bytes'[v][q] = file[SessionOf[q]] /\ slot'[v][q] = slot[v][q]
<1> DEFINE Goal ==
      \/ bytes[v][q] = bytes'[v][q] /\ slot'[v][q] = slot[v][q]
      \/ ReadFile(v, q) /\ bytes'[v][q] = file[SessionOf[q]] /\ slot'[v][q] = slot[v][q]
<1>0. bytes[v][q] # Unread => slot[v][q].phase = "calling"
  BY DEF Calling
<1>1. CASE UNCHANGED <<bytes, slot>>
  BY <1>1
<1>2. ASSUME NEW w \in Routers, NEW r \in Records, ReadFile(w, r) PROVE Goal
  <2>1. bytes' = [bytes EXCEPT ![w][r] = file[SessionOf[r]]] /\ slot' = slot
    BY <1>2 DEF ReadFile, vars
  <2>2. CASE v = w /\ q = r
    <3>1. bytes'[v][q] = file[SessionOf[q]]
      BY <2>1, <2>2 DEF WorldInv
    <3> QED BY <1>2, <2>1, <2>2, <3>1
  <2>3. CASE ~ (v = w /\ q = r)
    BY <2>1, <2>3 DEF WorldInv
  <2> QED BY <2>2, <2>3
<1>3. ASSUME NEW w \in Routers, DClaim(w) PROVE Goal
  <2>1. bytes' = bytes
    BY <1>3 DEF DClaim, callVars
  <2>2. v # w
    BY <1>3, <2>1, <1>0 DEF DClaim, Claim, Idle
  <2> QED BY <1>3, <2>1, <2>2, ClaimEffect DEF DClaim
<1>4. ASSUME NEW w \in Routers, DCrash(w) PROVE Goal
  <2>1. v # w /\ bytes'[v] = bytes[v]
    BY <1>4 DEF DCrash, WorldInv
  <2> QED BY <1>4, <2>1 DEF DCrash, Crash, TypeOK
<1>5. ASSUME NEW w \in Routers, NEW r \in Records, DCall(w, r) \/ DAfterAdvance(w, r) PROVE Goal
  <2>1. bytes' = bytes /\ slot[w][r].phase # "calling"
    BY <1>5 DEF DCall, DAfterAdvance, Call, AfterAdvance, callVars
  <2>2. v # w \/ q # r
    BY <2>1, <1>0
  <2> QED BY <1>5, <2>1, <2>2 DEF DCall, DAfterAdvance, Call, AfterAdvance, TypeOK
<1>6. ASSUME NEW w \in Routers, NEW r \in Records, DAdvance(w, r) \/ DRetry(w, r) \/ DTerminal(w, r)
      PROVE  Goal
  <2>1. bytes' = [bytes EXCEPT ![w][r] = Unread]
    BY <1>6 DEF DAdvance, DRetry, DTerminal, EndCall
  <2>2. bytes'[v][q] = bytes[v][q] /\ (v # w \/ q # r)
    BY <2>1 DEF WorldInv
  <2> QED BY <1>6, <2>2 DEF DAdvance, DRetry, DTerminal, Advance, Retry, Terminal, TypeOK
<1>7. ASSUME NEW w \in Routers, NEW r \in Records, DWriteThrows(w, r) PROVE Goal
  <2>1. bytes' = [bytes EXCEPT ![w][r] = Unread]
    BY <1>7 DEF DWriteThrows, EndCall
  <2>2. bytes'[v][q] = bytes[v][q] /\ (v # w \/ q # r)
    BY <2>1 DEF WorldInv
  <2>3. v # w
    BY <1>7, <1>0, <2>2 DEF DWriteThrows, WriteThrows, Busy
  <2> QED BY <1>7, <2>2, <2>3 DEF DWriteThrows, WriteThrows, TypeOK
<1>8. ASSUME NEW r \in Records, CaptureStep(r) PROVE UNCHANGED <<bytes, slot>>
  BY <1>8 DEF CaptureStep, StartCapture, RenameLands, WriteFails, FinishCapture, EnqueueFails,
     Enqueue, vars, callVars
<1>9. ASSUME NEW w \in Routers, TtlPass(w) PROVE UNCHANGED <<bytes, slot>>
  BY <1>9 DEF TtlPass, vars, callVars
<1>10. ASSUME NEW w \in Routers, NEW l \in GcLanes,
             (l \in Sessions /\ TtlCheck(w, l)) \/ GcStep(w, l)
      PROVE  UNCHANGED <<bytes, slot>>
  BY <1>10 DEF TtlCheck, GcStep, UnlinkLands, UnlinkFails, MarkEvicted, vars, callVars
<1>11. CASE DTick \/ UNCHANGED dvars
  <2>1. UNCHANGED <<bytes, slot>>
    BY <1>11 DEF DTick, Tick, dvars, vars, callVars
  <2> QED BY <2>1
<1>12. ASSUME NEW w \in Routers, NEW r \in Records,
              PostLands(w, r) \/ PutLands(w, r) \/ ConfirmLands(w, r)
       PROVE  UNCHANGED <<bytes, slot>>
  BY <1>12 DEF PostLands, PutLands, ConfirmLands, vars
<1> QED BY <1>1, <1>2, <1>3, <1>4, <1>5, <1>6, <1>7, <1>8, <1>9, <1>10, <1>11, <1>12
    DEF DNext, CallStep, GcLanes

LEMMA TurnsHold == ASSUME Timely, Serial PROVE DSpec => [](TruthInv /\ TurnsInv)
<1>1. DInit => TruthInv
  BY DEF DInit, Init, TruthInv
<1>2. DInit => TurnsInv
  <2> SUFFICES ASSUME DInit PROVE TurnsInv
    OBVIOUS
  <2>1. \A r \in Records : turn[r] = 0 /\ capture[r] = "no" /\ ~ Begun(r)
    BY DEF DInit, Init, Absent, Begun
  <2>2. \A s \in Sessions : {q \in Turns(s) : turn[q] > 0} = {}
    BY <2>1 DEF Turns
  <2>3. \A s \in Sessions : Counted(s) = 0
    BY <2>2, FS_EmptySet DEF Counted
  <2> QED BY <2>1, <2>3, Turnable DEF TurnsInv
<1> QED BY <1>1, <1>2, TruthNext, TurnsNext, WorldHolds, DeliveryImplementsOutbox, NoStageSkipped,
        SnapshotsCurrent, PTL DEF DSpec

(* The bytes of the record's turn, or of a later one, were on jbox.             *)
WasPut(r) == \E t \in puts[SessionOf[r]] : t >= turn[r]

PutInv ==
  /\ \A r \in Records :
       capture[r] = "renamed" \/ row[r].state \in Needs => file[SessionOf[r]] >= turn[r]
  /\ \A w \in Routers, r \in Records :
       bytes[w][r] # Unread => Calling(w, r, "ingested") /\ bytes[w][r] >= turn[r]
  /\ \A w \in Routers, r \in Records :
       landed[w][r] /\ slot[w][r].state = "ingested" => WasPut(r)
  /\ \A r \in Records : "ingested" \in completed[r] \/ r \in uploaded => WasPut(r)

LEMMA PutNext ==
  ASSUME Serial, Spaced, Alone, TypeOK, WorldInv, SnapshotCurrent, StagesInOrder, SparesInv,
         FilesInv, TruthInv, TurnsInv, PutInv, [DNext]_dvars
  PROVE  PutInv'
<1> USE Turnable
<1>t. \A r \in Records, s \in Sessions : turn[r] \in Nat /\ file[s] \in Nat
  BY DEF WorldInv
<1>k. ASSUME NEW r \in Records, capture[r] # "no" PROVE turn'[r] = turn[r]
  BY <1>k, TurnSteps DEF StartCapture, WorldInv
<1>b. ASSUME NEW r \in Records, Begun(r) PROVE turn'[r] = turn[r]
  <2>1. capture[r] # "no"
    BY <1>b DEF TurnsInv
  <2> QED BY <2>1, <1>k
<1>p. ASSUME NEW r \in Records, Begun(r), WasPut(r) PROVE WasPut(r)'
  BY <1>p, <1>b, WorldGrows DEF WasPut
<1>1. ASSUME NEW r \in Records, capture'[r] = "renamed" \/ row'[r].state \in Needs
      PROVE  file'[SessionOf[r]] >= turn'[r]
  <2> DEFINE s == SessionOf[r]
  <2>1. CASE RenameLands(r)
    <3>1. file'[s] = turn[r] /\ turn'[r] = turn[r]
      BY <2>1 DEF RenameLands, WorldInv
    <3> QED BY <3>1, <1>t
  <2>2. CASE ~ RenameLands(r)
    <3>1. capture[r] = "renamed" \/ row[r].state \in Needs
      BY <1>1, <2>2, CaptureSteps, NeedSteps DEF FinishCapture
    <3>2. capture[r] # "no"
      BY <3>1 DEF TurnsInv, Begun, Needs
    <3>3. turn'[r] = turn[r] /\ file[s] >= turn[r]
      BY <3>1, <3>2, <1>k DEF PutInv
    <3>4. CASE Deleting(s) /\ UNCHANGED <<row, capture>>
      <4>1. ~ Writing(s) /\ row[r].state \notin Needs
        BY <3>4 DEF FilesInv, SparesInv
      <4> QED BY <1>1, <3>4, <4>1 DEF Writing
    <3>5. ASSUME NEW q \in Turns(s), RenameLands(q), file'[s] = turn[q] PROVE file'[s] >= turn[r]
      <4>1. q \in Records /\ SessionOf[q] = s /\ capture[q] = "writing"
        BY <3>5 DEF Turns, RenameLands
      <4>2. turn[q] = Counted(s) /\ turn[r] <= Counted(s)
        BY <4>1 DEF TurnsInv
      <4> QED BY <3>5, <4>1, <4>2, <1>t
    <3>6. CASE file'[s] = file[s]
      BY <3>3, <3>6
    <3> QED BY <3>3, <3>4, <3>5, <3>6, FileSteps
  <2> QED BY <2>1, <2>2
<1>2. ASSUME NEW w \in Routers, NEW r \in Records, bytes'[w][r] # Unread
      PROVE  Calling(w, r, "ingested")' /\ bytes'[w][r] >= turn'[r]
  <2>0. bytes[w][r] # Unread => Calling(w, r, "ingested")
    BY DEF PutInv
  <2>1. CASE bytes[w][r] = bytes'[w][r] /\ slot'[w][r] = slot[w][r]
    <3>1. Calling(w, r, "ingested") /\ bytes[w][r] >= turn[r]
      BY <1>2, <2>1 DEF PutInv
    <3>2. Begun(r)
      BY <3>1, LandedWorks DEF Calling, Begun
    <3> QED BY <2>1, <3>1, <3>2, <1>b DEF Calling
  <2>2. CASE ReadFile(w, r) /\ bytes'[w][r] = file[SessionOf[r]] /\ slot'[w][r] = slot[w][r]
    <3>1. Calling(w, r, "ingested")
      BY <2>2 DEF ReadFile
    <3>2. row[r].state = "ingested"
      BY <3>1, LandedWorks DEF Calling
    <3>3. file[SessionOf[r]] >= turn[r]
      BY <3>2 DEF PutInv, Needs
    <3>4. turn'[r] = turn[r]
      BY <3>2, <1>b DEF Begun
    <3> QED BY <2>2, <3>1, <3>3, <3>4 DEF Calling
  <2> QED BY <1>2, <2>0, <2>1, <2>2, BytesSteps
<1>3. ASSUME NEW w \in Routers, NEW r \in Records, landed'[w][r], slot'[w][r].state = "ingested"
      PROVE  WasPut(r)'
  <2>1. CASE landed[w][r] /\ slot'[w][r] = slot[w][r]
    <3>1. WasPut(r)
      BY <1>3, <2>1 DEF PutInv
    <3>2. Begun(r)
      BY <2>1, LandedWorks DEF Begun
    <3> QED BY <3>1, <3>2, <1>p
  <2>2. CASE PutLands(w, r)
    <3>1. bytes[w][r] >= turn[r] /\ Calling(w, r, "ingested")
      BY <2>2 DEF PutLands, PutInv, Unread
    <3>2. turn'[r] = turn[r]
      BY <3>1, LandedWorks, <1>b DEF Begun, Calling
    <3>3. bytes[w][r] \in puts'[SessionOf[r]]
      BY <2>2 DEF PutLands, WorldInv
    <3> QED BY <3>1, <3>2, <3>3 DEF WasPut
  <2>3. CASE (PostLands(w, r) \/ ConfirmLands(w, r)) /\ slot'[w][r] = slot[w][r]
    BY <1>3, <2>3 DEF PostLands, ConfirmLands, Calling
  <2> QED BY <1>3, <2>1, <2>2, <2>3, LandedSteps
<1>4. ASSUME NEW r \in Records, "ingested" \in completed'[r] PROVE WasPut(r)'
  <2>1. CASE "ingested" \in completed[r]
    <3>1. WasPut(r) /\ Begun(r)
      BY <2>1 DEF PutInv, Begun
    <3> QED BY <3>1, <1>p
  <2>2. ASSUME NEW w \in Routers, landed[w][r], slot[w][r].state = "ingested" PROVE WasPut(r)'
    <3>1. WasPut(r) /\ Begun(r)
      BY <2>2, LandedWorks DEF PutInv, Begun
    <3> QED BY <3>1, <1>p
  <2> QED BY <1>4, <2>1, <2>2, CompletedSteps
<1>5. ASSUME NEW r \in Records, r \in uploaded' PROVE WasPut(r)'
  <2>1. CASE r \in uploaded
    <3>1. WasPut(r) /\ Begun(r)
      BY <2>1 DEF PutInv, Begun
    <3> QED BY <3>1, <1>p
  <2>2. CASE r \notin uploaded
    <3>1. PICK w \in Routers : ConfirmLands(w, r)
      BY <1>5, <2>2, UploadedSteps
    <3>2. Working(w, r) /\ slot[w][r].state = "synced"
      BY <3>1 DEF ConfirmLands, Calling, Working
    <3>3. "ingested" \in completed[r]
      BY <3>2 DEF StagesInOrder, CallsInOrder, Before
    <3>4. WasPut(r) /\ Begun(r)
      BY <3>3 DEF PutInv, Begun
    <3> QED BY <3>4, <1>p
  <2> QED BY <2>1, <2>2
<1> QED BY <1>1, <1>2, <1>3, <1>4, <1>5 DEF PutInv

(* "uploaded" is true of the record's own turn (models.py 27-28): a blob with    *)
(* its bytes or later ones was on jbox, when the captures of a session do not    *)
(* overlap, batches end in time and no other router uses the cache directory.    *)
THEOREM UploadsWerePut ==
  ASSUME Timely, Serial, Spaced, Alone
  PROVE  DSpec => []UploadedWasPut
<1>1. DInit => PutInv
  BY DEF DInit, Init, Absent, NoSlots, PutInv, Needs
<1>2. WorldInv /\ PutInv => UploadedWasPut
  BY DEF WorldInv, PutInv, WasPut, UploadedWasPut
<1> QED BY <1>1, <1>2, PutNext, WorldHolds, SnapshotsCurrent, NoStageSkipped,
        DeliveryImplementsOutbox, SparesHolds, FilesHold, TurnsHold, PTL DEF DSpec

---------------------------------------------------------------------------
(* The latest turn.  Where no capture is lost, whatever is staged, read or put is *)
(* the turn of a record, and a later PUT never brings back an earlier turn: the   *)
(* one router begins a batch only when the last is over, so that a file read for  *)
(* a PUT was read after every turn of the batch and of those before was staged.   *)
NoLoss == MaxCrashes = 0 /\ ~ DiskErrors

IsStaged(r) == capture[r] \in {"renamed", "queued"}

Staged(s, t) == \E r \in Turns(s) : turn[r] = t /\ IsStaged(r)

Put(r) == \/ "ingested" \in completed[r]
          \/ \E w \in Routers : landed[w][r] /\ slot[w][r].state = "ingested"

JboxInv ==
  /\ \A r \in Records : capture[r] = "queued" => row[r].state # "absent"
  /\ \A r \in Records : IsStaged(r) /\ file[SessionOf[r]] # 0 => file[SessionOf[r]] >= turn[r]
  /\ \A s \in Sessions : /\ file[s] # 0 => Staged(s, file[s])
                         /\ jbox[s] # 0 => Staged(s, jbox[s])
  /\ \A w \in Routers, r \in Records : bytes[w][r] > 0 => Staged(SessionOf[r], bytes[w][r])
  /\ \A w \in Routers, r \in Records, q \in Records :
       bytes[w][r] # Unread /\ SessionOf[q] = SessionOf[r] /\ (Working(w, q) \/ Put(q))
         => bytes[w][r] >= turn[q]
  /\ \A r \in Records : Put(r) => jbox[SessionOf[r]] >= turn[r]

(* What is staged stays so, unless its record is lost.                          *)
LEMMA StagedSteps ==
  ASSUME NoLoss, TypeOK, WorldInv, [DNext]_dvars, NEW r \in Records
  PROVE  /\ IsStaged(r) => IsStaged(r)'
         /\ IsStaged(r)' => IsStaged(r) \/ RenameLands(r)
         /\ capture'[r] = "queued" => capture[r] = "queued" \/ FinishCapture(r)
<1> DEFINE Goal == /\ IsStaged(r) => IsStaged(r)'
                   /\ IsStaged(r)' => IsStaged(r) \/ RenameLands(r)
                   /\ capture'[r] = "queued" => capture[r] = "queued" \/ FinishCapture(r)
<1>1. CASE UNCHANGED capture
  BY <1>1 DEF IsStaged
<1>2. ASSUME NEW q \in Records, CaptureStep(q) PROVE Goal
  <2>1. CASE q # r
    <3>1. capture'[r] = capture[r]
      BY <1>2, <2>1 DEF CaptureStep, StartCapture, RenameLands, WriteFails, FinishCapture,
         EnqueueFails, WorldInv
    <3> QED BY <3>1 DEF IsStaged
  <2>2. CASE StartCapture(r)
    BY <2>2 DEF StartCapture, IsStaged, WorldInv
  <2>3. CASE RenameLands(r)
    <3>1. capture'[r] = "renamed"
      BY <2>3 DEF RenameLands, WorldInv
    <3> QED BY <2>3, <3>1 DEF IsStaged
  <2>4. CASE FinishCapture(r)
    <3>1. capture'[r] = "queued" /\ capture[r] = "renamed"
      BY <2>4 DEF FinishCapture, WorldInv
    <3> QED BY <2>4, <3>1 DEF IsStaged
  <2>5. CASE WriteFails(r) \/ EnqueueFails(r)
    BY <2>5 DEF WriteFails, EnqueueFails, NoLoss
  <2> QED BY <1>2, <2>1, <2>2, <2>3, <2>4, <2>5 DEF CaptureStep
<1>3. ASSUME NEW w \in Routers, DCrash(w) PROVE FALSE
  BY <1>3 DEF DCrash, Crash, NoLoss, TypeOK
<1>4. ASSUME NEW w \in Routers, DClaim(w) \/ TtlPass(w) PROVE UNCHANGED capture
  BY <1>4 DEF DClaim, TtlPass, captureVars
<1>5. ASSUME NEW w \in Routers, NEW q \in Records, CallStep(w, q) PROVE UNCHANGED capture
  BY <1>5 DEF CallStep, DCall, PostLands, ReadFile, PutLands, ConfirmLands, DAdvance, DRetry,
     DTerminal, DAfterAdvance, DWriteThrows, captureVars
<1>6. ASSUME NEW w \in Routers, NEW l \in GcLanes,
             (l \in Sessions /\ TtlCheck(w, l)) \/ GcStep(w, l)
      PROVE  UNCHANGED capture
  BY <1>6 DEF TtlCheck, GcStep, UnlinkLands, UnlinkFails, MarkEvicted, captureVars
<1>7. CASE DTick \/ UNCHANGED dvars
  <2>1. UNCHANGED capture
    BY <1>7 DEF DTick, dvars, captureVars
  <2> QED BY <1>1, <2>1
<1> QED BY <1>1, <1>2, <1>3, <1>4, <1>5, <1>6, <1>7 DEF DNext, GcLanes

(* A router takes on a record only when its last batch is over.                 *)
LEMMA WorkSteps ==
  ASSUME TypeOK, [DNext]_dvars, NEW v \in Routers, NEW q \in Records, Working(v, q)'
  PROVE  Working(v, q) \/ Idle(v)
<1> DEFINE Goal == Working(v, q) \/ Idle(v)
<1>1. CASE UNCHANGED slot
  BY <1>1 DEF Working
<1>2. ASSUME NEW w \in Routers, DClaim(w) PROVE Goal
  <2>1. Claim(w)
    BY <1>2 DEF DClaim
  <2>2. CASE v = w
    BY <2>1, <2>2 DEF Claim
  <2>3. CASE v # w
    BY <2>1, <2>3, ClaimEffect DEF Working
  <2> QED BY <2>2, <2>3
<1>3. ASSUME NEW w \in Routers, DCrash(w) PROVE Goal
  BY <1>3, CrashKeepsSnapshots DEF DCrash
<1>4. ASSUME NEW w \in Routers, NEW r \in Records,
             DCall(w, r) \/ DAdvance(w, r) \/ DRetry(w, r) \/ DTerminal(w, r) \/ DAfterAdvance(w, r)
      PROVE  Goal
  <2>1. Call(w, r) \/ Result(w, r) \/ AfterAdvance(w, r)
    BY <1>4 DEF DCall, DAdvance, DRetry, DTerminal, DAfterAdvance, Result
  <2> QED BY <2>1, LanesKeepSnapshots
<1>5. ASSUME NEW w \in Routers, NEW r \in Records, DWriteThrows(w, r) PROVE Goal
  BY <1>5 DEF DWriteThrows, WriteThrows, TypeOK, Working, NoSlots, NoSlot
<1>6. ASSUME NEW w \in Routers, NEW r \in Records,
             PostLands(w, r) \/ ReadFile(w, r) \/ PutLands(w, r) \/ ConfirmLands(w, r)
      PROVE  UNCHANGED slot
  BY <1>6 DEF PostLands, ReadFile, PutLands, ConfirmLands, vars
<1>7. ASSUME NEW r \in Records, CaptureStep(r) PROVE UNCHANGED slot
  BY <1>7 DEF CaptureStep, StartCapture, RenameLands, WriteFails, FinishCapture, EnqueueFails,
     Enqueue, vars
<1>8. ASSUME NEW w \in Routers, TtlPass(w) PROVE UNCHANGED slot
  BY <1>8 DEF TtlPass, vars
<1>9. ASSUME NEW w \in Routers, NEW l \in GcLanes,
             (l \in Sessions /\ TtlCheck(w, l)) \/ GcStep(w, l)
      PROVE  UNCHANGED slot
  BY <1>9 DEF TtlCheck, GcStep, UnlinkLands, UnlinkFails, MarkEvicted, vars
<1>10. CASE DTick \/ UNCHANGED dvars
  <2>1. UNCHANGED slot
    BY <1>10 DEF DTick, Tick, dvars, vars
  <2> QED BY <1>1, <2>1
<1> QED BY <1>1, <1>2, <1>3, <1>4, <1>5, <1>6, <1>7, <1>8, <1>9, <1>10 DEF DNext, CallStep, GcLanes

(* jbox changes by PUTs of the session.                                         *)
LEMMA JboxSteps ==
  ASSUME WorldInv, [DNext]_dvars, NEW s \in Sessions, jbox'[s] # jbox[s]
  PROVE  \E w \in Routers, r \in Turns(s) : PutLands(w, r) /\ jbox'[s] = bytes[w][r]
<1>1. ASSUME NEW w \in Routers, NEW r \in Records, PutLands(w, r)
      PROVE  r \in Turns(s) /\ jbox'[s] = bytes[w][r]
  BY <1>1 DEF PutLands, WorldInv, Turns
<1>2. ASSUME NEW w \in Routers, NEW r \in Records, CallStep(w, r), ~ PutLands(w, r)
      PROVE  UNCHANGED jbox
  BY <1>2 DEF CallStep, DCall, PostLands, ReadFile, ConfirmLands, DAdvance, DRetry, DTerminal,
     DAfterAdvance, DWriteThrows, worldVars
<1>3. ASSUME NEW r \in Records, CaptureStep(r) PROVE UNCHANGED jbox
  BY <1>3 DEF CaptureStep, StartCapture, RenameLands, WriteFails, FinishCapture, EnqueueFails,
     worldVars
<1>4. ASSUME NEW w \in Routers, DClaim(w) \/ DCrash(w) \/ TtlPass(w) PROVE UNCHANGED jbox
  BY <1>4 DEF DClaim, DCrash, TtlPass, worldVars
<1>5. ASSUME NEW w \in Routers, NEW l \in GcLanes,
             (l \in Sessions /\ TtlCheck(w, l)) \/ GcStep(w, l)
      PROVE  UNCHANGED jbox
  BY <1>5 DEF TtlCheck, GcStep, UnlinkLands, UnlinkFails, MarkEvicted, worldVars
<1>6. CASE DTick \/ UNCHANGED dvars
  BY <1>6 DEF DTick, dvars, worldVars
<1> QED BY <1>1, <1>2, <1>3, <1>4, <1>5, <1>6 DEF DNext, GcLanes

(* A record is put by a call of its own PUT.                                    *)
LEMMA PutSteps ==
  ASSUME TypeOK, WorldInv, TruthInv, [DNext]_dvars, NEW q \in Records, Put(q)'
  PROVE  Put(q) \/ \E v \in Routers : PutLands(v, q)
<1>1. ASSUME "ingested" \in completed'[q] PROVE Put(q)
  BY <1>1, CompletedSteps DEF Put
<1>2. ASSUME NEW v \in Routers, landed'[v][q], slot'[v][q].state = "ingested"
      PROVE  Put(q) \/ PutLands(v, q)
  <2>1. CASE landed[v][q] /\ slot'[v][q] = slot[v][q]
    BY <1>2, <2>1 DEF Put
  <2>2. CASE (PostLands(v, q) \/ ConfirmLands(v, q)) /\ slot'[v][q] = slot[v][q]
    BY <1>2, <2>2 DEF PostLands, ConfirmLands, Calling
  <2> QED BY <1>2, <2>1, <2>2, LandedSteps
<1> QED BY <1>1, <1>2 DEF Put

LEMMA JboxNext ==
  ASSUME Serial, Spaced, Alone, NoLoss, TypeOK, WorldInv, SnapshotCurrent, FilesInv, TruthInv,
         TurnsInv, PutInv, JboxInv, [DNext]_dvars
  PROVE  JboxInv'
<1> USE Turnable
<1>t. /\ \A r \in Records : turn[r] \in Nat
      /\ \A s \in Sessions : file[s] \in Nat /\ jbox[s] \in Nat
  BY DEF WorldInv
<1>k. ASSUME NEW r \in Records, capture[r] # "no" PROVE turn'[r] = turn[r]
  BY <1>k, TurnSteps DEF StartCapture, WorldInv
<1>b. ASSUME NEW r \in Records, Begun(r) PROVE turn'[r] = turn[r] /\ IsStaged(r)
  <2>1. capture[r] = "queued"
    BY <1>b DEF TurnsInv
  <2> QED BY <2>1, <1>k DEF IsStaged
<1>s. ASSUME NEW s \in Sessions, NEW t \in Nat, Staged(s, t)
      PROVE  \E r \in Turns(s) : turn'[r] = t /\ IsStaged(r)'
  <2>1. PICK r \in Turns(s) : turn[r] = t /\ IsStaged(r)
    BY <1>s DEF Staged
  <2>2. r \in Records /\ turn'[r] = turn[r]
    BY <2>1, <1>k DEF IsStaged, Turns
  <2>3. IsStaged(r)'
    BY <2>1, <2>2, StagedSteps
  <2> QED BY <2>1, <2>2, <2>3
<1>f. ASSUME NEW s \in Sessions, file'[s] # file[s], file'[s] # 0
      PROVE  \E q \in Turns(s) : RenameLands(q) /\ file'[s] = turn[q] /\ turn[q] = Counted(s)
  <2>1. PICK q \in Turns(s) : RenameLands(q) /\ file'[s] = turn[q]
    BY <1>f, FileSteps
  <2>2. q \in Records /\ SessionOf[q] = s /\ capture[q] = "writing"
    BY <2>1 DEF Turns, RenameLands
  <2> QED BY <2>1, <2>2 DEF TurnsInv
<1>1. ASSUME NEW r \in Records, capture'[r] = "queued" PROVE row'[r].state # "absent"
  <2>1. CASE FinishCapture(r)
    <3>1. row'[r] = [Absent EXCEPT !.state = "captured"]
      BY <2>1 DEF FinishCapture, Enqueue, TypeOK
    <3> QED BY <3>1 DEF Absent
  <2>2. CASE capture[r] = "queued"
    <3>1. row[r].state # "absent"
      BY <2>2 DEF JboxInv
    <3>2. ~ FinishCapture(r)
      BY <2>2 DEF FinishCapture
    <3> QED BY <3>1, <3>2, StateSteps DEF ActiveStates, NextStateAfter
  <2> QED BY <1>1, <2>1, <2>2, StagedSteps
<1>2. ASSUME NEW r \in Records, IsStaged(r)', file'[SessionOf[r]] # 0
      PROVE  file'[SessionOf[r]] >= turn'[r]
  <2> DEFINE s == SessionOf[r]
  <2>1. CASE RenameLands(r)
    <3>1. file'[s] = turn[r] /\ turn'[r] = turn[r]
      BY <2>1 DEF RenameLands, WorldInv
    <3> QED BY <3>1, <1>t
  <2>2. CASE IsStaged(r)
    <3>1. turn'[r] = turn[r]
      BY <2>2, <1>k DEF IsStaged
    <3>2. CASE file'[s] = file[s]
      BY <1>2, <2>2, <3>1, <3>2 DEF JboxInv
    <3>3. CASE file'[s] # file[s]
      <4>1. PICK q \in Turns(s) : file'[s] = turn[q] /\ turn[q] = Counted(s)
        BY <1>2, <3>3, <1>f
      <4>2. turn[r] <= Counted(s)
        BY DEF TurnsInv
      <4> QED BY <3>1, <4>1, <4>2, <1>t DEF Turns
    <3> QED BY <3>2, <3>3
  <2> QED BY <1>2, <2>1, <2>2, StagedSteps
<1>3. ASSUME NEW s \in Sessions, file'[s] # 0 PROVE Staged(s, file[s])'
  <2>1. CASE file'[s] = file[s]
    <3>1. Staged(s, file[s])
      BY <1>3, <2>1 DEF JboxInv
    <3>2. PICK r \in Turns(s) : turn'[r] = file[s] /\ IsStaged(r)'
      BY <3>1, <1>s, <1>t
    <3> QED BY <2>1, <3>2 DEF Staged
  <2>2. CASE file'[s] # file[s]
    <3>1. PICK q \in Turns(s) : RenameLands(q) /\ file'[s] = turn[q]
      BY <1>3, <2>2, <1>f
    <3>2. q \in Records /\ turn'[q] = turn[q] /\ capture'[q] = "renamed"
      BY <3>1 DEF RenameLands, Turns, WorldInv
    <3> QED BY <3>1, <3>2 DEF Staged, IsStaged
  <2> QED BY <2>1, <2>2
<1>4. ASSUME NEW s \in Sessions, jbox'[s] # 0 PROVE Staged(s, jbox[s])'
  <2>1. CASE jbox'[s] = jbox[s]
    <3>1. Staged(s, jbox[s])
      BY <1>4, <2>1 DEF JboxInv
    <3>2. PICK r \in Turns(s) : turn'[r] = jbox[s] /\ IsStaged(r)'
      BY <3>1, <1>s, <1>t
    <3> QED BY <2>1, <3>2 DEF Staged
  <2>2. CASE jbox'[s] # jbox[s]
    <3>1. PICK w \in Routers, q \in Turns(s) : PutLands(w, q) /\ jbox'[s] = bytes[w][q]
      BY <2>2, JboxSteps
    <3>2. q \in Records /\ SessionOf[q] = s /\ bytes[w][q] > 0 /\ bytes[w][q] \in Nat
      BY <3>1 DEF PutLands, Turns, WorldInv, Unread
    <3>3. Staged(s, bytes[w][q])
      BY <3>2 DEF JboxInv
    <3>4. PICK r \in Turns(s) : turn'[r] = bytes[w][q] /\ IsStaged(r)'
      BY <3>2, <3>3, <1>s
    <3> QED BY <3>1, <3>4 DEF Staged
  <2> QED BY <2>1, <2>2
<1>5. ASSUME NEW w \in Routers, NEW r \in Records, bytes'[w][r] # Unread
      PROVE  /\ Calling(w, r, "ingested")
             /\ \/ bytes'[w][r] = bytes[w][r]
                \/ bytes'[w][r] = file[SessionOf[r]] /\ file[SessionOf[r]] # 0
  <2>0. bytes[w][r] # Unread => Calling(w, r, "ingested")
    BY DEF PutInv
  <2>1. CASE bytes[w][r] = bytes'[w][r]
    BY <1>5, <2>0, <2>1
  <2>2. CASE ReadFile(w, r) /\ bytes'[w][r] = file[SessionOf[r]]
    <3>1. Calling(w, r, "ingested")
      BY <2>2 DEF ReadFile
    <3>2. row[r].state \in Needs
      BY <3>1, LandedWorks DEF Calling, Needs
    <3> QED BY <2>2, <3>1, <3>2 DEF FilesInv
  <2> QED BY <1>5, <2>0, <2>1, <2>2, BytesSteps
<1>6. ASSUME NEW w \in Routers, NEW r \in Records, bytes'[w][r] > 0
      PROVE  Staged(SessionOf[r], bytes[w][r])'
  <2> DEFINE b == bytes'[w][r]
  <2>1. b # Unread
    BY <1>6 DEF Unread
  <2>2. \/ b = bytes[w][r]
        \/ b = file[SessionOf[r]] /\ file[SessionOf[r]] # 0
    BY <2>1, <1>5
  <2>3. Staged(SessionOf[r], b)
    BY <1>6, <2>2 DEF JboxInv
  <2>4. b \in Nat
    BY <1>6, <2>2, <1>t DEF WorldInv, Unread
  <2>5. PICK q \in Turns(SessionOf[r]) : turn'[q] = b /\ IsStaged(q)'
    BY <2>3, <2>4, <1>s
  <2> QED BY <2>5 DEF Staged
<1>7. ASSUME NEW q \in Records, Put(q) \/ \E v \in Routers : Working(v, q) PROVE Begun(q)
  <2>1. CASE "ingested" \in completed[q]
    BY <2>1 DEF Begun
  <2>2. ASSUME NEW v \in Routers, landed[v][q] PROVE Begun(q)
    BY <2>2, LandedWorks DEF Begun
  <2>3. ASSUME NEW v \in Routers, Working(v, q) PROVE Begun(q)
    BY <2>3 DEF SnapshotCurrent, TypeOK, Slots, ActiveStates, Begun
  <2> QED BY <1>7, <2>1, <2>2, <2>3 DEF Put
<1>8. ASSUME NEW w \in Routers, NEW r \in Records, NEW q \in Records, bytes'[w][r] # Unread,
             SessionOf[q] = SessionOf[r], Working(w, q)' \/ Put(q)'
      PROVE  bytes'[w][r] >= turn'[q]
  <2>1. Calling(w, r, "ingested")
    BY <1>8, <1>5
  <2>2. Working(w, q) \/ Put(q)
    <3>1. CASE Working(w, q)'
      BY <2>1, <3>1, WorkSteps DEF Calling, Idle
    <3>2. CASE Put(q)'
      <4>1. ASSUME NEW v \in Routers, PutLands(v, q) PROVE Working(w, q)
        <5>1. v = w
          BY DEF Alone
        <5> QED BY <4>1, <5>1 DEF PutLands, Calling, Working
      <4> QED BY <3>2, <4>1, PutSteps
    <3> QED BY <1>8, <3>1, <3>2
  <2>3. turn'[q] = turn[q] /\ IsStaged(q)
    BY <2>2, <1>7, <1>b
  <2>4. CASE bytes'[w][r] = bytes[w][r]
    BY <1>8, <2>2, <2>3, <2>4 DEF JboxInv
  <2>5. CASE bytes'[w][r] = file[SessionOf[r]] /\ file[SessionOf[r]] # 0
    BY <1>8, <2>3, <2>5 DEF JboxInv
  <2> QED BY <1>8, <1>5, <2>4, <2>5
<1>9. ASSUME NEW r \in Records, Put(r)' PROVE jbox'[SessionOf[r]] >= turn'[r]
  <2> DEFINE s == SessionOf[r]
  <2>1. CASE \E w \in Routers : PutLands(w, r)
    <3>1. PICK w \in Routers : PutLands(w, r)
      BY <2>1
    <3>2. jbox'[s] = bytes[w][r] /\ bytes[w][r] # Unread /\ Calling(w, r, "ingested")
      BY <3>1 DEF PutLands, WorldInv, Unread
    <3>3. Working(w, r)
      BY <3>2 DEF Calling, Working
    <3>4. bytes[w][r] >= turn[r] /\ turn'[r] = turn[r]
      BY <3>2, <3>3, <1>7, <1>b DEF PutInv
    <3> QED BY <3>2, <3>4
  <2>2. CASE Put(r)
    <3>1. turn'[r] = turn[r]
      BY <2>2, <1>7, <1>b
    <3>2. CASE jbox'[s] = jbox[s]
      BY <2>2, <3>1, <3>2 DEF JboxInv
    <3>3. CASE jbox'[s] # jbox[s]
      <4>1. PICK w \in Routers, q \in Turns(s) : PutLands(w, q) /\ jbox'[s] = bytes[w][q]
        BY <3>3, JboxSteps
      <4>2. q \in Records /\ SessionOf[q] = s /\ bytes[w][q] # Unread
        BY <4>1 DEF PutLands, Turns, Unread
      <4>3. bytes[w][q] >= turn[r]
        BY <2>2, <4>2 DEF JboxInv
      <4> QED BY <3>1, <4>1, <4>3
    <3> QED BY <3>2, <3>3
  <2> QED BY <1>9, <2>1, <2>2, PutSteps
<1> QED BY <1>1, <1>2, <1>3, <1>4, <1>6, <1>8, <1>9 DEF JboxInv

(* Once every row of a session is done and no capture is under way, jbox holds   *)
(* the bytes of its latest turn, for any number of sessions, turns and retries.   *)
THEOREM LatestTurnOnJbox ==
  ASSUME Timely, Serial, Spaced, Alone, NoLoss
  PROVE  DSpec => []LatestOnJbox
<1>1. DInit => PutInv /\ JboxInv
  BY DEF DInit, Init, Absent, NoSlots, NoSlot, PutInv, Needs, JboxInv, IsStaged, Put, Unread
<1>2. TypeOK /\ WorldInv /\ TruthInv /\ StagesInOrder /\ JboxInv => LatestOnJbox
  <2> SUFFICES ASSUME TypeOK, WorldInv, TruthInv, StagesInOrder, JboxInv,
                      NEW s \in Sessions, RowsOf(row, s) # {}, ~ Writing(s),
                      \A r \in RowsOf(row, s) : row[r].state = "done"
               PROVE  \E p \in RowsOf(row, s) : /\ jbox[s] = turn[p]
                                              /\ \A q \in RowsOf(row, s) : turn[q] <= turn[p]
    BY DEF LatestOnJbox
  <2>1. ASSUME NEW q \in RowsOf(row, s) PROVE jbox[s] >= turn[q] /\ jbox[s] # 0
    <3>1. q \in Records /\ SessionOf[q] = s /\ row[q].state = "done"
      BY DEF RowsOf, Turns
    <3>2. "ingested" \in completed[q]
      BY <3>1 DEF StagesInOrder, RowsInOrder, Before, Stages, ActiveStates
    <3> QED BY <3>1, <3>2 DEF JboxInv, Put, TruthInv, Happened
  <2>2. PICK p \in Turns(s) : turn[p] = jbox[s] /\ IsStaged(p)
    BY <2>1 DEF JboxInv, Staged
  <2>3. p \in RowsOf(row, s)
    BY <2>2 DEF IsStaged, Writing, JboxInv, RowsOf, Turns
  <2>4. \A q \in Records : turn[q] \in Nat
    BY Turnable DEF WorldInv
  <2> QED BY <2>1, <2>2, <2>3, <2>4 DEF RowsOf, Turns
<1> QED BY <1>1, <1>2, PutNext, JboxNext, WorldHolds, SnapshotsCurrent, NoStageSkipped,
        DeliveryImplementsOutbox, SparesHolds, FilesHold, TurnsHold, PTL DEF DSpec

---------------------------------------------------------------------------
(* The backend's table.  A record is posted from the row of a capture that was   *)
(* given its turn, whatever became of its router since.                         *)
KnownInv == \A w \in Routers, r \in Records :
              slot[w][r].phase # "none" => row[r].state # "absent"

(* A row comes to be when its capture is enqueued, and stays.                    *)
LEMMA RowSteps ==
  ASSUME TypeOK, KnownInv, [DNext]_dvars, NEW r \in Records
  PROVE  /\ row[r].state # "absent" => row'[r].state # "absent"
         /\ row'[r].state # "absent" => row[r].state # "absent" \/ FinishCapture(r)
<1> DEFINE Goal == /\ row[r].state # "absent" => row'[r].state # "absent"
                   /\ row'[r].state # "absent" => row[r].state # "absent" \/ FinishCapture(r)
<1>1. CASE row'[r].state = row[r].state
  BY <1>1
<1>2. ASSUME NEW q \in Records, FinishCapture(q) PROVE Goal
  <2>1. Enqueue(q)
    BY <1>2 DEF FinishCapture
  <2>2. CASE q = r
    BY <1>2, <2>1, <2>2, EnqueueEffect
  <2>3. CASE q # r
    BY <1>1, <2>1, <2>3, EnqueueEffect
  <2> QED BY <2>2, <2>3
<1>3. ASSUME NEW q \in Records, CaptureStep(q), ~ FinishCapture(q) PROVE row' = row
  BY <1>3 DEF CaptureStep, StartCapture, RenameLands, WriteFails, EnqueueFails, vars
<1>4. ASSUME NEW w \in Routers, NEW q \in Records, DAdvance(w, q) PROVE Goal
  <2>1. Advance(w, q) /\ slot[w][q].state \in ActiveStates
    BY <1>4 DEF DAdvance, TypeOK, Slots
  <2>2. CASE q = r
    <3>1. row[r].state # "absent"
      BY <2>1, <2>2 DEF Advance, KnownInv
    <3>2. row'[r].state = NextStateAfter(slot[w][r].state)
      BY <2>1, <2>2, AdvanceEffect
    <3> QED BY <2>1, <2>2, <3>1, <3>2 DEF NextStateAfter, ActiveStates
  <2>3. CASE q # r
    BY <1>1, <2>1, <2>3, AdvanceEffect
  <2> QED BY <2>2, <2>3
<1>5. ASSUME NEW w \in Routers, NEW q \in Records, DRetry(w, q) PROVE Goal
  <2>1. row'[r].state = row[r].state
    BY <1>5, RetryEffect DEF DRetry
  <2> QED BY <1>1, <2>1
<1>6. ASSUME NEW w \in Routers, NEW q \in Records, DTerminal(w, q) PROVE Goal
  <2>1. Terminal(w, q)
    BY <1>6 DEF DTerminal
  <2>2. CASE q = r
    <3>1. row[r].state # "absent"
      BY <2>1, <2>2 DEF Terminal, KnownInv
    <3> QED BY <2>1, <2>2, <3>1, TerminalEffect
  <2>3. CASE q # r
    BY <1>1, <2>1, <2>3, TerminalEffect
  <2> QED BY <2>2, <2>3
<1>7. ASSUME NEW w \in Routers, NEW q \in Records, CallStep(w, q),
             ~ DAdvance(w, q), ~ DRetry(w, q), ~ DTerminal(w, q)
      PROVE  row' = row
  BY <1>7 DEF CallStep, DCall, Call, PostLands, ReadFile, PutLands, ConfirmLands, DAfterAdvance,
     AfterAdvance, DWriteThrows, WriteThrows, FailedWrite, vars
<1>8. ASSUME NEW w \in Routers, DClaim(w) PROVE Goal
  BY <1>1, <1>8, ClaimEffect DEF DClaim
<1>9. ASSUME NEW w \in Routers, DCrash(w) \/ TtlPass(w) PROVE row' = row
  BY <1>9 DEF DCrash, Crash, TtlPass, vars
<1>10. ASSUME NEW w \in Routers, NEW l \in GcLanes,
             (l \in Sessions /\ TtlCheck(w, l)) \/ GcStep(w, l)
      PROVE  row' = row
  BY <1>10 DEF TtlCheck, GcStep, UnlinkLands, UnlinkFails, MarkEvicted, vars
<1>11. CASE DTick
  BY <1>1, <1>11, TickEffect DEF DTick
<1>12. CASE UNCHANGED dvars
  BY <1>1, <1>12 DEF dvars, vars
<1> QED BY <1>1, <1>2, <1>3, <1>4, <1>5, <1>6, <1>7, <1>8, <1>9, <1>10, <1>11, <1>12
    DEF DNext, GcLanes

(* A router takes its records from the table.                                   *)
LEMMA SlotSteps ==
  ASSUME TypeOK, [DNext]_dvars, NEW v \in Routers, NEW q \in Records,
         slot'[v][q].phase # "none"
  PROVE  slot[v][q].phase # "none" \/ row[q].state # "absent"
<1> DEFINE Goal == slot[v][q].phase # "none" \/ row[q].state # "absent"
<1>1. CASE UNCHANGED slot
  BY <1>1
<1>2. ASSUME NEW w \in Routers, DClaim(w) PROVE Goal
  <2>1. Claim(w)
    BY <1>2 DEF DClaim
  <2>2. CASE v = w
    <3>1. q \in Ready \/ slot'[w][q] = NoSlot
      BY <2>1, ClaimEffect
    <3>2. q \in Ready
      BY <2>2, <3>1 DEF NoSlot
    <3> QED BY <3>2 DEF Ready, ActiveStates
  <2>3. CASE v # w
    BY <2>1, <2>3, ClaimEffect
  <2> QED BY <2>2, <2>3
<1>3. ASSUME NEW w \in Routers, DCrash(w) PROVE Goal
  BY <1>3 DEF DCrash, Crash, TypeOK, NoSlots, NoSlot
<1>4. ASSUME NEW w \in Routers, NEW r \in Records, DCall(w, r) \/ DAdvance(w, r)
      PROVE  Goal
  <2>1. PICK p \in {"calling", "after"} : slot' = [slot EXCEPT ![w][r].phase = p]
    BY <1>4 DEF DCall, DAdvance, Call, Advance
  <2>2. slot[w][r].phase \in {"queued", "calling"}
    BY <1>4 DEF DCall, DAdvance, Call, Advance
  <2>3. CASE v = w /\ q = r
    BY <2>2, <2>3
  <2>4. CASE v # w \/ q # r
    <3>1. slot'[v][q] = slot[v][q]
      BY <2>1, <2>4 DEF TypeOK
    <3> QED BY <3>1
  <2> QED BY <2>3, <2>4
<1>5. ASSUME NEW w \in Routers, NEW r \in Records,
             DRetry(w, r) \/ DTerminal(w, r) \/ DAfterAdvance(w, r)
      PROVE  Goal
  <2>1. slot' = [slot EXCEPT ![w][r] = NoSlot]
    BY <1>5 DEF DRetry, DTerminal, DAfterAdvance, Retry, Terminal, AfterAdvance
  <2> QED BY <2>1 DEF TypeOK, NoSlot
<1>6. ASSUME NEW w \in Routers, NEW r \in Records, DWriteThrows(w, r) PROVE Goal
  BY <1>6 DEF DWriteThrows, WriteThrows, TypeOK, NoSlots, NoSlot
<1>7. ASSUME NEW w \in Routers, NEW r \in Records,
             PostLands(w, r) \/ ReadFile(w, r) \/ PutLands(w, r) \/ ConfirmLands(w, r)
      PROVE  UNCHANGED slot
  BY <1>7 DEF PostLands, ReadFile, PutLands, ConfirmLands, vars
<1>8. ASSUME NEW r \in Records, CaptureStep(r) PROVE UNCHANGED slot
  BY <1>8 DEF CaptureStep, StartCapture, RenameLands, WriteFails, FinishCapture, EnqueueFails,
     Enqueue, vars
<1>9. ASSUME NEW w \in Routers, TtlPass(w) PROVE UNCHANGED slot
  BY <1>9 DEF TtlPass, vars
<1>10. ASSUME NEW w \in Routers, NEW l \in GcLanes,
             (l \in Sessions /\ TtlCheck(w, l)) \/ GcStep(w, l)
      PROVE  UNCHANGED slot
  BY <1>10 DEF TtlCheck, GcStep, UnlinkLands, UnlinkFails, MarkEvicted, vars
<1>11. CASE DTick \/ UNCHANGED dvars
  <2>1. UNCHANGED slot
    BY <1>11 DEF DTick, Tick, dvars, vars
  <2> QED BY <1>1, <2>1
<1> QED BY <1>1, <1>2, <1>3, <1>4, <1>5, <1>6, <1>7, <1>8, <1>9, <1>10, <1>11
    DEF DNext, CallStep, GcLanes

(* The backend has a record once it was posted.                                 *)
LEMMA IngestedSteps ==
  ASSUME [DNext]_dvars
  PROVE  \/ UNCHANGED ingested
         \/ \E w \in Routers, r \in Records : PostLands(w, r)
<1>1. ASSUME NEW w \in Routers, NEW r \in Records, CallStep(w, r), ~ PostLands(w, r)
      PROVE  UNCHANGED ingested
  BY <1>1 DEF CallStep, DCall, ReadFile, PutLands, ConfirmLands, DAdvance, DRetry, DTerminal,
     DAfterAdvance, DWriteThrows, worldVars
<1>2. ASSUME NEW r \in Records, CaptureStep(r) PROVE UNCHANGED ingested
  BY <1>2 DEF CaptureStep, StartCapture, RenameLands, WriteFails, FinishCapture, EnqueueFails,
     worldVars
<1>3. ASSUME NEW w \in Routers, DClaim(w) \/ DCrash(w) \/ TtlPass(w) PROVE UNCHANGED ingested
  BY <1>3 DEF DClaim, DCrash, TtlPass, worldVars
<1>4. ASSUME NEW w \in Routers, NEW l \in GcLanes,
             (l \in Sessions /\ TtlCheck(w, l)) \/ GcStep(w, l)
      PROVE  UNCHANGED ingested
  BY <1>4 DEF TtlCheck, GcStep, UnlinkLands, UnlinkFails, MarkEvicted, worldVars
<1>5. CASE DTick \/ UNCHANGED dvars
  BY <1>5 DEF DTick, dvars, worldVars
<1> QED BY <1>1, <1>2, <1>3, <1>4, <1>5 DEF DNext, GcLanes

StoreInv ==
  /\ KnownInv
  /\ \A r \in Records : turn[r] <= Counted(SessionOf[r])
  /\ \A q, r \in Records :
       SessionOf[q] = SessionOf[r] /\ turn[q] = turn[r] /\ turn[r] # 0 => q = r
  /\ \A r \in Records : row[r].state # "absent" => turn[r] # 0
  /\ \A r \in ingested : row[r].state # "absent"

LEMMA StoreNext ==
  ASSUME TypeOK, WorldInv, StoreInv, [DNext]_dvars
  PROVE  StoreInv' /\ \A r \in Records : turn[r] # 0 => turn'[r] = turn[r]
<1> USE Turnable
<1>0. KnownInv /\ \A r \in Records : turn[r] \in Nat
  BY DEF StoreInv, WorldInv
<1>c. \A s \in Sessions : Counted(s) \in Nat
  <2> TAKE s \in Sessions
  <2>1. Counted(s) \in 0 .. MaxTurn
    BY CountedBounds
  <2> QED BY <2>1
<1>1. KnownInv'
  BY <1>0, RowSteps, SlotSteps DEF KnownInv
<1>2. \A r \in Records : turn[r] # 0 => turn'[r] = turn[r]
  BY TurnSteps DEF StartCapture, WorldInv
<1>3. ASSUME NEW q \in Records, StartCapture(q),
             turn' = [turn EXCEPT ![q] = Counted(SessionOf[q]) + 1],
             Counted(SessionOf[q])' = Counted(SessionOf[q]) + 1,
             \A s \in Sessions \ {SessionOf[q]} : Counted(s)' = Counted(s)
      PROVE  /\ \A r \in Records : turn'[r] <= Counted(SessionOf[r])'
             /\ \A p, r \in Records :
                  SessionOf[p] = SessionOf[r] /\ turn'[p] = turn'[r] /\ turn'[r] # 0 => p = r
  <2>1. /\ turn'[q] = Counted(SessionOf[q]) + 1
        /\ \A r \in Records \ {q} : turn'[r] = turn[r]
    BY <1>3 DEF WorldInv
  <2>2. ASSUME NEW r \in Records PROVE turn'[r] <= Counted(SessionOf[r])'
    <3>1. CASE r = q
      BY <1>3, <1>c, <2>1, <3>1
    <3>2. CASE r # q
      <4>1. turn[r] <= Counted(SessionOf[r]) /\ turn'[r] = turn[r]
        BY <2>1, <3>2 DEF StoreInv
      <4>2. Counted(SessionOf[r]) <= Counted(SessionOf[r])'
        BY <1>3, <1>c
      <4> QED BY <4>1, <4>2, <1>0, <1>3, <1>c
    <3> QED BY <3>1, <3>2
  <2>3. \A r \in Records \ {q} : SessionOf[r] = SessionOf[q] => turn'[r] # turn'[q]
    BY <1>0, <1>c, <2>1 DEF StoreInv
  <2> QED BY <2>1, <2>2, <2>3 DEF StoreInv
<1>4. ASSUME NEW r \in Records, row'[r].state # "absent" PROVE turn'[r] # 0
  <2>1. CASE row[r].state # "absent"
    BY <2>1, <1>2 DEF StoreInv
  <2>2. CASE FinishCapture(r)
    <3>1. turn[r] # 0
      BY <2>2 DEF FinishCapture, WorldInv
    <3> QED BY <3>1, <1>2
  <2> QED BY <1>0, <1>4, <2>1, <2>2, RowSteps
<1>5. ASSUME NEW r \in ingested' PROVE row'[r].state # "absent"
  <2>1. CASE r \in ingested
    BY <2>1, <1>0, RowSteps DEF StoreInv, WorldInv
  <2>2. ASSUME NEW w \in Routers, NEW q \in Records, PostLands(w, q)
        PROVE  r \in ingested \/ (r = q /\ row[r].state # "absent")
    BY <1>5, <2>2 DEF PostLands, Calling, KnownInv, StoreInv
  <2> QED BY <1>0, <1>5, <2>1, <2>2, IngestedSteps, RowSteps
<1>6. /\ \A r \in Records : turn'[r] <= Counted(SessionOf[r])'
      /\ \A p, r \in Records :
           SessionOf[p] = SessionOf[r] /\ turn'[p] = turn'[r] /\ turn'[r] # 0 => p = r
  <2>1. CASE UNCHANGED turn
    <3>1. \A s \in Sessions : Counted(s)' = Counted(s)
      BY <2>1 DEF Counted
    <3> QED BY <2>1, <3>1 DEF StoreInv
  <2> QED BY <1>3, <2>1, TurnSteps
<1> QED BY <1>1, <1>2, <1>4, <1>5, <1>6 DEF StoreInv

LEMMA StoreHolds == DSpec => []StoreInv
<1>1. DInit => StoreInv
  <2> SUFFICES ASSUME DInit PROVE StoreInv
    OBVIOUS
  <2>1. (\A r \in Records : turn[r] = 0 /\ row[r].state = "absent") /\ ingested = {}
    BY DEF DInit, Init, Absent
  <2>2. \A s \in Sessions : Counted(s) \in Nat
    <3> TAKE s \in Sessions
    <3>1. Counted(s) \in 0 .. MaxTurn
      BY CountedBounds
    <3> QED BY <3>1, Turnable
  <2>3. \A r \in Records : turn[r] <= Counted(SessionOf[r])
    BY <2>1, <2>2, Turnable
  <2>4. KnownInv
    BY DEF DInit, Init, NoSlots, NoSlot, KnownInv
  <2> QED BY <2>1, <2>3, <2>4 DEF StoreInv
<1> QED BY <1>1, StoreNext, WorldHolds, PTL DEF DSpec

(* No ingest call ever asks for a row that the backend's constraints refuse, for *)
(* any number of routers, sessions, crashes and lost turns: Delivery takes from   *)
(* the backend what RecordStore promises, and IngestService implements that.     *)
THEOREM DeliveryKeepsToStore == DSpec => BackendSpec
<1>1. DInit => Backend!Init
  BY DEF DInit, Backend!Init, Posts
<1>2. TypeOK /\ WorldInv /\ StoreInv /\ [DNext]_dvars => [Backend!Next]_Posts
  <2> SUFFICES ASSUME TypeOK, WorldInv, StoreInv, [DNext]_dvars
               PROVE  Backend!Next \/ Posts' = Posts
    OBVIOUS
  <2>1. \A r \in Records : turn[r] # 0 => turn'[r] = turn[r]
    BY StoreNext
  <2>2. \A r \in ingested : r \in Records /\ turn[r] # 0 /\ turn'[r] = turn[r]
    BY <2>1 DEF StoreInv, WorldInv
  <2>3. CASE UNCHANGED ingested
    <3>1. ASSUME NEW p PROVE p \in Posts' <=> p \in Posts
      <4>1. p \in Posts' <=> \E r \in ingested : p = <<r, turn'[r]>>
        BY <2>3 DEF Posts
      <4>2. p \in Posts <=> \E r \in ingested : p = <<r, turn[r]>>
        BY DEF Posts
      <4> QED BY ONLY <2>2, <4>1, <4>2
    <3> QED BY <3>1
  <2>4. ASSUME NEW w \in Routers, NEW r \in Records, PostLands(w, r)
        PROVE  Backend!Next \/ Posts' = Posts
    <3>1. ingested' = ingested \cup {r} /\ turn' = turn
      BY <2>4 DEF PostLands, captureVars
    <3>2. CASE r \in ingested
      BY <2>2, <3>1, <3>2 DEF Posts
    <3>3. CASE r \notin ingested
      <4> DEFINE e == <<r, turn[r]>>
      <4>1. row[r].state # "absent"
        BY <2>4 DEF PostLands, Calling, StoreInv, KnownInv
      <4>2. turn[r] # 0 /\ e \in Records \X (1 .. MaxTurn)
        BY <4>1, Turnable DEF StoreInv, WorldInv
      <4>3. Posts' = Posts \cup {e}
        BY <3>1 DEF Posts
      <4>4. Backend!Fits(e)
        <5>1. ASSUME NEW f \in Posts PROVE PostId(f) # PostId(e) /\ PostTurn(f) # PostTurn(e)
          <6>1. PICK q \in ingested : f = <<q, turn[q]>>
            BY DEF Posts
          <6>2. q \in Records /\ q # r
            BY <2>2, <3>3, <6>1
          <6> QED BY <4>2, <6>1, <6>2 DEF PostId, PostTurn, StoreInv
        <5> QED BY <5>1 DEF Backend!Fits
      <4>5. Backend!Record(e)
        BY <4>3, <4>4 DEF Backend!Record
      <4> QED BY <4>2, <4>5 DEF Backend!Next
    <3> QED BY <3>2, <3>3
  <2> QED BY <2>3, <2>4, IngestedSteps
<1> QED BY <1>1, <1>2, StoreHolds, WorldHolds, PTL DEF DSpec, BackendSpec, Backend!Spec

---------------------------------------------------------------------------
(* The captures of Delivery keep to Captures.                                   *)

(* No turn of a session is skipped.                                            *)
Gapless == \A s \in Sessions : \A u \in 1 .. Counted(s) : \E r \in Turns(s) : turn[r] = u

LEMMA GaplessNext ==
  ASSUME WorldInv, Gapless, [DNext]_dvars
  PROVE  Gapless'
<1>1. CASE UNCHANGED turn
  <2>1. \A s \in Sessions : Counted(s)' = Counted(s)
    BY <1>1 DEF Counted
  <2> QED BY <1>1, <2>1 DEF Gapless
<1>2. ASSUME NEW q \in Records, StartCapture(q),
             turn' = [turn EXCEPT ![q] = Counted(SessionOf[q]) + 1],
             Counted(SessionOf[q])' = Counted(SessionOf[q]) + 1,
             \A s \in Sessions \ {SessionOf[q]} : Counted(s)' = Counted(s),
             NEW s \in Sessions, NEW u \in 1 .. Counted(s)'
      PROVE  \E r \in Turns(s) : turn'[r] = u
  <2>1. /\ turn'[q] = Counted(SessionOf[q]) + 1 /\ turn[q] = 0
        /\ \A r \in Records \ {q} : turn'[r] = turn[r]
    BY <1>2 DEF StartCapture, WorldInv
  <2>2. Counted(s) \in Nat /\ Turns(s) \subseteq Records
    <3>1. Counted(s) \in 0 .. MaxTurn
      BY CountedBounds
    <3> QED BY <3>1, Turnable
  <2>3. CASE u \in 1 .. Counted(s)
    <3>1. PICK r \in Turns(s) : turn[r] = u
      BY <2>3 DEF Gapless
    <3>2. r # q
      BY <2>1, <2>3, <3>1
    <3> QED BY <2>1, <2>2, <3>1, <3>2
  <2>4. CASE u \notin 1 .. Counted(s)
    <3>1. s = SessionOf[q] /\ u = Counted(s) + 1
      BY <1>2, <2>2, <2>4
    <3>2. q \in Turns(s)
      BY <3>1 DEF Turns
    <3> QED BY <2>1, <3>1, <3>2
  <2> QED BY <2>3, <2>4
<1> QED BY <1>1, <1>2, TurnSteps DEF Gapless

(* What Stage is: a record at a turn tells how far its capture is.               *)
Places == Sessions \X (1 .. MaxTurn)

StageIs ==
  \A p \in Places :
    /\ \A r \in Records : Gave(r, p) => Stage[p] = capture[r]
    /\ (\A r \in Records : ~ Gave(r, p)) => Stage[p] = "no"

LEMMA StageRead == StoreInv => StageIs
<1> SUFFICES ASSUME StoreInv, NEW p \in Places
             PROVE  /\ \A r \in Records : Gave(r, p) => Stage[p] = capture[r]
                    /\ (\A r \in Records : ~ Gave(r, p)) => Stage[p] = "no"
  BY DEF StageIs
<1>1. Stage[p] = IF \E r \in Records : Gave(r, p)
                   THEN capture[CHOOSE r \in Records : Gave(r, p)] ELSE "no"
  BY DEF Stage, Places
<1>2. ASSUME NEW q \in Records, NEW r \in Records, Gave(q, p), Gave(r, p) PROVE q = r
  BY <1>2, Turnable DEF Gave, Places, StoreInv
<1>3. ASSUME NEW r \in Records, Gave(r, p) PROVE Stage[p] = capture[r]
  <2> DEFINE x == CHOOSE x \in Records : Gave(x, p)
  <2>1. x \in Records /\ Gave(x, p)
    BY <1>3
  <2>2. x = r
    BY <2>1, <1>2, <1>3
  <2>3. Stage[p] = capture[x]
    BY <1>1, <1>3
  <2> QED BY <2>2, <2>3
<1>4. ASSUME \A r \in Records : ~ Gave(r, p) PROVE Stage[p] = "no"
  BY <1>1, <1>4
<1> QED BY <1>3, <1>4

LEMMA StageTable ==
  /\ Stage = [p \in Places |-> Stage[p]]
  /\ Stage' = [p \in Places |-> Stage'[p]]
BY DEF Stage, Places

(* The capture of one record moves on, the others stay where they are.            *)
LEMMA StageMoves ==
  ASSUME StageIs, StageIs', NEW r \in Records, NEW s \in Sessions, NEW t \in 1 .. MaxTurn,
         s = SessionOf[r], turn'[r] = t,
         turn[r] = t \/ (turn[r] = 0 /\ Stage[<<s, t>>] = "no"
                          /\ \A x \in Records : ~ Gave(x, <<s, t>>)),
         \A x \in Records \ {r} : turn'[x] = turn[x] /\ capture'[x] = capture[x]
  PROVE  Staging!To(s, t, capture'[r])
<1> DEFINE p == <<s, t>>
<1>0. p \in Places /\ p[1] = s /\ p[2] = t
  BY DEF Places
<1>1. \A q \in Places : Stage'[q] = IF q = p THEN capture'[r] ELSE Stage[q]
  <2> SUFFICES ASSUME NEW q \in Places PROVE Stage'[q] = IF q = p THEN capture'[r] ELSE Stage[q]
    OBVIOUS
  <2>1. CASE q = p
    <3>1. Gave(r, q)'
      BY <2>1 DEF Gave
    <3> QED BY <2>1, <3>1 DEF StageIs
  <2>2. CASE q # p /\ \E x \in Records : Gave(x, q)
    <3>1. PICK x \in Records : Gave(x, q)
      BY <2>2
    <3>2. x # r
      BY <2>2, <3>1, Turnable DEF Gave, Places
    <3>3. Gave(x, q)' /\ capture'[x] = capture[x]
      BY <3>1, <3>2 DEF Gave
    <3> QED BY <2>2, <3>1, <3>3 DEF StageIs
  <2>3. CASE q # p /\ \A x \in Records : ~ Gave(x, q)
    <3>1. ASSUME NEW x \in Records PROVE ~ Gave(x, q)'
      <4>1. ~ (s = q[1] /\ t = q[2])
        BY <2>3 DEF Places
      <4> QED BY <4>1, <2>3 DEF Gave
    <3> QED BY <2>3, <3>1 DEF StageIs
  <2> QED BY <2>1, <2>2, <2>3
<1> HIDE DEF p
<1>2. Stage' = [Stage EXCEPT ![p] = capture'[r]]
  BY <1>0, <1>1, StageTable
<1> QED BY <1>2 DEF Staging!To, p

LEMMA StageStays ==
  ASSUME UNCHANGED <<capture, turn>>
  PROVE  Stage' = Stage
BY DEF Stage, Gave

(* The capture of the next record of a session is that of its next turn.          *)
LEMMA CaptureStarts ==
  ASSUME WorldInv, StoreInv, Gapless, StageIs, StageIs', NEW r \in Records, StartCapture(r)
  PROVE  Staging!Next
<1> DEFINE s == SessionOf[r]
           t == Counted(s) + 1
<1>1. /\ capture[r] = "no" /\ turn[r] = 0 /\ s \in known /\ s \in Sessions
      /\ turn'[r] = t /\ capture'[r] = "writing" /\ UNCHANGED <<known, file>>
      /\ \A x \in Records \ {r} : turn'[x] = turn[x] /\ capture'[x] = capture[x]
      /\ Serial => ~ Writing(s)
  BY Turnable DEF StartCapture, NextTurn, WorldInv
<1>2. t \in 1 .. MaxTurn /\ Counted(s) \in Nat
  <2>1. r \in Turns(s) /\ ~ turn[r] > 0
    BY <1>1, Turnable
  <2>2. Counted(s) \in 0 .. MaxTurn /\ t \in 1 .. MaxTurn
    BY <1>1, <2>1, CountedBounds
  <2> QED BY <2>2, Turnable
<1>3. \A x \in Records : ~ Gave(x, <<s, t>>)
  BY <1>2 DEF Gave, StoreInv, WorldInv
<1>4. Stage[<<s, t>>] = "no"
  BY <1>1, <1>2, <1>3 DEF StageIs, Places
<1>5. \A u \in 1 .. t - 1 : Stage[<<s, u>>] # "no"
  <2> SUFFICES ASSUME NEW u \in 1 .. t - 1 PROVE Stage[<<s, u>>] # "no"
    OBVIOUS
  <2>1. u \in 1 .. Counted(s) /\ <<s, u>> \in Places
    BY <1>1, <1>2, Turnable DEF Places
  <2>2. PICK x \in Records : SessionOf[x] = s /\ turn[x] = u
    BY <1>1, <2>1 DEF Gapless, Turns
  <2>3. capture[x] # "no" /\ Gave(x, <<s, u>>)
    BY <2>1, <2>2 DEF WorldInv, Gave
  <2> QED BY <2>1, <2>3 DEF StageIs
<1>6. Serial => ~ Staging!UnderWay(s)
  <2> SUFFICES ASSUME Serial, NEW u \in 1 .. MaxTurn, Stage[<<s, u>>] \in {"writing", "renamed"}
               PROVE  FALSE
    BY DEF Staging!UnderWay, Staging!Turns
  <2>1. <<s, u>> \in Places
    BY <1>1 DEF Places
  <2>2. PICK x \in Records : Gave(x, <<s, u>>)
    BY <2>1 DEF StageIs
  <2>3. x \in Turns(s) /\ capture[x] \in {"writing", "renamed"}
    BY <2>1, <2>2 DEF StageIs, Gave, Turns
  <2> QED BY <2>3, <1>1 DEF Writing
<1>7. Staging!To(s, t, "writing")
  <2> HIDE DEF s, t
  <2> QED BY <1>1, <1>2, <1>3, <1>4, StageMoves DEF s
<1>8. Staging!Start(s, t)
  BY <1>1, <1>4, <1>5, <1>6, <1>7 DEF Staging!Start, Staging!MayStart
<1> HIDE DEF s, t
<1> QED BY <1>1, <1>2, <1>8 DEF Staging!Next, Staging!Turns

LEMMA CaptureMovesOn ==
  ASSUME WorldInv, StageIs, StageIs', NEW r \in Records,
         RenameLands(r) \/ WriteFails(r) \/ FinishCapture(r) \/ EnqueueFails(r)
  PROVE  Staging!Next
<1> DEFINE s == SessionOf[r]
           t == turn[r]
<1>1. /\ capture[r] \in {"writing", "renamed"} /\ UNCHANGED <<turn, known>>
      /\ \A x \in Records \ {r} : turn'[x] = turn[x] /\ capture'[x] = capture[x]
      /\ \/ /\ capture[r] = "writing" /\ capture'[r] = "renamed"
            /\ file' = [file EXCEPT ![s] = t]
         \/ /\ capture[r] = "renamed" /\ capture'[r] = "queued"
            /\ file' = file
         \/ capture'[r] = "lost" /\ file' = file
  BY DEF RenameLands, WriteFails, FinishCapture, EnqueueFails, WorldInv
<1>2. s \in Sessions /\ t \in 1 .. MaxTurn /\ turn'[r] = t
  BY <1>1, Turnable DEF WorldInv
<1>3. Stage[<<s, t>>] = capture[r]
  BY <1>2 DEF StageIs, Places, Gave
<1>4. Staging!To(s, t, capture'[r])
  <2>1. turn[r] = t
    OBVIOUS
  <2> HIDE DEF s, t
  <2> QED BY <1>1, <1>2, <2>1, StageMoves DEF s
<1>5. Staging!Land(s, t) \/ Staging!Queue(s, t) \/ Staging!Lose(s, t)
  BY <1>1, <1>3, <1>4 DEF Staging!Land, Staging!Queue, Staging!Lose
<1> HIDE DEF s, t
<1> QED BY <1>2, <1>5 DEF Staging!Next, Staging!Turns

(* A router that dies takes the captures under way with it, and its sessions.     *)
LEMMA CrashEnds ==
  ASSUME StageIs, StageIs', WorldInv, NEW w \in Routers, DCrash(w)
  PROVE  Staging!Next
<1> DEFINE S == {s \in Sessions : Owner[s] = w}
<1>1. /\ UNCHANGED <<turn, file>>
      /\ \A x \in Records : capture'[x] = IF SessionOf[x] \in S
                                             /\ capture[x] \in {"writing", "renamed"}
                                            THEN "lost" ELSE capture[x]
  BY Turnable DEF DCrash
<1>2. known' = known \ S
  BY DEF DCrash, WorldInv
<1> HIDE DEF S
<1>3. ASSUME NEW q \in Places
      PROVE  Stage'[q] = IF q[1] \in S /\ Stage[q] \in {"writing", "renamed"} THEN "lost"
                                                                            ELSE Stage[q]
  <2>1. CASE \E x \in Records : Gave(x, q)
    <3>1. PICK x \in Records : Gave(x, q)
      BY <2>1
    <3>2. Gave(x, q)' /\ SessionOf[x] = q[1]
      BY <3>1, <1>1 DEF Gave
    <3>3. Stage[q] = capture[x] /\ Stage'[q] = capture'[x]
      BY <3>1, <3>2 DEF StageIs
    <3> QED BY <3>2, <3>3, <1>1
  <2>2. CASE \A x \in Records : ~ Gave(x, q)
    <3>1. \A x \in Records : ~ Gave(x, q)'
      BY <2>2, <1>1 DEF Gave
    <3> QED BY <2>2, <3>1 DEF StageIs
  <2> QED BY <2>1, <2>2
<1>4. Stage' = [q \in Places |-> IF q[1] \in S /\ Stage[q] \in {"writing", "renamed"} THEN "lost"
                                                                                ELSE Stage[q]]
  BY <1>3, StageTable
<1>5. Staging!Die(S)
  BY <1>1, <1>2, <1>4 DEF Staging!Die, Staging!Slots, Staging!Turns, Places
<1>6. S \in SUBSET Sessions
  BY DEF S
<1> QED BY <1>5, <1>6 DEF Staging!Next

LEMMA DeliveryStepsCaptures ==
  ASSUME WorldInv, StoreInv, Gapless, StageIs, StageIs', [DNext]_dvars
  PROVE  [Staging!Next]_Staging!cvars
<1>1. ASSUME NEW r \in Records, CaptureStep(r) PROVE Staging!Next
  BY <1>1, CaptureStarts, CaptureMovesOn DEF CaptureStep
<1>2. ASSUME NEW w \in Routers, DCrash(w) PROVE Staging!Next
  BY <1>2, CrashEnds
<1>3. ASSUME NEW w \in Routers, NEW l \in GcLanes, UnlinkLands(w, l) PROVE Staging!Next
  <2> DEFINE S == {s \in Sessions : \E r \in gc[w][l].ids : SessionOf[r] = s}
  <2>1. /\ file' = [s \in Sessions |-> IF s \in S THEN 0 ELSE file[s]]
        /\ UNCHANGED <<capture, turn, known>>
    BY <1>3 DEF UnlinkLands, captureVars
  <2>2. Staging!Delete(S) /\ S \in SUBSET Sessions
    BY <2>1, StageStays DEF Staging!Delete
  <2> HIDE DEF S
  <2> QED BY <2>2 DEF Staging!Next
<1>4. ASSUME NEW w \in Routers, DClaim(w) \/ TtlPass(w) PROVE UNCHANGED <<captureVars, file>>
  BY <1>4 DEF DClaim, TtlPass
<1>5. ASSUME NEW w \in Routers, NEW q \in Records, CallStep(w, q)
      PROVE  UNCHANGED <<captureVars, file>>
  BY <1>5 DEF CallStep, DCall, PostLands, ReadFile, PutLands, ConfirmLands, DAdvance, DRetry,
     DTerminal, DAfterAdvance, DWriteThrows
<1>6. ASSUME NEW w \in Routers, NEW l \in GcLanes,
             (l \in Sessions /\ TtlCheck(w, l)) \/ UnlinkFails(w, l) \/ MarkEvicted(w, l)
      PROVE  UNCHANGED <<captureVars, file>>
  BY <1>6 DEF TtlCheck, UnlinkFails, MarkEvicted
<1>7. ASSUME DTick \/ UNCHANGED dvars PROVE UNCHANGED <<captureVars, file>>
  BY <1>7 DEF DTick, dvars
<1>8. ASSUME UNCHANGED <<captureVars, file>> PROVE UNCHANGED Staging!cvars
  BY <1>8, StageStays DEF Staging!cvars, captureVars
<1>9. \/ \E r \in Records : CaptureStep(r)
      \/ \E w \in Routers : DCrash(w) \/ \E l \in GcLanes : UnlinkLands(w, l)
      \/ UNCHANGED <<captureVars, file>>
  BY <1>4, <1>5, <1>6, <1>7 DEF DNext, GcStep, GcLanes
<1> QED BY <1>1, <1>2, <1>3, <1>8, <1>9

LEMMA CapturesInit ==
  ASSUME DInit
  PROVE  Staging!Init /\ Gapless
<1>1. /\ \A r \in Records : turn[r] = 0
      /\ known = Sessions /\ file = [s \in Sessions |-> 0]
  BY DEF DInit
<1>2. ASSUME NEW p \in Places PROVE Stage[p] = "no"
  <2>1. \A r \in Records : ~ Gave(r, p)
    BY <1>1 DEF Gave, Places
  <2> QED BY <2>1 DEF Stage, Places
<1>3. ASSUME NEW s \in Sessions PROVE Counted(s) = 0
  <2>1. {q \in Turns(s) : turn[q] > 0} = {}
    BY <1>1 DEF Turns
  <2> QED BY <2>1, FS_EmptySet DEF Counted
<1>4. Stage = [p \in Places |-> "no"]
  BY <1>2, StageTable
<1> QED BY <1>1, <1>3, <1>4 DEF Gapless, Staging!Init, Staging!Slots, Staging!Turns, Places

LEMMA GaplessHolds == DSpec => []Gapless
<1>1. DInit => Gapless
  BY CapturesInit
<1>2. WorldInv /\ Gapless /\ [DNext]_dvars => Gapless'
  BY GaplessNext
<1> QED BY <1>1, <1>2, WorldHolds, PTL DEF DSpec

(* Delivery's captures are among those that Captures allows, as Recording's are:   *)
(* no capture of the model does what a router would not.                         *)
THEOREM DeliveryImplementsCaptures == DSpec => CapturesSpec
<1>1. DInit => Staging!Init
  BY CapturesInit
<1>2. WorldInv /\ StoreInv /\ Gapless /\ StageIs /\ StageIs' /\ [DNext]_dvars
        => [Staging!Next]_Staging!cvars
  BY DeliveryStepsCaptures
<1> QED BY <1>1, <1>2, StageRead, StoreHolds, WorldHolds, GaplessHolds, PTL
        DEF DSpec, CapturesSpec, Staging!Spec

(* A staged file that is there holds a turn that was captured and, if captures of  *)
(* a session do not overlap, none earlier than any turn that has a row: proved of   *)
(* Captures, it holds beside stages, deletions and crashes of any number of routers. *)
THEOREM DeliveredFilesLatest == DSpec => []Staging!FileIsLatest
<1>1. MaxTurn \in Nat
  BY Turnable
<1>2. Staging!Spec => []Staging!FileIsLatest
  BY <1>1, Staging!FilesAreLatest
<1> QED BY <1>2, DeliveryImplementsCaptures DEF CapturesSpec

\* And the other way about.  The turn that Captures lets begin is the one that the
\* next record of the session is given, under the same conditions (Spaced apart,
\* which StartCapture adds); a capture that is under way in Captures is that of a
\* record, at the same point.
CapturesAgree ==
  /\ \A r \in Records, t \in 1 .. MaxTurn :
       capture[r] = "no" =>
         (Staging!MayStart(SessionOf[r], t)
            <=> /\ t = NextTurn(SessionOf[r])
                /\ SessionOf[r] \in known
                /\ Serial => ~ Writing(SessionOf[r]))
  /\ \A s \in Sessions, t \in 1 .. MaxTurn :
       Stage[<<s, t>>] # "no" =>
         \E r \in Turns(s) : turn[r] = t /\ capture[r] = Stage[<<s, t>>]

(* Turns are counted without gaps, so that the first one without a capture is the    *)
(* one that NextTurn gives.                                                        *)
LEMMA AgreeHolds ==
  ASSUME WorldInv, StoreInv, Gapless, StageIs
  PROVE  CapturesAgree
<1>1. ASSUME NEW s \in Sessions, NEW t \in 1 .. MaxTurn, Stage[<<s, t>>] # "no"
      PROVE  \E r \in Turns(s) : turn[r] = t /\ capture[r] = Stage[<<s, t>>]
  <2>1. <<s, t>> \in Places
    BY DEF Places
  <2>2. PICK r \in Records : Gave(r, <<s, t>>)
    BY <1>1, <2>1 DEF StageIs
  <2> QED BY <2>1, <2>2 DEF StageIs, Gave, Turns
<1>3. ASSUME NEW s \in Sessions, NEW u \in 1 .. MaxTurn
      PROVE  Stage[<<s, u>>] # "no" <=> u \in 1 .. Counted(s)
  <2>0. Counted(s) \in Nat /\ <<s, u>> \in Places /\ u \in Nat
    <3>1. Counted(s) \in 0 .. MaxTurn
      BY CountedBounds
    <3> QED BY <3>1, Turnable DEF Places
  <2>1. ASSUME Stage[<<s, u>>] # "no" PROVE u <= Counted(s)
    <3>1. PICK x \in Turns(s) : turn[x] = u
      BY <1>1, <2>1
    <3> QED BY <3>1, <2>0 DEF StoreInv, Turns
  <2>2. ASSUME u <= Counted(s) PROVE Stage[<<s, u>>] # "no"
    <3>1. PICK x \in Turns(s) : turn[x] = u
      BY <2>0, <2>2 DEF Gapless
    <3>2. x \in Records /\ Gave(x, <<s, u>>) /\ capture[x] # "no"
      BY <3>1, <2>0 DEF Turns, Gave, WorldInv
    <3> QED BY <3>2, <2>0 DEF StageIs
  <2> QED BY <2>0, <2>1, <2>2
<1>4. ASSUME NEW s \in Sessions PROVE Staging!UnderWay(s) <=> Writing(s)
  <2>1. ASSUME NEW u \in 1 .. MaxTurn, Stage[<<s, u>>] \in {"writing", "renamed"} PROVE Writing(s)
    BY <1>1, <2>1 DEF Writing
  <2>2. ASSUME NEW x \in Turns(s), capture[x] \in {"writing", "renamed"}
        PROVE  \E u \in 1 .. MaxTurn : Stage[<<s, u>>] \in {"writing", "renamed"}
    <3>1. turn[x] \in 1 .. MaxTurn /\ Gave(x, <<s, turn[x]>>) /\ x \in Records
      BY <2>2, Turnable DEF WorldInv, Turns, Gave
    <3>2. Stage[<<s, turn[x]>>] = capture[x]
      BY <3>1 DEF StageIs, Places
    <3> QED BY <3>1, <3>2, <2>2
  <2> QED BY <2>1, <2>2 DEF Staging!UnderWay, Staging!Turns, Writing
<1>5. ASSUME NEW r \in Records, NEW t \in 1 .. MaxTurn, capture[r] = "no"
      PROVE  Staging!MayStart(SessionOf[r], t)
               <=> /\ t = NextTurn(SessionOf[r])
                   /\ SessionOf[r] \in known
                   /\ Serial => ~ Writing(SessionOf[r])
  <2>1. PICK s \in Sessions : s = SessionOf[r]
    BY Turnable
  <2>2. Counted(s) \in Nat /\ Counted(s) <= MaxTurn /\ MaxTurn \in Nat /\ t \in Nat /\ t # 0
    <3>1. Counted(s) \in 0 .. MaxTurn
      BY CountedBounds
    <3> QED BY <3>1, Turnable
  <2>3. (/\ Stage[<<s, t>>] = "no" /\ \A u \in 1 .. t - 1 : Stage[<<s, u>>] # "no")
          <=> t = Counted(s) + 1
    <3>1. Stage[<<s, t>>] = "no" <=> t > Counted(s)
      BY <1>3, <2>2
    <3>2. (\A u \in 1 .. t - 1 : Stage[<<s, u>>] # "no") <=> t <= Counted(s) + 1
      <4>1. ASSUME NEW u \in 1 .. t - 1
            PROVE  Stage[<<s, u>>] # "no" <=> u <= Counted(s)
        <5>1. u \in 1 .. MaxTurn
          BY <2>2
        <5> QED BY <5>1, <1>3, <2>2
      <4>2. ASSUME t <= Counted(s) + 1, NEW u \in 1 .. t - 1 PROVE Stage[<<s, u>>] # "no"
        <5>1. u <= Counted(s)
          BY <2>2, <4>2
        <5> QED BY <4>1, <5>1
      <4>3. ASSUME t > Counted(s) + 1
            PROVE  \E u \in 1 .. t - 1 : ~ (Stage[<<s, u>>] # "no")
        <5>1. Counted(s) + 1 \in 1 .. t - 1 /\ ~ (Counted(s) + 1 <= Counted(s))
          BY <2>2, <4>3
        <5> QED BY <4>1, <5>1
      <4>4. ~ (t <= Counted(s) + 1) => t > Counted(s) + 1
        BY <2>2
      <4> QED BY <4>2, <4>3, <4>4
    <3> QED BY <3>1, <3>2, <2>2
  <2> QED BY <2>1, <2>3, <1>4 DEF Staging!MayStart, NextTurn
<1> QED BY <1>1, <1>5 DEF CapturesAgree

(* Delivery's captures are no fewer than those of Captures: none of the orders in    *)
(* which Recording begins turns is missing from what its theorems are about, while   *)
(* it has records and crashes left.                                                *)
THEOREM DeliveryAllowsCaptures == DSpec => []CapturesAgree
<1>1. WorldInv /\ StoreInv /\ Gapless /\ StageIs => CapturesAgree
  BY AgreeHolds
<1> QED BY <1>1, StageRead, StoreHolds, WorldHolds, GaplessHolds, PTL
---------------------------------------------------------------------------
(* No staged file is forgotten.  Behind every file there is the capture that     *)
(* wrote it: it is still to be enqueued, was lost before it was, or has a row     *)
(* that is not marked as evicted and that nobody is about to mark.               *)

Marking(w, l, r) == gc[w][l].phase = "unlinked" /\ r \in gc[w][l].ids

Remembered(r) ==
  \/ capture[r] \in {"renamed", "lost"}
  \/ /\ row[r].state # "absent" /\ r \notin evicted
     /\ \A w \in Routers, l \in GcLanes : ~ Marking(w, l, r)

TraceInv ==
  /\ \A r \in evicted : row[r].state # "absent"
  /\ \A w \in Routers, l \in GcLanes : \A r \in gc[w][l].ids : row[r].state # "absent"
  /\ \A r \in Records : capture[r] \in {"writing", "renamed"} => row[r].state = "absent"
  /\ \A s \in Sessions : file[s] # 0 =>
       \E r \in Turns(s) : turn[r] = file[s] /\ Remembered(r)

(* What a step does to a deletion under way: what it has listed are rows, and it  *)
(* has unlinked only after it was about to.                                     *)
LEMMA GcSteps ==
  ASSUME WorldInv, [DNext]_dvars, NEW w \in Routers, NEW l \in GcLanes
  PROVE  \/ gc'[w][l] = gc[w][l]
         \/ gc'[w][l].ids \subseteq {r \in Records : row'[r].state # "absent"}
            /\ gc'[w][l].phase # "unlinked"
         \/ gc'[w][l].ids = gc[w][l].ids /\ gc'[w][l].phase # "unlinked"
         \/ UnlinkLands(w, l) /\ gc'[w][l] = [gc[w][l] EXCEPT !.phase = "unlinked"]
<1> DEFINE Listed == gc'[w][l].ids \subseteq {r \in Records : row'[r].state # "absent"}
                     /\ gc'[w][l].phase # "unlinked"
           Goal == \/ gc'[w][l] = gc[w][l]
                   \/ Listed
                   \/ gc'[w][l].ids = gc[w][l].ids /\ gc'[w][l].phase # "unlinked"
                   \/ UnlinkLands(w, l) /\ gc'[w][l] = [gc[w][l] EXCEPT !.phase = "unlinked"]
<1>0. \A s : RowsOf(row', s) \subseteq {r \in Records : row'[r].state # "absent"}
  BY DEF RowsOf, Turns
<1>n. ASSUME gc'[w][l] = NoGc PROVE Goal
  BY <1>n DEF NoGc
<1>1. CASE gc' = gc
  BY <1>1
<1>2. ASSUME NEW v \in Routers, NEW r \in Records, DAdvance(v, r) PROVE Goal
  <2> DEFINE t == SessionOf[r]
  <2>1. CASE gc' = [gc EXCEPT ![v][r] = [phase |-> "unlinking", ids |-> RowsOf(row', t)]]
    <3>1. CASE v = w /\ r = l
      <4>1. gc'[w][l] = [phase |-> "unlinking", ids |-> RowsOf(row', t)]
        BY <2>1, <3>1 DEF WorldInv
      <4> QED BY <1>0, <4>1
    <3>2. CASE ~ (v = w /\ r = l)
      BY <2>1, <3>2 DEF WorldInv
    <3> QED BY <3>1, <3>2
  <2> QED BY <1>1, <1>2, <2>1 DEF DAdvance
<1>3. ASSUME NEW v \in Routers, TtlPass(v) PROVE Goal
  <2> DEFINE L == {t \in Sessions : Reclaimable(row, t)}
  <2>1. PICK t \in L :
          gc' = [gc EXCEPT ![v] = [k \in GcLanes |->
            CASE k = t       -> Checked(v, t, RowsOf(row, t))
              [] k \in L \ {t} -> [phase |-> "listed", ids |-> RowsOf(row, k)]
              [] OTHER       -> gc[v][k]]]
    BY <1>3 DEF TtlPass
  <2>2. row' = row
    BY <1>3 DEF TtlPass, vars
  <2>3. CASE v # w
    BY <2>1, <2>3 DEF WorldInv
  <2>4. CASE v = w
    <3>1. gc'[w][l] = CASE l = t       -> Checked(v, t, RowsOf(row, t))
                        [] l \in L \ {t} -> [phase |-> "listed", ids |-> RowsOf(row, l)]
                        [] OTHER       -> gc[w][l]
      BY <2>1, <2>4 DEF WorldInv
    <3>2. CASE l = t
      BY <3>1, <3>2, <1>0, <1>n, <2>2 DEF Checked
    <3>3. CASE l \in L \ {t}
      BY <3>1, <3>3, <1>0, <2>2
    <3>4. CASE l # t /\ l \notin L \ {t}
      BY <3>1, <3>4
    <3> QED BY <3>2, <3>3, <3>4
  <2> QED BY <2>3, <2>4
<1>4. ASSUME NEW v \in Routers, DCrash(v) PROVE Goal
  <2>1. gc'[w][l] = IF v = w THEN NoGc ELSE gc[w][l]
    BY <1>4 DEF DCrash, WorldInv
  <2> QED BY <1>n, <2>1
<1>5. ASSUME NEW v \in Routers, NEW k \in GcLanes, (k \in Sessions /\ TtlCheck(v, k)) \/ GcStep(v, k)
      PROVE  Goal
  <2>0. gc[w][l] \in Gcs
    BY DEF WorldInv
  <2>1. CASE ~ (v = w /\ k = l)
    BY <1>5, <2>1 DEF TtlCheck, GcStep, UnlinkLands, UnlinkFails, MarkEvicted, WorldInv
  <2>2. CASE v = w /\ k = l
    <3>1. CASE l \in Sessions /\ TtlCheck(w, l)
      <4>1. gc'[w][l] = Checked(w, l, gc[w][l].ids)
        BY <3>1 DEF TtlCheck, WorldInv
      <4> QED BY <4>1, <1>n DEF Checked
    <3>2. CASE UnlinkLands(w, l)
      <4>1. gc'[w][l] = [gc[w][l] EXCEPT !.phase = "unlinked"]
        BY <3>2 DEF UnlinkLands, WorldInv
      <4> QED BY <3>2, <4>1
    <3>3. CASE UnlinkFails(w, l) \/ MarkEvicted(w, l)
      <4>1. gc'[w][l] = NoGc
        BY <3>3 DEF UnlinkFails, MarkEvicted, WorldInv
      <4> QED BY <4>1, <1>n
    <3> QED BY <1>5, <2>2, <3>1, <3>2, <3>3 DEF GcStep
  <2> QED BY <2>1, <2>2
<1>6. ASSUME NEW v \in Routers, NEW r \in Records, CallStep(v, r), ~ DAdvance(v, r)
      PROVE  gc' = gc
  BY <1>6 DEF CallStep, DCall, PostLands, ReadFile, PutLands, ConfirmLands, DRetry, DTerminal,
     DAfterAdvance, DWriteThrows, gcVars
<1>7. ASSUME NEW r \in Records, CaptureStep(r) PROVE gc' = gc
  BY <1>7 DEF CaptureStep, StartCapture, RenameLands, WriteFails, FinishCapture, EnqueueFails, gcVars
<1>8. ASSUME NEW v \in Routers, DClaim(v) PROVE gc' = gc
  BY <1>8 DEF DClaim, gcVars
<1>9. CASE DTick \/ UNCHANGED dvars
  <2>1. gc' = gc
    BY <1>9 DEF DTick, dvars, gcVars
  <2> QED BY <1>1, <2>1
<1> QED BY <1>1, <1>2, <1>3, <1>4, <1>5, <1>6, <1>7, <1>8, <1>9 DEF DNext, GcLanes

(* A row is marked as evicted only by a deletion that has unlinked its file.      *)
LEMMA EvictedSteps ==
  ASSUME WorldInv, [DNext]_dvars, NEW r \in evicted'
  PROVE  r \in evicted \/ \E w \in Routers, l \in GcLanes : Marking(w, l, r)
<1>1. ASSUME NEW w \in Routers, NEW l \in GcLanes, MarkEvicted(w, l)
      PROVE  r \in evicted \/ Marking(w, l, r)
  BY <1>1 DEF MarkEvicted, Marking
<1>2. ASSUME NEW q \in Records, CaptureStep(q) PROVE evicted' = evicted
  BY <1>2 DEF CaptureStep, StartCapture, RenameLands, WriteFails, FinishCapture, EnqueueFails, gcVars
<1>3. ASSUME NEW w \in Routers, DClaim(w) \/ DCrash(w) \/ TtlPass(w) PROVE evicted' = evicted
  BY <1>3 DEF DClaim, DCrash, TtlPass, gcVars
<1>4. ASSUME NEW w \in Routers, NEW q \in Records, CallStep(w, q) PROVE evicted' = evicted
  BY <1>4 DEF CallStep, DCall, PostLands, ReadFile, PutLands, ConfirmLands, DAdvance, DRetry,
     DTerminal, DAfterAdvance, DWriteThrows, gcVars
<1>5. ASSUME NEW w \in Routers, NEW l \in GcLanes,
             (l \in Sessions /\ TtlCheck(w, l)) \/ UnlinkLands(w, l) \/ UnlinkFails(w, l)
      PROVE  evicted' = evicted
  BY <1>5 DEF TtlCheck, UnlinkLands, UnlinkFails
<1>6. CASE DTick \/ UNCHANGED dvars
  BY <1>6 DEF DTick, dvars, gcVars
<1> QED BY <1>1, <1>2, <1>3, <1>4, <1>5, <1>6 DEF DNext, GcStep, GcLanes
(* A capture that has replaced the file is enqueued or lost, and a lost one stays   *)
(* lost.                                                                         *)
LEMMA CaptureFate ==
  ASSUME WorldInv, [DNext]_dvars, NEW r \in Records, capture[r] \in {"renamed", "lost"}
  PROVE  \/ capture'[r] \in {"renamed", "lost"}
         \/ capture[r] = "renamed" /\ FinishCapture(r)
<1> DEFINE Goal == \/ capture'[r] \in {"renamed", "lost"}
                   \/ capture[r] = "renamed" /\ FinishCapture(r)
<1> SUFFICES Goal
  OBVIOUS
<1>1. ASSUME NEW q \in Records, CaptureStep(q) PROVE Goal
  <2>1. CASE q # r
    BY <1>1, <2>1 DEF CaptureStep, StartCapture, RenameLands, WriteFails, FinishCapture,
       EnqueueFails, WorldInv
  <2>2. CASE q = r
    <3>1. ~ StartCapture(r) /\ ~ RenameLands(r) /\ ~ WriteFails(r)
      BY DEF StartCapture, RenameLands, WriteFails
    <3>2. ASSUME EnqueueFails(r) PROVE Goal
      BY <3>2 DEF EnqueueFails, WorldInv
    <3>3. ASSUME FinishCapture(r) PROVE Goal
      BY <3>3 DEF FinishCapture
    <3> QED BY <1>1, <2>2, <3>1, <3>2, <3>3 DEF CaptureStep
  <2> QED BY <2>1, <2>2
<1>2. ASSUME NEW w \in Routers, DCrash(w) PROVE Goal
  BY <1>2 DEF DCrash
<1>3. ASSUME NEW w \in Routers, DClaim(w) \/ TtlPass(w) PROVE UNCHANGED capture
  BY <1>3 DEF DClaim, TtlPass, captureVars
<1>4. ASSUME NEW w \in Routers, NEW q \in Records, CallStep(w, q) PROVE UNCHANGED capture
  BY <1>4 DEF CallStep, DCall, PostLands, ReadFile, PutLands, ConfirmLands, DAdvance, DRetry,
     DTerminal, DAfterAdvance, DWriteThrows, captureVars
<1>5. ASSUME NEW w \in Routers, NEW l \in GcLanes,
             (l \in Sessions /\ TtlCheck(w, l)) \/ GcStep(w, l)
      PROVE  UNCHANGED capture
  BY <1>5 DEF TtlCheck, GcStep, UnlinkLands, UnlinkFails, MarkEvicted, captureVars
<1>6. ASSUME DTick \/ UNCHANGED dvars PROVE UNCHANGED capture
  BY <1>6 DEF DTick, dvars, captureVars
<1>7. ASSUME UNCHANGED capture PROVE Goal
  BY <1>7
<1> HIDE DEF Goal
<1> QED BY <1>1, <1>2, <1>3, <1>4, <1>5, <1>6, <1>7 DEF DNext, GcLanes

(* As long as the file stays, so does the memory of the capture that wrote it:     *)
(* a row is about to be marked only when its session's file has been unlinked.     *)
LEMMA RememberedStays ==
  ASSUME TypeOK, WorldInv, StoreInv, TraceInv, [DNext]_dvars,
         NEW r \in Records, Remembered(r), file'[SessionOf[r]] # 0
  PROVE  Remembered(r)'
<1>1. CASE capture[r] \in {"renamed", "lost"} /\ capture'[r] \in {"renamed", "lost"}
  BY <1>1 DEF Remembered
<1>2. CASE capture[r] = "renamed" /\ FinishCapture(r)
  <2>1. row[r].state = "absent" /\ gc' = gc /\ evicted' = evicted
    BY <1>2 DEF FinishCapture, gcVars, TraceInv
  <2>2. row'[r].state # "absent"
    <3>1. Enqueue(r)
      BY <1>2 DEF FinishCapture
    <3> QED BY <3>1, EnqueueEffect
  <2>3. r \notin evicted /\ \A w \in Routers, l \in GcLanes : ~ Marking(w, l, r)
    BY <2>1 DEF TraceInv, Marking
  <2> QED BY <2>1, <2>2, <2>3 DEF Remembered, Marking
<1>3. CASE /\ row[r].state # "absent" /\ r \notin evicted
           /\ \A w \in Routers, l \in GcLanes : ~ Marking(w, l, r)
  <2>1. row'[r].state # "absent"
    BY <1>3, RowSteps DEF StoreInv
  <2>2. r \notin evicted'
    BY <1>3, EvictedSteps
  <2>3. ASSUME NEW w \in Routers, NEW l \in GcLanes, Marking(w, l, r)' PROVE FALSE
    <3>1. UnlinkLands(w, l) /\ gc'[w][l] = [gc[w][l] EXCEPT !.phase = "unlinked"]
      <4>1. gc'[w][l] # gc[w][l] /\ gc'[w][l].phase = "unlinked"
        BY <1>3, <2>3 DEF Marking
      <4> QED BY <4>1, GcSteps
    <3>2. r \in gc[w][l].ids
      <4>1. gc[w][l] \in Gcs
        BY DEF WorldInv
      <4>2. gc'[w][l].ids = gc[w][l].ids
        BY <3>1, <4>1 DEF Gcs
      <4> QED BY <2>3, <4>2 DEF Marking
    <3>3. file'[SessionOf[r]] = 0
      BY <3>1, <3>2, Turnable DEF UnlinkLands
    <3> QED BY <3>3
  <2> QED BY <2>1, <2>2, <2>3 DEF Remembered
<1> QED BY <1>1, <1>2, <1>3, CaptureFate DEF Remembered

LEMMA TraceNext ==
  ASSUME TypeOK, WorldInv, StoreInv, TraceInv, [DNext]_dvars
  PROVE  TraceInv'
<1>r. ASSUME NEW r \in Records, row[r].state # "absent" PROVE row'[r].state # "absent"
  BY <1>r, RowSteps DEF StoreInv
<1>1. ASSUME NEW r \in evicted' PROVE row'[r].state # "absent"
  <2>1. row[r].state # "absent"
    BY EvictedSteps DEF TraceInv, Marking
  <2>2. r \in Records
    <3>1. r \in evicted \/ \E w \in Routers, l \in GcLanes : r \in gc[w][l].ids
      BY EvictedSteps DEF Marking
    <3>2. \A w \in Routers, l \in GcLanes : gc[w][l].ids \subseteq Records
      BY DEF WorldInv, Gcs
    <3> QED BY <3>1, <3>2 DEF WorldInv
  <2> QED BY <1>r, <2>1, <2>2
<1>2. ASSUME NEW w \in Routers, NEW l \in GcLanes, NEW r \in gc'[w][l].ids
      PROVE  row'[r].state # "absent"
  <2>1. gc[w][l] \in Gcs
    BY DEF WorldInv
  <2>2. r \in gc[w][l].ids \/ row'[r].state # "absent"
    <3>1. [gc[w][l] EXCEPT !.phase = "unlinked"].ids = gc[w][l].ids
      BY <2>1 DEF Gcs
    <3> QED BY <1>2, <3>1, GcSteps
  <2>3. r \in gc[w][l].ids => r \in Records /\ row[r].state # "absent"
    BY <2>1 DEF Gcs, TraceInv
  <2> QED BY <2>2, <2>3, <1>r
<1>3. ASSUME NEW r \in Records, capture'[r] \in {"writing", "renamed"}
      PROVE  row'[r].state = "absent"
  <2>1. row[r].state = "absent"
    <3>1. capture[r] \in {"no", "writing", "renamed"}
      BY <1>3, CaptureSteps DEF StartCapture
    <3>2. capture[r] = "no" => row[r].state = "absent"
      BY DEF WorldInv, StoreInv
    <3> QED BY <3>1, <3>2 DEF TraceInv
  <2>2. ~ FinishCapture(r)
    BY <1>3 DEF FinishCapture, WorldInv
  <2> QED BY <2>1, <2>2, RowSteps DEF StoreInv
<1>4. ASSUME NEW s \in Sessions, file'[s] # 0
      PROVE  \E r \in Turns(s) : turn'[r] = file'[s] /\ Remembered(r)'
  <2>1. CASE file'[s] = file[s]
    <3>1. PICK r \in Turns(s) : turn[r] = file[s] /\ Remembered(r)
      BY <1>4, <2>1 DEF TraceInv
    <3>2. r \in Records /\ SessionOf[r] = s
      BY <3>1 DEF Turns
    <3>3. turn'[r] = turn[r]
      BY <1>4, <2>1, <3>1, <3>2, StoreNext
    <3>4. Remembered(r)'
      BY <1>4, <3>1, <3>2, RememberedStays
    <3> QED BY <2>1, <3>1, <3>3, <3>4
  <2>2. CASE file'[s] # file[s]
    <3>1. PICK r \in Turns(s) : RenameLands(r) /\ file'[s] = turn[r]
      BY <1>4, <2>2, FileSteps
    <3>2. capture'[r] = "renamed" /\ turn'[r] = turn[r]
      BY <3>1, Turnable DEF RenameLands, WorldInv
    <3> QED BY <3>1, <3>2 DEF Remembered
  <2> QED BY <2>1, <2>2
<1> QED BY <1>1, <1>2, <1>3, <1>4 DEF TraceInv

(* The cleanups forget no file (queue.ts findEvictableSessions): one that no row    *)
(* needs and no capture writes is found by the next TTL pass, with any number of    *)
(* routers, overlapping captures and deletions, unless its row was lost.           *)
THEOREM FilesRemembered == DSpec => []NoFileForgotten
<1>1. DInit => TraceInv
  BY DEF DInit, Init, Absent, TraceInv, NoGc
<1>2. TypeOK /\ WorldInv /\ StoreInv /\ TraceInv /\ [DNext]_dvars => TraceInv'
  BY TraceNext
<1>3. ASSUME TraceInv PROVE NoFileForgotten
  <2> SUFFICES ASSUME NEW s \in Sessions, file[s] # 0,
                      \A r \in Turns(s) : row[r].state \notin {"captured", "ingested"},
                      \A r \in Turns(s) : ~ (capture[r] = "lost" /\ turn[r] = file[s])
               PROVE  Writing(s) \/ Reclaimable(row, s)
    BY DEF NoFileForgotten
  <2>1. PICK r \in Turns(s) : turn[r] = file[s] /\ Remembered(r)
    BY <1>3 DEF TraceInv
  <2>2. CASE capture[r] = "renamed"
    BY <2>2 DEF Writing
  <2>3. CASE row[r].state # "absent" /\ r \notin evicted
    BY <2>3 DEF Reclaimable, RowsOf
  <2> QED BY <2>1, <2>2, <2>3 DEF Remembered
<1> QED BY <1>1, <1>2, <1>3, WorldHolds, StoreHolds, DeliveryImplementsOutbox, TypeCorrect, PTL
        DEF DSpec
=============================================================================
