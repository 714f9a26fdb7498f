------------------------------- MODULE Outbox -------------------------------
(* The durable outbox (outbox/queue.ts) and the relay workers that drain it *)
(* (outbox/relay.ts).  One sqlite file is shared by several router          *)
(* processes; each runs one worker loop, and runOnce claims a batch of rows *)
(* in one UPDATE, works on them in Concurrency lanes, and writes each       *)
(* result back by record_id alone.                                          *)
(*                                                                          *)
(* Time is kept relative, so that no clock bound is needed: due is          *)
(* next_attempt_at - now, claim is now - claimed_at, and age[w] is the time *)
(* since router w read the `now` its runOnce goes on using.  Each of them   *)
(* saturates where the code can no longer tell the values apart.            *)
EXTENDS Integers, Sequences, FiniteSets

CONSTANTS Records,      \* record_ids
          Routers,      \* router processes sharing the queue file
          StaleMs,      \* staleMs: a claim older than this may be taken over
          Backoff,      \* the retry schedule, DEFAULT_BACKOFF
          Limit,        \* rows per claim
          Concurrency,  \* lanes per batch
          Timely,       \* TRUE: every runOnce ends while its claims are fresh
          Lag,          \* how late a row's due time is still told apart
          AgeCap,       \* where age[w] saturates
          MaxCrashes,   \* bound on router crashes
          Hung,         \* routers in which a call may hang for ever
          WriteErrors   \* TRUE: writing a result to the queue may throw

ASSUME OutboxAssumption ==
  /\ StaleMs \in Nat
  /\ Backoff \in Seq(Nat) /\ Len(Backoff) > 0
  /\ Limit \in Nat \ {0}
  /\ Concurrency \in Nat \ {0}
  /\ Timely \in BOOLEAN
  /\ Lag \in Nat
  /\ AgeCap \in Nat /\ AgeCap > StaleMs
  /\ MaxCrashes \in Nat
  /\ Hung \subseteq Routers
  /\ WriteErrors \in BOOLEAN

VARIABLES row,        \* row[r]: the outbox row of record r
          slot,       \* slot[w][r]: router w's in-memory copy of a claimed row
          age,        \* age[w]: time since w's current runOnce read the clock
          completed,  \* completed[r]: stages whose handler succeeded (history)
          crashes     \* crashes so far

vars == <<row, slot, age, completed, crashes>>

---------------------------------------------------------------------------
ActiveStates == {"captured", "ingested", "synced"}
FinalStates  == {"done", "conflict", "fatal"}
Stages       == ActiveStates      \* a stage is named by the state it is run in

NextStateAfter(s) == CASE s = "captured" -> "ingested"
                       [] s = "ingested" -> "synced"
                       [] s = "synced"   -> "done"
                       [] OTHER          -> s

\* The stages that lie behind a record in state s.
Before(s) == CASE s = "ingested" -> {"captured"}
               [] s = "synced"   -> {"captured", "ingested"}
               [] s = "done"     -> Stages
               [] OTHER          -> {}

Null == -1                        \* claimed_at IS NULL

Least(a, b)    == IF a < b THEN a ELSE b
Greatest(a, b) == IF a > b THEN a ELSE b

\* The largest index into the schedule (0-based in the source).
LastStep == Len(Backoff) - 1

NextBackoff(attempts) == Backoff[Least(attempts, LastStep) + 1]

\* A due time `wait` after the `now` that router w still holds.
DueIn(w, wait) == Greatest(wait - age[w], -Lag)

NoSlot == [state |-> "captured", phase |-> "none"]

Absent == [state |-> "absent", attempts |-> 0, due |-> 0, claim |-> Null]

NoSlots == [r \in Records |-> NoSlot]

Idle(w) == \A r \in Records : slot[w][r].phase = "none"

\* Router w has record r and has not written its result yet.
Working(w, r) == slot[w][r].phase \in {"queued", "calling", "hung"}

\* Mutants: the WHERE of claim without its claimed_at condition, and without the
\* staleness alternative.
ReadyThoughClaimed == {r \in Records : /\ row[r].state \in ActiveStates
                                       /\ row[r].due <= 0}
ReadyUnclaimedOnly == {r \in ReadyThoughClaimed : row[r].claim = Null}

Ready == {r \in Records : /\ row[r].state \in ActiveStates
                          /\ row[r].due <= 0
                          /\ row[r].claim = Null \/ row[r].claim > StaleMs}

---------------------------------------------------------------------------
Init == /\ row = [r \in Records |-> Absent]
        /\ slot = [w \in Routers |-> NoSlots]
        /\ age = [w \in Routers |-> 0]
        /\ completed = [r \in Records |-> {}]
        /\ crashes = 0

\* onCapture's enqueue; INSERT OR IGNORE leaves an existing row alone.
Enqueue(r) ==
  /\ row[r].state = "absent"
  /\ row' = [row EXCEPT ![r] = [Absent EXCEPT !.state = "captured"]]
  /\ UNCHANGED <<slot, age, completed, crashes>>

\* claim: the Limit most overdue ready rows, stamped and returned in one
\* statement.  Rows due at the same time come in any order.
Claim(w) ==
  /\ Idle(w)
  /\ \E S \in SUBSET Ready :
       /\ S # {}
       /\ Cardinality(S) = Least(Limit, Cardinality(Ready))
       /\ \A r \in S, q \in Ready \ S : row[r].due <= row[q].due
       /\ row' = [r \in Records |-> IF r \in S THEN [row[r] EXCEPT !.claim = 0]
                                               ELSE row[r]]
       /\ slot' = [slot EXCEPT ![w] =
                     [r \in Records |-> IF r \in S
                        THEN [state |-> row[r].state, phase |-> "queued"]
                        ELSE NoSlot]]
  /\ age' = [age EXCEPT ![w] = 0]
  /\ UNCHANGED <<completed, crashes>>

\* A lane of router w awaits its handler or its afterAdvance.
Busy(w, r) == slot[w][r].phase \in {"calling", "hung", "after"}

\* A free lane takes the next slot of the batch and calls its stage handler.
\* A lane stays taken while its handler or its afterAdvance is awaited.
Call(w, r) ==
  /\ slot[w][r].phase = "queued"
  /\ Cardinality({q \in Records : Busy(w, q)}) < Concurrency
  /\ slot' = [slot EXCEPT ![w][r].phase = "calling"]
  /\ UNCHANGED <<row, age, completed, crashes>>

\* The handler's HTTP call never returns: none of them is given a timeout, so
\* the lane, and with it runOnce, waits for ever.
Hang(w, r) ==
  /\ w \in Hung
  /\ slot[w][r].phase = "calling"
  /\ slot' = [slot EXCEPT ![w][r].phase = "hung"]
  /\ UNCHANGED <<row, age, completed, crashes>>

\* Mutant: the new state is computed from the row instead of the snapshot.
AdvanceFromRow(w, r) ==
  /\ slot[w][r].phase = "calling"
  /\ row' = [row EXCEPT ![r] = [state    |-> NextStateAfter(row[r].state),
                                attempts |-> 0,
                                due      |-> DueIn(w, 0),
                                claim    |-> Null]]
  /\ slot' = [slot EXCEPT ![w][r].phase = "after"]
  /\ completed' = [completed EXCEPT ![r] = @ \cup {slot[w][r].state}]
  /\ UNCHANGED <<age, crashes>>

\* applyResult on {kind: "advance"}: the new state comes from the snapshot the
\* claim returned, and the UPDATE is keyed by record_id only.
Advance(w, r) ==
  /\ slot[w][r].phase = "calling"
  /\ row' = [row EXCEPT ![r] = [state    |-> NextStateAfter(slot[w][r].state),
                                attempts |-> 0,
                                due      |-> DueIn(w, 0),
                                claim    |-> Null]]
  /\ slot' = [slot EXCEPT ![w][r].phase = "after"]
  /\ completed' = [completed EXCEPT ![r] = @ \cup {slot[w][r].state}]
  /\ UNCHANGED <<age, crashes>>

\* The afterAdvance callback has returned (or thrown, which is logged).
AfterAdvance(w, r) ==
  /\ slot[w][r].phase = "after"
  /\ slot' = [slot EXCEPT ![w][r] = NoSlot]
  /\ UNCHANGED <<row, age, completed, crashes>>

\* applyResult on {kind: "retry"}, also the fate of a handler that throws: the
\* attempts are read from the row as it is now.  Beyond LastStep the counter
\* makes no difference and is not counted further.
Retry(w, r) ==
  /\ slot[w][r].phase = "calling"
  /\ row' = [row EXCEPT ![r] = [@ EXCEPT
       !.attempts = Least(row[r].attempts + 1, LastStep),
       !.due      = DueIn(w, NextBackoff(row[r].attempts)),
       !.claim    = Null]]
  /\ slot' = [slot EXCEPT ![w][r] = NoSlot]
  /\ UNCHANGED <<age, completed, crashes>>

\* Mutant: a later stage may answer conflict too.
TerminalOfAnyKind(w, r) ==
  /\ slot[w][r].phase = "calling"
  /\ \E final \in {"conflict", "fatal"} :
       row' = [row EXCEPT ![r] = [@ EXCEPT !.state = final, !.claim = Null]]
  /\ slot' = [slot EXCEPT ![w][r] = NoSlot]
  /\ UNCHANGED <<age, completed, crashes>>

\* applyResult on {kind: "terminal"}; only the ingest stage answers conflict.
Terminal(w, r) ==
  /\ slot[w][r].phase = "calling"
  /\ \E final \in {"conflict", "fatal"} :
       /\ final = "conflict" => slot[w][r].state = "captured"
       /\ row' = [row EXCEPT ![r] = [@ EXCEPT !.state = final, !.claim = Null]]
  /\ slot' = [slot EXCEPT ![w][r] = NoSlot]
  /\ UNCHANGED <<age, completed, crashes>>

\* The UPDATE of applyResult throws (SQLITE_BUSY beyond busy_timeout, a full
\* disk): the row stays as it is, claim and all, whatever the handler returned.
FailedWrite(w, r) ==
  /\ WriteErrors
  /\ slot[w][r].phase = "calling"
  /\ \E S \in SUBSET {slot[w][r].state} :
       completed' = [completed EXCEPT ![r] = @ \cup S]
  /\ UNCHANGED <<row, crashes>>

\* The lane rejects, and with it runOnce.  It was the last one at work: the
\* slots that no lane has taken are never looked at again.
WriteThrows(w, r) ==
  /\ FailedWrite(w, r)
  /\ \A q \in Records \ {r} : ~ Busy(w, q)
  /\ slot' = [slot EXCEPT ![w] = NoSlots]
  /\ age' = [age EXCEPT ![w] = 0]

\* The same while other lanes are at work.  Promise.all does not wait for them:
\* the loop goes on to its next runOnce, and the lanes drain what is left of
\* their batch beside it, as the batch of a router v that has none.
WriteThrowsAmong(w, r, v) ==
  /\ FailedWrite(w, r)
  /\ \E q \in Records \ {r} : Busy(w, q)
  /\ v # w /\ Idle(v)
  /\ slot' = [slot EXCEPT ![w] = NoSlots, ![v] = [slot[w] EXCEPT ![r] = NoSlot]]
  /\ age' = [age EXCEPT ![w] = 0, ![v] = age[w]]

\* Router w dies and comes back with an empty memory; its claims stay behind.
Crash(w) ==
  /\ crashes < MaxCrashes
  /\ crashes' = crashes + 1
  /\ slot' = [slot EXCEPT ![w] = NoSlots]
  /\ age' = [age EXCEPT ![w] = 0]
  /\ UNCHANGED <<row, completed>>

\* One unit of time passes.  Under Timely a batch never outlives its claims.
Tick ==
  /\ Timely => \A w \in Routers : Idle(w) \/ age[w] < StaleMs
  /\ row' = [r \in Records |->
       [row[r] EXCEPT !.due   = IF row[r].state \in ActiveStates
                                  THEN Greatest(@ - 1, -Lag) ELSE @,
                      !.claim = IF @ = Null THEN Null ELSE Least(@ + 1, StaleMs + 1)]]
  /\ age' = [w \in Routers |-> IF Idle(w) THEN 0 ELSE Least(age[w] + 1, AgeCap)]
  /\ UNCHANGED <<slot, completed, crashes>>

Result(w, r) == Advance(w, r) \/ Retry(w, r) \/ Terminal(w, r)

Next == \/ Tick
        \/ \E r \in Records : Enqueue(r)
        \/ \E w \in Routers : \/ Claim(w)
                              \/ Crash(w)
                              \/ \E r \in Records : \/ Call(w, r)
                                                    \/ Hang(w, r)
                                                    \/ Result(w, r)
                                                    \/ AfterAdvance(w, r)
                                                    \/ WriteThrows(w, r)
                                                    \/ \E v \in Routers :
                                                         WriteThrowsAmong(w, r, v)

Spec == Init /\ [][Next]_vars

\* The worker loop runs again while its process lives, a call that does not hang
\* is answered, and time passes.  Outages end: a stage that is tried again and
\* again is one day answered with something else than a retry.
Fairness ==
  /\ WF_vars(Tick)
  /\ \A w \in Routers, r \in Records :
       /\ WF_vars(Claim(w)) /\ WF_vars(Call(w, r)) /\ WF_vars(AfterAdvance(w, r))
       /\ WF_vars(Result(w, r)) /\ SF_vars(Advance(w, r) \/ Terminal(w, r))

FairSpec == Spec /\ Fairness

---------------------------------------------------------------------------
(* Properties *)

RowStates == {"absent"} \cup ActiveStates \cup FinalStates

Rows  == [state    : RowStates,
          attempts : 0 .. LastStep,
          due      : {d \in Int : d >= -Lag},
          claim    : -1 .. StaleMs + 1]

Slots == [state : ActiveStates,
          phase : {"none", "queued", "calling", "hung", "after"}]

\* Every row and every in-memory slot has the shape the code gives it.
TypeOK ==
  /\ row \in [Records -> Rows]
  /\ slot \in [Routers -> [Records -> Slots]]
  /\ age \in [Routers -> 0 .. AgeCap]
  /\ completed \in [Records -> SUBSET Stages]
  /\ crashes \in 0 .. MaxCrashes

\* However many routers work on a record at once and however late they write,
\* no stage is skipped: a row is in a state only after the handlers of all the
\* earlier stages have succeeded for it (queue.ts 4-12, applyResult).
RowsInOrder == \A r \in Records : Before(row[r].state) \subseteq completed[r]

\* A stage handler is given a record only after the earlier stages succeeded:
\* the blob is never PUT before its metadata is ingested, and never confirmed
\* before it was PUT.
CallsInOrder ==
  \A w \in Routers, r \in Records :
    Working(w, r) => Before(slot[w][r].state) \subseteq completed[r]

StagesInOrder == RowsInOrder /\ CallsInOrder

\* Two routers never work on the same record at the same time (claim's comment,
\* queue.ts 143-145).
ClaimExclusive ==
  \A r \in Records, v, w \in Routers :
    Working(v, r) /\ Working(w, r) => v = w

\* The snapshot a handler works from is the row as it still is, and the row
\* still bears the claim: nobody else has written it meanwhile.
SnapshotCurrent ==
  \A w \in Routers, r \in Records :
    Working(w, r) => /\ row[r].state = slot[w][r].state
                     /\ row[r].claim = age[w]

\* Every record moves through the lifecycle one stage at a time and stays in
\* its end state (queue.ts 4-17): the outbox implements RecordLifecycle.
Lifecycle == INSTANCE RecordLifecycle
               WITH life <- [r \in Records |-> row[r].state]
LifecycleSpec == Lifecycle!Spec

\* "Mark a terminal failure. No further work attempted." (queue.ts 212): a
\* record in an end state is never given back to a worker.
TerminalIsFinal ==
  [][\A r \in Records : row[r].state \in FinalStates
                          => row'[r].state = row[r].state]_vars

\* How long a record has to wait until it may be claimed, if nobody touches it.
ClaimLeft(r) == IF row[r].claim = Null THEN 0 ELSE StaleMs + 1 - row[r].claim
Wait(r)      == Greatest(row[r].due, ClaimLeft(r))

\* A record that still has stages to go waits for nothing but time: for no longer
\* than the longest backoff or, if a router holds it, than the staleness bound,
\* also when that router has died, hangs or could not write its result; and a
\* record that need not wait is one that claim finds.
WaitIsBounded(longest) ==
  \A r \in Records : row[r].state \in ActiveStates =>
    /\ Wait(r) <= Greatest(longest, StaleMs + 1)
    /\ Wait(r) <= 0 <=> r \in Ready

\* As time passes every wait gets shorter.  Nothing makes one longer but a claim
\* of the very record, when it was ready, and the result of a call for it: other
\* records, crashes and failed writes do not.
NobodyPostpones ==
  [][\A r \in Records :
       row[r].state \in ActiveStates /\ row'[r].state \in ActiveStates =>
         /\ Tick => Wait(r)' <= Greatest(Wait(r) - 1, 0)
         /\ \/ Wait(r)' <= Greatest(Wait(r), 0)
            \/ r \in Ready /\ row'[r].claim = 0
            \/ \E w \in Routers : slot[w][r].phase = "calling" /\ row'[r].claim = Null]_vars

\* A captured record reaches an end state, though routers crash while they
\* hold it, calls fail for a while and more rows wait than a batch takes.
EverySettles ==
  \A r \in Records : row[r].state = "captured" ~> row[r].state \in FinalStates

\* "Worker can stall on a hung HTTP connection; another worker takes the row at
\* the stale-claim cutoff" (wiki/design-notes.md 181-183).
HungRowTakenOver ==
  \A w \in Routers, r \in Records :
    slot[w][r].phase = "hung"
      ~> \/ \E v \in Routers \ {w} : Working(v, r)
         \/ row[r].state \in FinalStates
=============================================================================
