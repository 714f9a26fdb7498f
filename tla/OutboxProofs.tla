---------------------------- MODULE OutboxProofs ----------------------------
(* What holds of the outbox for every set of records and routers, every      *)
(* retry schedule and every staleness bound.                                 *)
EXTENDS Outbox, TLAPS

(* The retry schedule is indexed inside its bounds. *)
LEMMA BackoffInRange ==
  ASSUME NEW n \in 0 .. LastStep
  PROVE  NextBackoff(n) \in Nat
<1>1. Backoff \in Seq(Nat) /\ Len(Backoff) \in Nat /\ Len(Backoff) > 0
  BY OutboxAssumption
<1>2. Least(n, LastStep) + 1 \in 1 .. Len(Backoff)
  BY <1>1 DEF Least, LastStep
<1> QED BY <1>1, <1>2 DEF NextBackoff

(* A due time computed from a natural wait stays above the lag bound. *)
LEMMA DueInRange ==
  ASSUME NEW w \in Routers, NEW n \in Nat, age[w] \in Nat
  PROVE  DueIn(w, n) \in {d \in Int : d >= -Lag}
BY OutboxAssumption DEF DueIn, Greatest

(* A stage's end is a state of the table, behind which lies that stage and no *)
(* more than what lay behind the stage itself.                                *)
LEMMA NextStateTyped ==
  ASSUME NEW s \in ActiveStates
  PROVE  /\ NextStateAfter(s) \in RowStates
         /\ Before(NextStateAfter(s)) \subseteq Before(s) \cup {s}
BY DEF ActiveStates, FinalStates, RowStates, NextStateAfter, Before, Stages

(* What the fields of a row are, and that a row is nothing but its fields.    *)
LEMMA RowFields ==
  ASSUME NEW v \in Rows
  PROVE  /\ v.state \in RowStates
         /\ v.attempts \in 0 .. LastStep
         /\ v.due \in {d \in Int : d >= -Lag}
         /\ v.claim \in -1 .. StaleMs + 1
         /\ v = [state |-> v.state, attempts |-> v.attempts,
                 due |-> v.due, claim |-> v.claim]
BY DEF Rows

(* Fields of the right shape make a row.                                      *)
LEMMA MakeRow ==
  ASSUME NEW s \in RowStates, NEW n \in 0 .. LastStep,
         NEW d \in {d \in Int : d >= -Lag}, NEW c \in -1 .. StaleMs + 1
  PROVE  [state |-> s, attempts |-> n, due |-> d, claim |-> c] \in Rows
BY DEF Rows

(* The UPDATEs of markRetry and markTerminal leave a row in shape. *)
LEMMA RetriedRow ==
  ASSUME NEW v \in Rows, NEW n \in 0 .. LastStep,
         NEW d \in {d \in Int : d >= -Lag}, NEW c \in -1 .. StaleMs + 1
  PROVE  [v EXCEPT !.attempts = n, !.due = d, !.claim = c] \in Rows
BY DEF Rows

(* So does the time that passes.                                              *)
LEMMA AgedRow ==
  ASSUME NEW v \in Rows, NEW d \in {d \in Int : d >= -Lag}, NEW c \in -1 .. StaleMs + 1
  PROVE  [v EXCEPT !.due = d, !.claim = c] \in Rows
BY DEF Rows

(* The same of an UPDATE that ends a record.                                  *)
LEMMA EndedRow ==
  ASSUME NEW v \in Rows, NEW s \in RowStates, NEW c \in -1 .. StaleMs + 1
  PROVE  [v EXCEPT !.state = s, !.claim = c] \in Rows
BY DEF Rows

(* A slot that holds no row has the shape of a slot.                           *)
LEMMA NoSlotTyped == NoSlot \in Slots
BY DEF NoSlot, Slots, ActiveStates

(* Every step of the relay keeps rows, slots and ages in shape. *)
THEOREM TypeCorrect == Spec => []TypeOK
<1>0. LastStep \in Nat /\ StaleMs \in Nat /\ -Lag \in Int /\ -Lag <= 0
      /\ AgeCap \in Nat /\ MaxCrashes \in Nat
  BY OutboxAssumption DEF LastStep
<1>1. Init => TypeOK
  <2> SUFFICES ASSUME Init PROVE TypeOK
    OBVIOUS
  <2>1. Absent \in Rows
    BY <1>0, MakeRow DEF Absent, Null, RowStates
  <2> QED BY <1>0, <2>1, NoSlotTyped DEF Init, TypeOK, NoSlots
<1>2. TypeOK /\ [Next]_vars => TypeOK'
  <2> SUFFICES ASSUME TypeOK, [Next]_vars PROVE TypeOK'
    OBVIOUS
  <2>1. CASE Tick
    <3>1. ASSUME NEW r \in Records PROVE row'[r] \in Rows
      <4> DEFINE d == IF row[r].state \in ActiveStates
                        THEN Greatest(row[r].due - 1, -Lag) ELSE row[r].due
                 c == IF row[r].claim = Null THEN Null
                                             ELSE Least(row[r].claim + 1, StaleMs + 1)
      <4>1. row[r] \in Rows
        BY DEF TypeOK
      <4>2. d \in {x \in Int : x >= -Lag}
        BY <1>0, <4>1, RowFields DEF Greatest
      <4>3. c \in -1 .. StaleMs + 1
        BY <1>0, <4>1, RowFields DEF Least, Null
      <4>4. row'[r] = [row[r] EXCEPT !.due = d, !.claim = c]
        BY <2>1 DEF Tick
      <4> HIDE DEF d, c
      <4> QED BY <4>1, <4>2, <4>3, <4>4, AgedRow
    <3>2. age' \in [Routers -> 0 .. AgeCap]
      <4>1. ASSUME NEW w \in Routers PROVE age[w] \in 0 .. AgeCap
        BY DEF TypeOK
      <4>2. ASSUME NEW w \in Routers PROVE Least(age[w] + 1, AgeCap) \in 0 .. AgeCap
        BY <1>0, <4>1 DEF Least
      <4>3. 0 \in 0 .. AgeCap
        BY <1>0
      <4> DEFINE a(w) == IF Idle(w) THEN 0 ELSE Least(age[w] + 1, AgeCap)
      <4>4. ASSUME NEW w \in Routers PROVE a(w) \in 0 .. AgeCap
        BY <4>2, <4>3
      <4>5. age' = [w \in Routers |-> a(w)]
        BY <2>1 DEF Tick
      <4> HIDE DEF a
      <4> QED BY <4>4, <4>5
    <3>3. row' \in [Records -> Rows]
      BY <2>1, <3>1 DEF Tick
    <3> QED BY <2>1, <3>2, <3>3 DEF TypeOK, Tick
  <2>2. ASSUME NEW r \in Records, Enqueue(r) PROVE TypeOK'
    <3>1. [Absent EXCEPT !.state = "captured"]
            = [state |-> "captured", attempts |-> 0, due |-> 0, claim |-> Null]
      BY DEF Absent
    <3>2. [Absent EXCEPT !.state = "captured"] \in Rows
      BY <1>0, <3>1, MakeRow DEF Null, RowStates, ActiveStates
    <3> QED BY <2>2, <3>2 DEF TypeOK, Enqueue
  <2>3. ASSUME NEW w \in Routers, Claim(w) PROVE TypeOK'
    <3>1. PICK S \in SUBSET Ready :
            /\ row' = [r \in Records |-> IF r \in S THEN [row[r] EXCEPT !.claim = 0]
                                                    ELSE row[r]]
            /\ slot' = [slot EXCEPT ![w] =
                          [r \in Records |-> IF r \in S
                             THEN [state |-> row[r].state, phase |-> "queued"]
                             ELSE NoSlot]]
      BY <2>3 DEF Claim
    <3>2. ASSUME NEW r \in Records PROVE [row[r] EXCEPT !.claim = 0] \in Rows
      <4>1. row[r] \in Rows
        BY DEF TypeOK
      <4>2. [row[r] EXCEPT !.claim = 0]
              = [state |-> row[r].state, attempts |-> row[r].attempts,
                 due |-> row[r].due, claim |-> 0]
        BY <4>1, RowFields
      <4> QED BY <1>0, <4>1, <4>2, RowFields, MakeRow
    <3>3. row' \in [Records -> Rows]
      BY <3>1, <3>2 DEF TypeOK
    <3>4. ASSUME NEW r \in S
          PROVE  [state |-> row[r].state, phase |-> "queued"] \in Slots
      BY DEF Ready, Slots
    <3>5. slot' \in [Routers -> [Records -> Slots]]
      BY <3>1, <3>4, NoSlotTyped DEF TypeOK
    <3> QED BY <1>0, <2>3, <3>3, <3>5 DEF TypeOK, Claim
  <2>4. ASSUME NEW w \in Routers, Crash(w) PROVE TypeOK'
    BY <1>0, <2>4, NoSlotTyped DEF TypeOK, Crash, NoSlots
  <2>5. ASSUME NEW w \in Routers, NEW r \in Records, Call(w, r) \/ Hang(w, r)
        PROVE TypeOK'
    <3>1. ASSUME NEW p \in {"calling", "hung"}
          PROVE  [slot EXCEPT ![w][r].phase = p] \in [Routers -> [Records -> Slots]]
      BY DEF TypeOK, Slots
    <3>2. /\ slot' \in [Routers -> [Records -> Slots]]
          /\ UNCHANGED <<row, age, completed, crashes>>
      BY <2>5, <3>1 DEF Call, Hang
    <3> QED BY <3>2 DEF TypeOK
  <2>6. ASSUME NEW w \in Routers, NEW r \in Records, Advance(w, r)
        PROVE TypeOK'
    <3>1. slot[w][r].state \in ActiveStates
      BY DEF TypeOK, Slots
    <3>2. NextStateAfter(slot[w][r].state) \in RowStates
      BY <3>1, NextStateTyped
    <3>3. DueIn(w, 0) \in {d \in Int : d >= -Lag}
      BY DueInRange DEF TypeOK
    <3> DEFINE new == [state    |-> NextStateAfter(slot[w][r].state),
                       attempts |-> 0,
                       due      |-> DueIn(w, 0),
                       claim    |-> Null]
    <3>4. new \in Rows
      <4>1. 0 \in 0 .. LastStep /\ Null \in -1 .. StaleMs + 1
        BY <1>0 DEF Null
      <4> QED BY <3>2, <3>3, <4>1, MakeRow
    <3>5. row' = [row EXCEPT ![r] = new]
      BY <2>6 DEF Advance
    <3> HIDE DEF new
    <3>6. row' \in [Records -> Rows]
      BY <3>4, <3>5 DEF TypeOK
    <3>7. slot' \in [Routers -> [Records -> Slots]]
      BY <2>6 DEF TypeOK, Advance, Slots
    <3> QED BY <2>6, <3>1, <3>6, <3>7 DEF TypeOK, Advance, Stages
  <2>7. ASSUME NEW w \in Routers, NEW r \in Records, AfterAdvance(w, r)
        PROVE TypeOK'
    BY <2>7, NoSlotTyped DEF TypeOK, AfterAdvance
  <2>8. ASSUME NEW w \in Routers, NEW r \in Records, Retry(w, r)
        PROVE TypeOK'
    <3> DEFINE d == DueIn(w, NextBackoff(row[r].attempts))
               n == Least(row[r].attempts + 1, LastStep)
    <3>0. row[r] \in Rows
      BY DEF TypeOK
    <3>1. NextBackoff(row[r].attempts) \in Nat
      BY <3>0, RowFields, BackoffInRange
    <3>2. d \in {x \in Int : x >= -Lag}
      BY <3>1, DueInRange DEF TypeOK
    <3>3. n \in 0 .. LastStep
      BY <1>0, <3>0, RowFields DEF Least
    <3>4. row' = [row EXCEPT ![r] = [@ EXCEPT !.attempts = n, !.due = d,
                                              !.claim = Null]]
      BY <2>8 DEF Retry
    <3>5. Null \in -1 .. StaleMs + 1
      BY <1>0 DEF Null
    <3> HIDE DEF d, n
    <3>6. [row[r] EXCEPT !.attempts = n, !.due = d, !.claim = Null] \in Rows
      BY <3>0, <3>2, <3>3, <3>5, RetriedRow
    <3>7. row' \in [Records -> Rows]
      BY <3>4, <3>6 DEF TypeOK
    <3> QED BY <2>8, <3>7, NoSlotTyped DEF TypeOK, Retry
  <2>9. ASSUME NEW w \in Routers, NEW r \in Records, Terminal(w, r)
        PROVE TypeOK'
    <3>1. PICK final \in {"conflict", "fatal"} :
            row' = [row EXCEPT ![r] = [@ EXCEPT !.state = final, !.claim = Null]]
      BY <2>9 DEF Terminal
    <3>2. row[r] \in Rows
      BY DEF TypeOK
    <3>3. Null \in -1 .. StaleMs + 1 /\ final \in RowStates
      BY <1>0 DEF Null, RowStates, FinalStates
    <3>4. [row[r] EXCEPT !.state = final, !.claim = Null] \in Rows
      BY <3>2, <3>3, EndedRow
    <3>5. row' \in [Records -> Rows]
      BY <3>1, <3>4 DEF TypeOK
    <3> QED BY <2>9, <3>5, NoSlotTyped DEF TypeOK, Terminal
  <2>10. ASSUME NEW w \in Routers, NEW r \in Records,
                \/ WriteThrows(w, r)
                \/ \E v \in Routers : WriteThrowsAmong(w, r, v)
         PROVE  TypeOK'
    <3>1. completed' \in [Records -> SUBSET Stages] /\ UNCHANGED <<row, crashes>>
      <4>1. PICK S \in SUBSET {slot[w][r].state} :
              completed' = [completed EXCEPT ![r] = @ \cup S]
        BY <2>10 DEF WriteThrows, WriteThrowsAmong, FailedWrite
      <4>2. S \subseteq Stages
        BY DEF TypeOK, Slots, Stages
      <4> QED BY <2>10, <4>1, <4>2
              DEF TypeOK, WriteThrows, WriteThrowsAmong, FailedWrite
    <3>2. NoSlots \in [Records -> Slots]
      BY NoSlotTyped DEF NoSlots
    <3>3. ASSUME NEW v \in Routers, WriteThrowsAmong(w, r, v)
          PROVE  slot' \in [Routers -> [Records -> Slots]] /\ age' \in [Routers -> 0 .. AgeCap]
      <4>1. [slot[w] EXCEPT ![r] = NoSlot] \in [Records -> Slots]
        BY NoSlotTyped DEF TypeOK
      <4>2. slot' \in [Routers -> [Records -> Slots]]
        BY <3>2, <3>3, <4>1 DEF WriteThrowsAmong, TypeOK
      <4>3. age' \in [Routers -> 0 .. AgeCap]
        BY <1>0, <3>3 DEF WriteThrowsAmong, TypeOK
      <4> QED BY <4>2, <4>3
    <3>4. CASE WriteThrows(w, r)
      BY <1>0, <3>1, <3>2, <3>4 DEF WriteThrows, TypeOK
    <3> QED BY <2>10, <3>1, <3>3, <3>4 DEF TypeOK
  <2>11. CASE UNCHANGED vars
    BY <2>11 DEF TypeOK, vars
  <2> QED BY <2>1, <2>2, <2>3, <2>4, <2>5, <2>6, <2>7, <2>8, <2>9, <2>10, <2>11
          DEF Next, Result
<1> QED BY <1>1, <1>2, PTL DEF Spec

---------------------------------------------------------------------------
(* What each write to the table does to the state and the claim of a row;   *)
(* the later proofs look at nothing else of it.                             *)
LEMMA EnqueueEffect ==
  ASSUME TypeOK, NEW r \in Records, Enqueue(r), NEW q \in Records
  PROVE  IF q = r THEN row'[q].state = "captured" /\ row'[q].claim = Null
                  ELSE row'[q] = row[q]
BY DEF Enqueue, TypeOK, Absent

(* claim stamps the rows it returns and copies their state.                   *)
LEMMA ClaimEffect ==
  ASSUME TypeOK, NEW w \in Routers, Claim(w), NEW q \in Records
  PROVE  /\ row'[q].state = row[q].state
         /\ \/ /\ q \in Ready
               /\ row'[q].claim = 0
               /\ slot'[w][q] = [state |-> row[q].state, phase |-> "queued"]
            \/ /\ row'[q].claim = row[q].claim
               /\ slot'[w][q] = NoSlot
         /\ \A v \in Routers \ {w} : slot'[v] = slot[v]
         /\ age'[w] = 0
         /\ \A v \in Routers \ {w} : age'[v] = age[v]
<1>1. PICK S \in SUBSET Ready :
        /\ row' = [r \in Records |-> IF r \in S THEN [row[r] EXCEPT !.claim = 0]
                                                ELSE row[r]]
        /\ slot' = [slot EXCEPT ![w] =
                      [r \in Records |-> IF r \in S
                         THEN [state |-> row[r].state, phase |-> "queued"]
                         ELSE NoSlot]]
  BY DEF Claim
<1>2. row[q] \in Rows
  BY DEF TypeOK
<1>3. age' = [age EXCEPT ![w] = 0]
  BY DEF Claim
<1>4. /\ [row[q] EXCEPT !.claim = 0].state = row[q].state
      /\ [row[q] EXCEPT !.claim = 0].claim = 0
  BY <1>2 DEF Rows
<1>5. row'[q] = IF q \in S THEN [row[q] EXCEPT !.claim = 0] ELSE row[q]
  BY <1>1
<1>6. slot'[w][q] = IF q \in S THEN [state |-> row[q].state, phase |-> "queued"]
                               ELSE NoSlot
  BY <1>1 DEF TypeOK
<1>7. \A v \in Routers \ {w} : slot'[v] = slot[v]
  BY <1>1 DEF TypeOK
<1>8. age'[w] = 0 /\ \A v \in Routers \ {w} : age'[v] = age[v]
  BY <1>3 DEF TypeOK
<1> QED BY <1>4, <1>5, <1>6, <1>7, <1>8

(* advance writes the state that follows the snapshot's and frees the row.    *)
LEMMA AdvanceEffect ==
  ASSUME TypeOK, NEW w \in Routers, NEW r \in Records, Advance(w, r),
         NEW q \in Records
  PROVE  IF q = r THEN /\ row'[q].state = NextStateAfter(slot[w][r].state)
                       /\ row'[q].claim = Null
                  ELSE row'[q] = row[q]
BY DEF Advance, TypeOK

(* markRetry keeps the state and frees the row.                               *)
LEMMA RetryEffect ==
  ASSUME TypeOK, NEW w \in Routers, NEW r \in Records, Retry(w, r),
         NEW q \in Records
  PROVE  IF q = r THEN row'[q].state = row[q].state /\ row'[q].claim = Null
                  ELSE row'[q] = row[q]
<1> DEFINE d == DueIn(w, NextBackoff(row[r].attempts))
           n == Least(row[r].attempts + 1, LastStep)
<1>1. row' = [row EXCEPT ![r] = [@ EXCEPT !.attempts = n, !.due = d, !.claim = Null]]
  BY DEF Retry
<1> HIDE DEF d, n
<1>2. row[r] \in Rows
  BY DEF TypeOK
<1>3. /\ [row[r] EXCEPT !.attempts = n, !.due = d, !.claim = Null].state = row[r].state
      /\ [row[r] EXCEPT !.attempts = n, !.due = d, !.claim = Null].claim = Null
  BY <1>2 DEF Rows
<1> QED BY <1>1, <1>3 DEF TypeOK

(* markTerminal writes an end state and frees the row.                        *)
LEMMA TerminalEffect ==
  ASSUME TypeOK, NEW w \in Routers, NEW r \in Records, Terminal(w, r),
         NEW q \in Records
  PROVE  IF q = r THEN /\ \/ row'[q].state = "fatal"
                          \/ row'[q].state = "conflict" /\ slot[w][r].state = "captured"
                       /\ row'[q].claim = Null
                  ELSE row'[q] = row[q]
<1>1. PICK final \in {"conflict", "fatal"} :
        /\ final = "conflict" => slot[w][r].state = "captured"
        /\ row' = [row EXCEPT ![r] = [@ EXCEPT !.state = final, !.claim = Null]]
  BY DEF Terminal
<1>2. row[r] \in Rows
  BY DEF TypeOK
<1>3. /\ [row[r] EXCEPT !.state = final, !.claim = Null].state = final
      /\ [row[r] EXCEPT !.state = final, !.claim = Null].claim = Null
  BY <1>2 DEF Rows
<1> QED BY <1>1, <1>3 DEF TypeOK

(* Time makes a claim older and changes no state.                             *)
LEMMA TickEffect ==
  ASSUME TypeOK, Tick, NEW q \in Records
  PROVE  /\ row'[q].state = row[q].state
         /\ row'[q].claim = IF row[q].claim = Null THEN Null
                            ELSE Least(row[q].claim + 1, StaleMs + 1)
<1> DEFINE d == IF row[q].state \in ActiveStates
                  THEN Greatest(row[q].due - 1, -Lag) ELSE row[q].due
           c == IF row[q].claim = Null THEN Null
                                       ELSE Least(row[q].claim + 1, StaleMs + 1)
<1>1. row'[q] = [row[q] EXCEPT !.due = d, !.claim = c]
  BY DEF Tick
<1> HIDE DEF d, c
<1>2. row[q] \in Rows
  BY DEF TypeOK
<1>3. [row[q] EXCEPT !.due = d, !.claim = c].state = row[q].state
      /\ [row[q] EXCEPT !.due = d, !.claim = c].claim = c
  BY <1>2 DEF Rows
<1> QED BY <1>1, <1>3 DEF c

(* A lane, a crash or the clock never gives a router a record it did not      *)
(* have, and never changes the snapshot it works from.                        *)
LEMMA LanesKeepSnapshots ==
  ASSUME TypeOK, NEW w \in Routers, NEW r \in Records,
         \/ Call(w, r) \/ Hang(w, r) \/ Result(w, r) \/ AfterAdvance(w, r),
         NEW v \in Routers, NEW q \in Records
  PROVE  Working(v, q)' => Working(v, q) /\ slot'[v][q].state = slot[v][q].state
<1>1. CASE Call(w, r)
  BY <1>1 DEF Call, Working, TypeOK, Slots
<1>2. CASE Hang(w, r)
  BY <1>2 DEF Hang, Working, TypeOK, Slots
<1>3. CASE Advance(w, r)
  BY <1>3 DEF Advance, Working, TypeOK, Slots
<1>4. CASE Retry(w, r) \/ Terminal(w, r) \/ AfterAdvance(w, r)
  <2>1. slot' = [slot EXCEPT ![w][r] = NoSlot]
    BY <1>4 DEF Retry, Terminal, AfterAdvance
  <2> QED BY <2>1 DEF Working, TypeOK, Slots, NoSlot
<1> QED BY <1>1, <1>2, <1>3, <1>4 DEF Result

(* Once its result is written, a router works on the record no longer.        *)
LEMMA ResultEndsWork ==
  ASSUME TypeOK, NEW w \in Routers, NEW r \in Records, Result(w, r)
  PROVE  ~ Working(w, r)' /\ Working(w, r)
<1>1. CASE Advance(w, r)
  BY <1>1 DEF Advance, Working, TypeOK, Slots
<1>2. CASE Retry(w, r) \/ Terminal(w, r)
  BY <1>2 DEF Retry, Terminal, Working, TypeOK, NoSlot
<1> QED BY <1>1, <1>2 DEF Result

(* A crash takes a router's work away and leaves that of the others alone.    *)
LEMMA CrashKeepsSnapshots ==
  ASSUME TypeOK, NEW w \in Routers, Crash(w), NEW v \in Routers, NEW q \in Records
  PROVE  Working(v, q)' => v # w /\ Working(v, q)
                           /\ slot'[v][q] = slot[v][q] /\ age'[v] = age[v]
BY DEF Crash, Working, TypeOK, NoSlots, NoSlot

(* A result that cannot be written leaves the table alone and takes back no   *)
(* completed stage.  Whoever works on a record afterwards goes on with work    *)
(* that was under way before, and two of them with that of two.               *)
LEMMA FailedWriteKeeps ==
  ASSUME TypeOK, NEW w \in Routers, NEW r \in Records,
         WriteThrows(w, r) \/ \E v \in Routers : WriteThrowsAmong(w, r, v)
  PROVE  /\ row' = row
         /\ \A q \in Records : completed[q] \subseteq completed'[q]
         /\ \A v \in Routers, q \in Records :
              Working(v, q)' => \E y \in Routers : /\ Working(y, q)
                                                   /\ slot'[v][q] = slot[y][q]
                                                   /\ age'[v] = age[y]
         /\ \A v, x \in Routers, q \in Records :
              Working(v, q)' /\ Working(x, q)' /\ v # x =>
                \E y, z \in Routers : y # z /\ Working(y, q) /\ Working(z, q)
<1>1. row' = row /\ \A q \in Records : completed[q] \subseteq completed'[q]
  BY DEF WriteThrows, WriteThrowsAmong, FailedWrite, TypeOK
<1>2. CASE WriteThrows(w, r)
  <2>1. ASSUME NEW v \in Routers, NEW q \in Records, Working(v, q)'
        PROVE  Working(v, q) /\ slot'[v][q] = slot[v][q] /\ age'[v] = age[v]
    BY <1>2, <2>1 DEF WriteThrows, Working, TypeOK, NoSlots, NoSlot
  <2> QED BY <1>1, <2>1
<1>3. ASSUME NEW u \in Routers, WriteThrowsAmong(w, r, u)
      PROVE  /\ \A v \in Routers, q \in Records :
                  Working(v, q)' => \E y \in Routers : /\ Working(y, q)
                                                       /\ slot'[v][q] = slot[y][q]
                                                       /\ age'[v] = age[y]
             /\ \A v, x \in Routers, q \in Records :
                  Working(v, q)' /\ Working(x, q)' /\ v # x =>
                    \E y, z \in Routers : y # z /\ Working(y, q) /\ Working(z, q)
  <2> DEFINE Source(v) == IF v = u THEN w ELSE v
  <2>1. /\ u # w
        /\ slot'[w] = NoSlots
        /\ slot'[u] = [slot[w] EXCEPT ![r] = NoSlot] /\ age'[u] = age[w]
        /\ \A y \in Routers \ {u, w} : slot'[y] = slot[y] /\ age'[y] = age[y]
    BY <1>3 DEF WriteThrowsAmong, TypeOK
  <2>2. \A q \in Records : ~ Working(w, q)'
    BY <2>1 DEF Working, NoSlots, NoSlot
  <2>3. ASSUME NEW v \in Routers, NEW q \in Records, Working(v, q)'
        PROVE  /\ v # w
               /\ Source(v) \in Routers /\ Working(Source(v), q)
               /\ slot'[v][q] = slot[Source(v)][q] /\ age'[v] = age[Source(v)]
    <3>1. v # w
      BY <2>2, <2>3
    <3>2. CASE v = u
      <4>1. slot'[u][q] = IF q = r THEN NoSlot ELSE slot[w][q]
        BY <2>1 DEF TypeOK
      <4>2. q # r
        BY <2>3, <3>2, <4>1 DEF Working, NoSlot
      <4> QED BY <2>1, <2>3, <3>1, <3>2, <4>1, <4>2 DEF Working
    <3>3. CASE v # u
      BY <2>1, <2>3, <3>1, <3>3 DEF Working
    <3> QED BY <3>1, <3>2, <3>3
  <2>4. \A v, x \in Routers : v # w /\ x # w /\ v # x => Source(v) # Source(x)
    OBVIOUS
  <2> HIDE DEF Source
  <2> QED BY <2>3, <2>4
<1> QED BY <1>1, <1>2, <1>3

---------------------------------------------------------------------------
(* No stage is ever skipped, with any number of routers working on the same  *)
(* record and results written back arbitrarily late: a row, and every copy   *)
(* of it a router works from, is in a state only after the handlers of all   *)
(* earlier stages succeeded.  The copies are needed for the induction:       *)
(* applyResult derives the new state from its copy and not from the row.     *)
THEOREM NoStageSkipped == Spec => []StagesInOrder
<1>1. Init => StagesInOrder
  BY DEF Init, StagesInOrder, RowsInOrder, CallsInOrder, Working, Absent,
         NoSlots, NoSlot, Before
<1>2. TypeOK /\ TypeOK' /\ StagesInOrder /\ [Next]_vars => StagesInOrder'
  <2> SUFFICES ASSUME TypeOK, TypeOK', StagesInOrder, [Next]_vars
               PROVE  StagesInOrder'
    OBVIOUS
  <2>0. /\ \A q \in Records : Before(row[q].state) \subseteq completed[q]
        /\ \A v \in Routers, q \in Records :
             Working(v, q) => Before(slot[v][q].state) \subseteq completed[q]
    BY DEF StagesInOrder, RowsInOrder, CallsInOrder
  <2>1. SUFFICES
          /\ \A q \in Records : Before(row'[q].state) \subseteq completed'[q]
          /\ \A v \in Routers, q \in Records :
               Working(v, q)' => Before(slot'[v][q].state) \subseteq completed'[q]
    BY DEF StagesInOrder, RowsInOrder, CallsInOrder, Working, Before
  <2>2. CASE Tick
    <3>1. slot' = slot /\ completed' = completed
      BY <2>2 DEF Tick
    <3> QED BY <2>0, <2>2, <3>1, TickEffect DEF Working
  <2>3. ASSUME NEW r \in Records, Enqueue(r)
        PROVE  /\ \A q \in Records : Before(row'[q].state) \subseteq completed'[q]
               /\ \A v \in Routers, q \in Records :
                    Working(v, q)' => Before(slot'[v][q].state) \subseteq completed'[q]
    <3>1. slot' = slot /\ completed' = completed
      BY <2>3 DEF Enqueue
    <3>2. Before("captured") = {}
      BY DEF Before
    <3> QED BY <2>0, <2>3, <3>1, <3>2, EnqueueEffect DEF Working
  <2>4. ASSUME NEW w \in Routers, Claim(w)
        PROVE  /\ \A q \in Records : Before(row'[q].state) \subseteq completed'[q]
               /\ \A v \in Routers, q \in Records :
                    Working(v, q)' => Before(slot'[v][q].state) \subseteq completed'[q]
    <3>1. completed' = completed
      BY <2>4 DEF Claim
    <3>2. ASSUME NEW q \in Records, Working(w, q)'
          PROVE  slot'[w][q].state = row[q].state
      <4>1. slot'[w][q] # NoSlot
        BY <3>2 DEF Working, NoSlot
      <4>2. slot'[w][q] = [state |-> row[q].state, phase |-> "queued"]
        BY <2>4, <4>1, ClaimEffect
      <4> QED BY <4>2
    <3>3. ASSUME NEW v \in Routers \ {w}, NEW q \in Records, Working(v, q)'
          PROVE  Working(v, q) /\ slot'[v][q] = slot[v][q]
      BY <2>4, <3>3, ClaimEffect DEF Working
    <3>4. \A q \in Records : row'[q].state = row[q].state
      BY <2>4, ClaimEffect
    <3>5. ASSUME NEW v \in Routers, NEW q \in Records, Working(v, q)'
          PROVE  Before(slot'[v][q].state) \subseteq completed'[q]
      <4>1. CASE v = w
        BY <2>0, <3>1, <3>2, <3>5, <4>1
      <4>2. CASE v # w
        BY <2>0, <3>1, <3>3, <3>5, <4>2
      <4> QED BY <4>1, <4>2
    <3> QED BY <2>0, <3>1, <3>4, <3>5
  <2>5. ASSUME NEW w \in Routers, Crash(w)
        PROVE  /\ \A q \in Records : Before(row'[q].state) \subseteq completed'[q]
               /\ \A v \in Routers, q \in Records :
                    Working(v, q)' => Before(slot'[v][q].state) \subseteq completed'[q]
    <3>1. row' = row /\ completed' = completed
      BY <2>5 DEF Crash
    <3> QED BY <2>0, <2>5, <3>1, CrashKeepsSnapshots
  <2>6. ASSUME NEW w \in Routers, NEW r \in Records,
               Call(w, r) \/ Hang(w, r) \/ AfterAdvance(w, r)
        PROVE  /\ \A q \in Records : Before(row'[q].state) \subseteq completed'[q]
               /\ \A v \in Routers, q \in Records :
                    Working(v, q)' => Before(slot'[v][q].state) \subseteq completed'[q]
    <3>1. row' = row /\ completed' = completed
      BY <2>6 DEF Call, Hang, AfterAdvance
    <3> QED BY <2>0, <2>6, <3>1, LanesKeepSnapshots
  <2>7. ASSUME NEW w \in Routers, NEW r \in Records, Result(w, r)
        PROVE  /\ \A q \in Records : Before(row'[q].state) \subseteq completed'[q]
               /\ \A v \in Routers, q \in Records :
                    Working(v, q)' => Before(slot'[v][q].state) \subseteq completed'[q]
    <3>1. \A q \in Records : completed[q] \subseteq completed'[q]
      BY <2>7 DEF Result, Advance, Retry, Terminal, TypeOK
    <3>2. \A q \in Records : Before(row'[q].state) \subseteq completed'[q]
      <4>1. CASE Advance(w, r)
        <5>1. slot[w][r].state \in ActiveStates
          BY DEF TypeOK, Slots
        <5>2. slot[w][r].state \in completed'[r]
          BY <4>1 DEF Advance, TypeOK
        <5>3. Before(slot[w][r].state) \subseteq completed[r]
          BY <2>0, <2>7, ResultEndsWork
        <5>4. Before(NextStateAfter(slot[w][r].state)) \subseteq completed'[r]
          BY <3>1, <5>1, <5>2, <5>3, NextStateTyped
        <5> QED BY <2>0, <3>1, <4>1, <5>4, AdvanceEffect
      <4>2. CASE Retry(w, r)
        BY <2>0, <3>1, <4>2, RetryEffect
      <4>3. CASE Terminal(w, r)
        <5>1. Before("fatal") = {} /\ Before("conflict") = {}
          BY DEF Before
        <5> QED BY <2>0, <3>1, <4>3, <5>1, TerminalEffect
      <4> QED BY <2>7, <4>1, <4>2, <4>3 DEF Result
    <3>3. \A v \in Routers, q \in Records :
            Working(v, q)' => Before(slot'[v][q].state) \subseteq completed'[q]
      BY <2>0, <2>7, <3>1, LanesKeepSnapshots
    <3> QED BY <3>2, <3>3
  <2>8. ASSUME NEW w \in Routers, NEW r \in Records,
               WriteThrows(w, r) \/ \E v \in Routers : WriteThrowsAmong(w, r, v)
        PROVE  /\ \A q \in Records : Before(row'[q].state) \subseteq completed'[q]
               /\ \A v \in Routers, q \in Records :
                    Working(v, q)' => Before(slot'[v][q].state) \subseteq completed'[q]
    <3>1. /\ row' = row
          /\ \A q \in Records : completed[q] \subseteq completed'[q]
          /\ \A v \in Routers, q \in Records :
               Working(v, q)' => \E y \in Routers : /\ Working(y, q)
                                                    /\ slot'[v][q] = slot[y][q]
      BY <2>8, FailedWriteKeeps
    <3> QED BY <2>0, <3>1
  <2>9. CASE UNCHANGED vars
    BY <2>0, <2>9 DEF vars, Working
  <2> QED BY <2>2, <2>3, <2>4, <2>5, <2>6, <2>7, <2>8, <2>9 DEF Next
<1> QED BY <1>1, <1>2, TypeCorrect, PTL DEF Spec

---------------------------------------------------------------------------
(* What a claim is worth while batches end in time.  The inductive invariant *)
(* ties each working copy to the claim in the table: the row still bears it, *)
(* it is as old as the router's runOnce and not stale, and the row has not   *)
(* been written since.  So a row somebody works on is never Ready, and the   *)
(* blind UPDATE of a result finds the row the result was computed from.      *)
HoldInv == /\ ClaimExclusive
           /\ SnapshotCurrent
           /\ \A w \in Routers, r \in Records : Working(w, r) => age[w] <= StaleMs

(* A row under a fresh claim is not ready: no claim returns it again.         *)
LEMMA HeldNotReady ==
  ASSUME TypeOK, HoldInv, NEW w \in Routers, NEW r \in Records, Working(w, r)
  PROVE  r \notin Ready
<1>1. row[r].claim = age[w] /\ age[w] <= StaleMs /\ age[w] \in Nat
  BY DEF HoldInv, SnapshotCurrent, TypeOK
<1> QED BY <1>1, OutboxAssumption DEF Ready, Null

(* A router whose batch is over works on no record.                           *)
LEMMA IdleNotWorking ==
  ASSUME NEW w \in Routers, NEW r \in Records, Idle(w)
  PROVE  ~ Working(w, r)
BY DEF Idle, Working

(* HoldInv spelled out for one record, the form the steps below prove it in. *)
Held(r) == \A v, w \in Routers :
             Working(v, r) /\ Working(w, r) =>
               /\ v = w
               /\ row[r].state = slot[w][r].state
               /\ row[r].claim = age[w]
               /\ age[w] <= StaleMs

(* The invariant, record by record.                                           *)
LEMMA HoldInvByRecord == HoldInv <=> \A r \in Records : Held(r)
BY DEF HoldInv, Held, ClaimExclusive, SnapshotCurrent

(* Every step preserves it, given that batches end in time.                   *)
LEMMA HoldInvInductive ==
  ASSUME Timely, TypeOK, TypeOK', HoldInv, [Next]_vars
  PROVE  HoldInv'
<1>1. \A q \in Records : Held(q)
  BY HoldInvByRecord
<1>2. SUFFICES ASSUME NEW q \in Records,
                      NEW u \in Routers, NEW v \in Routers,
                      Working(u, q)', Working(v, q)'
               PROVE  /\ u = v
                      /\ row'[q].state = slot'[v][q].state
                      /\ row'[q].claim = age'[v]
                      /\ age'[v] <= StaleMs
  BY HoldInvByRecord DEF HoldInv, ClaimExclusive, SnapshotCurrent, Working
<1>3. ASSUME Working(u, q), Working(v, q)
      PROVE  /\ u = v
             /\ row[q].state = slot[v][q].state
             /\ row[q].claim = age[v]
             /\ age[v] <= StaleMs
  BY <1>1, <1>3 DEF Held
<1>4. age[v] \in Nat /\ StaleMs \in Nat /\ AgeCap \in Nat /\ StaleMs < AgeCap
  BY OutboxAssumption DEF TypeOK
<1>5. CASE Tick
  <2>1. slot' = slot
    BY <1>5 DEF Tick
  <2>2. Working(u, q) /\ Working(v, q)
    BY <1>2, <2>1 DEF Working
  <2>3. ~ Idle(v)
    BY <2>2, IdleNotWorking
  <2>4. age[v] < StaleMs
    BY <1>5, <2>3 DEF Tick
  <2>5. age'[v] = age[v] + 1
    <3>1. age'[v] = Least(age[v] + 1, AgeCap)
      BY <1>5, <2>3 DEF Tick
    <3> QED BY <1>4, <2>4, <3>1 DEF Least
  <2>6. row'[q].claim = row[q].claim + 1
    <3>1. row[q].claim = age[v]
      BY <1>3, <2>2
    <3> QED BY <1>4, <1>5, <2>4, <3>1, TickEffect DEF Least, Null
  <2>7. row'[q].state = row[q].state
    BY <1>5, TickEffect
  <2> QED BY <1>3, <1>4, <2>1, <2>2, <2>4, <2>5, <2>6, <2>7
<1>6. ASSUME NEW r \in Records, Enqueue(r)
      PROVE  /\ u = v
             /\ row'[q].state = slot'[v][q].state
             /\ row'[q].claim = age'[v]
             /\ age'[v] <= StaleMs
  <2>1. slot' = slot /\ age' = age /\ row[r].state = "absent"
    BY <1>6 DEF Enqueue
  <2>2. Working(u, q) /\ Working(v, q)
    BY <1>2, <2>1 DEF Working
  <2>3. slot[v][q].state # "absent"
    BY DEF TypeOK, Slots, ActiveStates
  <2>4. q # r
    BY <1>3, <2>1, <2>2, <2>3
  <2>5. row'[q] = row[q]
    BY <1>6, <2>4, EnqueueEffect
  <2> QED BY <1>3, <2>1, <2>2, <2>5
<1>7. ASSUME NEW w \in Routers, Claim(w)
      PROVE  /\ u = v
             /\ row'[q].state = slot'[v][q].state
             /\ row'[q].claim = age'[v]
             /\ age'[v] <= StaleMs
  <2>1. ASSUME NEW x \in Routers, x # w, Working(x, q)'
        PROVE  /\ Working(x, q) /\ q \notin Ready
               /\ slot'[x] = slot[x] /\ age'[x] = age[x]
    <3>1. slot'[x] = slot[x] /\ age'[x] = age[x]
      BY <1>7, <2>1, ClaimEffect
    <3>2. Working(x, q)
      BY <2>1, <3>1 DEF Working
    <3> QED BY <3>1, <3>2, HeldNotReady
  <2>2. ASSUME Working(w, q)'
        PROVE  /\ q \in Ready
               /\ row'[q].claim = 0 /\ age'[w] = 0
               /\ slot'[w][q].state = row'[q].state
    <3>1. slot'[w][q] # NoSlot
      BY <2>2 DEF Working, NoSlot
    <3>2. /\ q \in Ready /\ row'[q].claim = 0 /\ age'[w] = 0
          /\ slot'[w][q] = [state |-> row[q].state, phase |-> "queued"]
          /\ row'[q].state = row[q].state
      BY <1>7, <3>1, ClaimEffect
    <3> QED BY <3>2
  <2>3. CASE v = w
    <3>1. u = v
      BY <1>2, <2>1, <2>2, <2>3
    <3> QED BY <1>2, <1>4, <2>2, <2>3, <3>1
  <2>4. CASE v # w
    <3>1. /\ Working(v, q) /\ q \notin Ready
          /\ slot'[v] = slot[v] /\ age'[v] = age[v]
      BY <1>2, <2>1, <2>4
    <3>2. u # w
      BY <1>2, <2>2, <3>1
    <3>3. Working(u, q)
      BY <1>2, <2>1, <3>2
    <3>4. row'[q].state = row[q].state /\ row'[q].claim = row[q].claim
      BY <1>7, <3>1, ClaimEffect
    <3> QED BY <1>3, <3>1, <3>3, <3>4
  <2> QED BY <2>3, <2>4
<1>8. ASSUME NEW w \in Routers, Crash(w)
      PROVE  /\ u = v
             /\ row'[q].state = slot'[v][q].state
             /\ row'[q].claim = age'[v]
             /\ age'[v] <= StaleMs
  <2>1. row' = row
    BY <1>8 DEF Crash
  <2> QED BY <1>2, <1>3, <1>8, <2>1, CrashKeepsSnapshots
<1>9. ASSUME NEW w \in Routers, NEW r \in Records,
             Call(w, r) \/ Hang(w, r) \/ AfterAdvance(w, r)
      PROVE  /\ u = v
             /\ row'[q].state = slot'[v][q].state
             /\ row'[q].claim = age'[v]
             /\ age'[v] <= StaleMs
  <2>1. row' = row /\ age' = age
    BY <1>9 DEF Call, Hang, AfterAdvance
  <2> QED BY <1>2, <1>3, <1>9, <2>1, LanesKeepSnapshots
<1>10. ASSUME NEW w \in Routers, NEW r \in Records, Result(w, r)
       PROVE  /\ u = v
              /\ row'[q].state = slot'[v][q].state
              /\ row'[q].claim = age'[v]
              /\ age'[v] <= StaleMs
  <2>1. age' = age
    BY <1>10 DEF Result, Advance, Retry, Terminal
  <2>2. /\ Working(u, q) /\ Working(v, q)
        /\ slot'[v][q].state = slot[v][q].state
    BY <1>2, <1>10, LanesKeepSnapshots
  <2>3. Working(w, r) /\ ~ Working(w, r)'
    BY <1>10, ResultEndsWork
  <2>4. q # r
    <3> SUFFICES ASSUME q = r PROVE FALSE
      OBVIOUS
    <3>1. v = w
      BY <1>1, <2>2, <2>3 DEF Held
    <3> QED BY <1>2, <2>3, <3>1
  <2>5. row'[q] = row[q]
    BY <1>10, <2>4, AdvanceEffect, RetryEffect, TerminalEffect DEF Result
  <2> QED BY <1>3, <2>1, <2>2, <2>5
<1>11. ASSUME NEW w \in Routers, NEW r \in Records,
              WriteThrows(w, r) \/ \E x \in Routers : WriteThrowsAmong(w, r, x)
       PROVE  /\ u = v
              /\ row'[q].state = slot'[v][q].state
              /\ row'[q].claim = age'[v]
              /\ age'[v] <= StaleMs
  <2>1. PICK y \in Routers : /\ Working(y, q)
                             /\ slot'[v][q] = slot[y][q]
                             /\ age'[v] = age[y]
    BY <1>2, <1>11, FailedWriteKeeps
  <2>2. row[q].state = slot[y][q].state /\ row[q].claim = age[y] /\ age[y] <= StaleMs
    BY <1>1, <2>1 DEF Held
  <2>3. u = v
    <3>1. \A x, z \in Routers : Working(x, q) /\ Working(z, q) => x = z
      BY <1>1 DEF Held
    <3> QED BY <1>2, <1>11, <3>1, FailedWriteKeeps
  <2>4. row' = row
    BY <1>11, FailedWriteKeeps
  <2> QED BY <2>1, <2>2, <2>3, <2>4
<1>12. CASE UNCHANGED vars
  BY <1>2, <1>3, <1>12 DEF vars, Working
<1> QED BY <1>5, <1>6, <1>7, <1>8, <1>9, <1>10, <1>11, <1>12 DEF Next

(* While batches end in time, whoever works on a record is the only one, holds *)
(* it under a fresh claim and knows its row as it is.                         *)
THEOREM HoldInvHolds == ASSUME Timely PROVE Spec => []HoldInv
<1>1. Init => HoldInv
  BY DEF Init, HoldInv, ClaimExclusive, SnapshotCurrent, Working, NoSlots, NoSlot
<1>2. TypeOK /\ TypeOK' /\ HoldInv /\ [Next]_vars => HoldInv'
  BY HoldInvInductive
<1> QED BY <1>1, <1>2, TypeCorrect, PTL DEF Spec

(* While batches end in time, two routers never work on the same record: the *)
(* single UPDATE of claim is enough (queue.ts 143-145).                      *)
THEOREM ClaimsExclude == ASSUME Timely PROVE Spec => []ClaimExclusive
BY HoldInvHolds, PTL DEF HoldInv

(* While batches end in time, a handler works from the row as it still is.   *)
THEOREM SnapshotsCurrent == ASSUME Timely PROVE Spec => []SnapshotCurrent
BY HoldInvHolds, PTL DEF HoldInv

---------------------------------------------------------------------------
(* While batches end in time, the outbox implements RecordLifecycle: every   *)
(* record takes the stages one by one, and no end state is ever left.        *)
THEOREM OutboxImplementsLifecycle == ASSUME Timely PROVE Spec => LifecycleSpec
<1> DEFINE life == [r \in Records |-> row[r].state]
<1>1. Init => Lifecycle!Init
  BY DEF Init, Absent, Lifecycle!Init
<1>2. TypeOK /\ TypeOK' /\ HoldInv /\ [Next]_vars => [Lifecycle!Next]_life
  <2> SUFFICES ASSUME TypeOK, TypeOK', HoldInv, [Next]_vars
               PROVE  Lifecycle!Next \/ life' = life
    OBVIOUS
  <2>1. CASE Tick
    <3>1. \A q \in Records : row'[q].state = row[q].state
      BY <2>1, TickEffect
    <3> QED BY <3>1
  <2>2. ASSUME NEW r \in Records, Enqueue(r) PROVE Lifecycle!Capture(r)
    <3>1. row[r].state = "absent"
      BY <2>2 DEF Enqueue
    <3>2. \A q \in Records : row'[q].state = IF q = r THEN "captured" ELSE row[q].state
      BY <2>2, EnqueueEffect
    <3>3. life' = [life EXCEPT ![r] = "captured"]
      BY <3>2
    <3> QED BY <3>1, <3>3 DEF Lifecycle!Capture
  <2>3. ASSUME NEW w \in Routers, Claim(w) PROVE life' = life
    <3>1. \A q \in Records : row'[q].state = row[q].state
      BY <2>3, ClaimEffect
    <3> QED BY <3>1
  <2>4. ASSUME NEW w \in Routers, NEW r \in Records,
               \/ Crash(w) \/ Call(w, r) \/ Hang(w, r) \/ AfterAdvance(w, r)
               \/ WriteThrows(w, r) \/ \E v \in Routers : WriteThrowsAmong(w, r, v)
        PROVE  life' = life
    BY <2>4 DEF Crash, Call, Hang, AfterAdvance,
                WriteThrows, WriteThrowsAmong, FailedWrite
  <2>5. ASSUME NEW w \in Routers, NEW r \in Records, Result(w, r)
        PROVE  Lifecycle!Next \/ life' = life
    <3>1. row[r].state = slot[w][r].state /\ row[r].state \in ActiveStates
      <4>1. Working(w, r)
        BY <2>5, ResultEndsWork
      <4>2. row[r].state = slot[w][r].state
        BY <4>1 DEF HoldInv, SnapshotCurrent
      <4> QED BY <4>2 DEF TypeOK, Slots
    <3>2. CASE Advance(w, r)
      <4>1. \A q \in Records : row'[q].state = IF q = r THEN NextStateAfter(row[r].state)
                                                        ELSE row[q].state
        BY <3>1, <3>2, AdvanceEffect
      <4>2. NextStateAfter(row[r].state) = Lifecycle!NextStateAfter(life[r])
        BY DEF NextStateAfter, Lifecycle!NextStateAfter
      <4>3. life' = [life EXCEPT ![r] = Lifecycle!NextStateAfter(life[r])]
        BY <4>1, <4>2
      <4>4. Lifecycle!Advance(r)
        BY <3>1, <4>3 DEF Lifecycle!Advance, Lifecycle!Active, ActiveStates
      <4> QED BY <4>4 DEF Lifecycle!Next
    <3>3. CASE Retry(w, r)
      <4>1. \A q \in Records : row'[q].state = row[q].state
        BY <3>3, RetryEffect
      <4> QED BY <4>1
    <3>4. CASE Terminal(w, r)
      <4>1. \A q \in Records : q # r => row'[q].state = row[q].state
        BY <3>4, TerminalEffect
      <4>2. \/ row'[r].state = "fatal"
            \/ row'[r].state = "conflict" /\ row[r].state = "captured"
        BY <3>1, <3>4, TerminalEffect
      <4>3. life' = [life EXCEPT ![r] = row'[r].state]
        BY <4>1
      <4>4. Lifecycle!Fail(r) \/ Lifecycle!Conflict(r)
        BY <3>1, <4>2, <4>3
        DEF Lifecycle!Fail, Lifecycle!Conflict, Lifecycle!Active, ActiveStates
      <4> QED BY <4>4 DEF Lifecycle!Next
    <3> QED BY <2>5, <3>2, <3>3, <3>4 DEF Result
  <2>6. CASE UNCHANGED vars
    BY <2>6 DEF vars
  <2> QED BY <2>1, <2>2, <2>3, <2>4, <2>5, <2>6 DEF Next, Lifecycle!Next
<1> QED BY <1>1, <1>2, TypeCorrect, HoldInvHolds, PTL
        DEF Spec, LifecycleSpec, Lifecycle!Spec

---------------------------------------------------------------------------
(* Waiting.  What any step does to the due time and the claim of a row.         *)

Aged(r) ==
  /\ row'[r].state = row[r].state
  /\ row'[r].due = IF row[r].state \in ActiveStates THEN Greatest(row[r].due - 1, -Lag)
                                                   ELSE row[r].due
  /\ row'[r].claim = IF row[r].claim = Null THEN Null ELSE Least(row[r].claim + 1, StaleMs + 1)

Claimed(r) ==
  /\ r \in Ready
  /\ row'[r].due = row[r].due /\ row'[r].claim = 0

Resolved(r) ==
  \E w \in Routers :
    /\ slot[w][r].phase = "calling" /\ row'[r].claim = Null
    /\ \/ row'[r].due = row[r].due
       \/ row'[r].due = DueIn(w, 0)
       \/ row'[r].due = DueIn(w, NextBackoff(row[r].attempts))

Enqueued(r) ==
  /\ row[r].state = "absent"
  /\ row'[r].due = 0 /\ row'[r].claim = Null

LEMMA TickAges ==
  ASSUME TypeOK, Tick, NEW r \in Records
  PROVE  Aged(r)
<1> DEFINE d == IF row[r].state \in ActiveStates
                  THEN Greatest(row[r].due - 1, -Lag) ELSE row[r].due
           c == IF row[r].claim = Null THEN Null
                                       ELSE Least(row[r].claim + 1, StaleMs + 1)
<1>1. row'[r] = [row[r] EXCEPT !.due = d, !.claim = c] /\ row[r] \in Rows
  BY DEF Tick, TypeOK
<1> HIDE DEF d, c
<1>2. row'[r].state = row[r].state /\ row'[r].due = d /\ row'[r].claim = c
  BY <1>1 DEF Rows
<1> QED BY <1>2 DEF Aged, d, c

LEMMA RowMoves ==
  ASSUME TypeOK, [Next]_vars, NEW r \in Records
  PROVE  row'[r] = row[r] \/ (Tick /\ Aged(r)) \/ Claimed(r) \/ Resolved(r) \/ Enqueued(r)
<1> DEFINE Goal == \/ row'[r] = row[r] \/ (Tick /\ Aged(r)) \/ Claimed(r) \/ Resolved(r)
                   \/ Enqueued(r)
<1>0. row[r] \in Rows /\ row \in [Records -> Rows]
  BY DEF TypeOK
<1>1. CASE Tick
  BY <1>1, TickAges
<1>2. ASSUME NEW q \in Records, Enqueue(q) PROVE Goal
  <2>1. row' = [row EXCEPT ![q] = [Absent EXCEPT !.state = "captured"]] /\ row[q].state = "absent"
    BY <1>2 DEF Enqueue
  <2> QED BY <1>0, <2>1 DEF Absent, Enqueued
<1>3. ASSUME NEW w \in Routers, Claim(w) PROVE Goal
  <2>1. PICK S \in SUBSET Ready :
          row' = [q \in Records |-> IF q \in S THEN [row[q] EXCEPT !.claim = 0] ELSE row[q]]
    BY <1>3 DEF Claim
  <2>2. CASE r \in S
    <3>1. row'[r] = [row[r] EXCEPT !.claim = 0]
      BY <2>1, <2>2
    <3>2. row'[r].due = row[r].due /\ row'[r].claim = 0
      BY <1>0, <3>1 DEF Rows
    <3> QED BY <2>2, <3>2 DEF Claimed
  <2>3. CASE r \notin S
    BY <2>1, <2>3
  <2> QED BY <2>2, <2>3
<1>4. ASSUME NEW w \in Routers, NEW q \in Records, Result(w, q) PROVE Goal
  <2>1. slot[w][q].phase = "calling"
    BY <1>4 DEF Result, Advance, Retry, Terminal
  <2>2. CASE Advance(w, q)
    <3>1. row' = [row EXCEPT ![q] = [state |-> NextStateAfter(slot[w][q].state), attempts |-> 0,
                                     due |-> DueIn(w, 0), claim |-> Null]]
      BY <2>2 DEF Advance
    <3>2. CASE q = r
      <4>1. row'[r].claim = Null /\ row'[r].due = DueIn(w, 0)
        BY <1>0, <3>1, <3>2
      <4> QED BY <2>1, <3>2, <4>1 DEF Resolved
    <3>3. CASE q # r
      BY <1>0, <3>1, <3>3
    <3> QED BY <3>2, <3>3
  <2>3. CASE Retry(w, q)
    <3> DEFINE d == DueIn(w, NextBackoff(row[q].attempts))
               n == Least(row[q].attempts + 1, LastStep)
    <3>1. row' = [row EXCEPT ![q] = [@ EXCEPT !.attempts = n, !.due = d, !.claim = Null]]
      BY <2>3 DEF Retry
    <3> HIDE DEF d, n
    <3>2. CASE q = r
      <4>1. row'[r] = [row[r] EXCEPT !.attempts = n, !.due = d, !.claim = Null]
        BY <1>0, <3>1, <3>2
      <4>2. row'[r].claim = Null /\ row'[r].due = d
        BY <1>0, <4>1 DEF Rows
      <4> QED BY <2>1, <3>2, <4>2 DEF Resolved, d
    <3>3. CASE q # r
      BY <1>0, <3>1, <3>3
    <3> QED BY <3>2, <3>3
  <2>4. CASE Terminal(w, q)
    <3>1. PICK final \in {"conflict", "fatal"} :
            row' = [row EXCEPT ![q] = [@ EXCEPT !.state = final, !.claim = Null]]
      BY <2>4 DEF Terminal
    <3>2. CASE q = r
      <4>1. row'[r] = [row[r] EXCEPT !.state = final, !.claim = Null]
        BY <1>0, <3>1, <3>2
      <4>2. row'[r].claim = Null /\ row'[r].due = row[r].due
        BY <1>0, <4>1 DEF Rows
      <4> QED BY <2>1, <3>2, <4>2 DEF Resolved
    <3>3. CASE q # r
      BY <1>0, <3>1, <3>3
    <3> QED BY <3>2, <3>3
  <2> QED BY <1>4, <2>2, <2>3, <2>4 DEF Result
<1>5. ASSUME NEW w \in Routers, NEW q \in Records,
             \/ Crash(w) \/ Call(w, q) \/ Hang(w, q) \/ AfterAdvance(w, q)
             \/ WriteThrows(w, q) \/ \E v \in Routers : WriteThrowsAmong(w, q, v)
      PROVE  row' = row
  BY <1>5 DEF Crash, Call, Hang, AfterAdvance, WriteThrows, WriteThrowsAmong, FailedWrite
<1>6. CASE UNCHANGED vars
  BY <1>6 DEF vars
<1> QED BY <1>1, <1>2, <1>3, <1>4, <1>5, <1>6 DEF Next

LEMMA WaitTyped ==
  ASSUME TypeOK, NEW r \in Records
  PROVE  /\ row[r].due \in Int /\ row[r].due >= -Lag /\ Lag \in Nat /\ StaleMs \in Nat
         /\ row[r].claim \in -1 .. StaleMs + 1 /\ row[r].claim \in Int
         /\ \A w \in Routers : age[w] \in Nat
         /\ NextBackoff(row[r].attempts) \in Nat /\ row[r].attempts \in 0 .. LastStep
<1>1. row[r] \in Rows /\ Lag \in Nat /\ StaleMs \in Nat /\ AgeCap \in Nat
  BY OutboxAssumption DEF TypeOK
<1>2. row[r].attempts \in 0 .. LastStep
  BY <1>1, RowFields
<1>3. \A w \in Routers : age[w] \in Nat
  BY <1>1 DEF TypeOK
<1> QED BY <1>1, <1>2, <1>3, RowFields, BackoffInRange

(* No due time is further away than the longest backoff.                       *)
DueBound(longest) == \A r \in Records : row[r].due <= longest

LEMMA DueBounded ==
  ASSUME NEW longest \in Nat, \A n \in 0 .. LastStep : NextBackoff(n) <= longest,
         TypeOK, DueBound(longest), [Next]_vars
  PROVE  DueBound(longest)'
<1> SUFFICES ASSUME NEW r \in Records PROVE row'[r].due <= longest
  BY DEF DueBound
<1>0. row[r].due <= longest
  BY DEF DueBound
<1>1. CASE Aged(r)
  BY <1>0, <1>1, WaitTyped DEF Aged, Greatest
<1>2. CASE Resolved(r)
  <2>1. PICK w \in Routers :
          \/ row'[r].due = row[r].due
          \/ row'[r].due = DueIn(w, 0)
          \/ row'[r].due = DueIn(w, NextBackoff(row[r].attempts))
    BY <1>2 DEF Resolved
  <2>2. ASSUME NEW n \in Nat, n <= longest PROVE DueIn(w, n) <= longest
    BY <2>2, WaitTyped DEF DueIn, Greatest
  <2> QED BY <1>0, <2>1, <2>2, WaitTyped
<1>3. CASE row'[r] = row[r] \/ Claimed(r) \/ Enqueued(r)
  BY <1>0, <1>3 DEF Claimed, Enqueued
<1> QED BY <1>1, <1>2, <1>3, RowMoves

(* A record waits for time alone, and not for long: no crash, no hung call and   *)
(* no failed write leaves a row that claim does not find in the end.            *)
THEOREM WaitsAreBounded ==
  ASSUME NEW longest \in Nat, \A n \in 0 .. LastStep : NextBackoff(n) <= longest
  PROVE  Spec => []WaitIsBounded(longest)
<1>1. Init => DueBound(longest)
  BY DEF Init, Absent, DueBound
<1>2. TypeOK /\ DueBound(longest) /\ [Next]_vars => DueBound(longest)'
  BY DueBounded
<1>3. ASSUME TypeOK, DueBound(longest) PROVE WaitIsBounded(longest)
  <2> SUFFICES ASSUME NEW r \in Records, row[r].state \in ActiveStates
               PROVE  /\ Wait(r) <= Greatest(longest, StaleMs + 1)
                      /\ Wait(r) <= 0 <=> r \in Ready
    BY DEF WaitIsBounded
  <2>1. row[r].due <= longest
    BY <1>3 DEF DueBound
  <2>2. ClaimLeft(r) \in 0 .. StaleMs + 1
        /\ (ClaimLeft(r) = 0 <=> row[r].claim = Null \/ row[r].claim > StaleMs)
    <3>1. row[r].claim \in -1 .. StaleMs + 1 /\ StaleMs \in Nat
      BY <1>3, WaitTyped
    <3>2. ClaimLeft(r) = IF row[r].claim = -1 THEN 0 ELSE StaleMs + 1 - row[r].claim
      BY DEF ClaimLeft, Null
    <3> QED BY <3>1, <3>2 DEF Null
  <2>3. Wait(r) <= Greatest(longest, StaleMs + 1)
    BY <1>3, <2>1, <2>2, WaitTyped DEF Wait, Greatest
  <2>4. Wait(r) <= 0 <=> row[r].due <= 0 /\ ClaimLeft(r) = 0
    BY <1>3, <2>2, WaitTyped DEF Wait, Greatest
  <2> QED BY <2>2, <2>3, <2>4 DEF Ready
<1> QED BY <1>1, <1>2, <1>3, TypeCorrect, PTL DEF Spec

(* Only a router that takes a ready record, or answers for it, makes it wait      *)
(* longer; every unit of time makes the wait shorter.                            *)
THEOREM WaitsEnd == Spec => NobodyPostpones
<1>1. TypeOK /\ TypeOK' /\ [Next]_vars =>
        [\A r \in Records :
           row[r].state \in ActiveStates /\ row'[r].state \in ActiveStates =>
             /\ Tick => Wait(r)' <= Greatest(Wait(r) - 1, 0)
             /\ \/ Wait(r)' <= Greatest(Wait(r), 0)
                \/ r \in Ready /\ row'[r].claim = 0
                \/ \E w \in Routers : slot[w][r].phase = "calling" /\ row'[r].claim = Null]_vars
  <2> SUFFICES ASSUME TypeOK, TypeOK', Next, NEW r \in Records,
                      row[r].state \in ActiveStates, row'[r].state \in ActiveStates
               PROVE  /\ Tick => Wait(r)' <= Greatest(Wait(r) - 1, 0)
                      /\ \/ Wait(r)' <= Greatest(Wait(r), 0)
                         \/ r \in Ready /\ row'[r].claim = 0
                         \/ \E w \in Routers :
                              slot[w][r].phase = "calling" /\ row'[r].claim = Null
    OBVIOUS
  <2>0. /\ row[r].due \in Int /\ row[r].due >= -Lag /\ Lag \in Nat /\ StaleMs \in Nat
        /\ row[r].claim \in -1 .. StaleMs + 1
    BY WaitTyped
  <2>1. ASSUME Aged(r) PROVE Wait(r)' <= Greatest(Wait(r) - 1, 0)
    <3>1. /\ row'[r].due = Greatest(row[r].due - 1, -Lag)
          /\ row'[r].claim = IF row[r].claim = -1 THEN -1
                                                  ELSE Least(row[r].claim + 1, StaleMs + 1)
      BY <2>1 DEF Aged, Null
    <3>2. /\ ClaimLeft(r) = IF row[r].claim = -1 THEN 0 ELSE StaleMs + 1 - row[r].claim
          /\ ClaimLeft(r)' = IF row'[r].claim = -1 THEN 0 ELSE StaleMs + 1 - row'[r].claim
      BY DEF ClaimLeft, Null
    <3>3. ClaimLeft(r) \in Int /\ ClaimLeft(r)' \in Int /\ ClaimLeft(r)' <= Greatest(ClaimLeft(r) - 1, 0)
      BY <2>0, <3>1, <3>2 DEF Least, Greatest
    <3>4. row'[r].due \in Int /\ row'[r].due <= Greatest(row[r].due - 1, 0)
      BY <2>0, <3>1 DEF Greatest
    <3> QED BY <2>0, <3>3, <3>4 DEF Wait, Greatest
  <2>2. Tick => Aged(r)
    <3>1. ASSUME Tick PROVE Aged(r)
      BY <3>1, TickAges
    <3> QED BY <3>1
  <2>3. Wait(r) \in Int
    BY <2>0 DEF Wait, ClaimLeft, Greatest, Null
  <2>4. CASE Aged(r)
    <3>1. Wait(r)' <= Greatest(Wait(r) - 1, 0)
      BY <2>1, <2>4
    <3>2. row'[r].due \in Int /\ ClaimLeft(r)' \in Int
      BY <2>0, <2>4 DEF Aged, Greatest, Least, ClaimLeft, Null
    <3>3. Wait(r)' \in Int
      BY <3>2 DEF Wait, Greatest
    <3> QED BY <2>3, <3>1, <3>3 DEF Greatest
  <2>5. CASE row'[r] = row[r] /\ ~ Tick
    <3>1. Wait(r)' = Wait(r)
      BY <2>5 DEF Wait, ClaimLeft
    <3> QED BY <2>3, <2>5, <3>1 DEF Greatest
  <2>6. CASE ~ Tick /\ (Claimed(r) \/ Resolved(r))
    BY <2>6 DEF Claimed, Resolved
  <2>7. ~ Enqueued(r)
    BY DEF Enqueued, ActiveStates
  <2> QED BY <2>2, <2>4, <2>5, <2>6, <2>7, RowMoves
<1> QED BY <1>1, TypeCorrect, PTL DEF Spec, NobodyPostpones
=============================================================================
