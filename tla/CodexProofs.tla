----------------------------- MODULE CodexProofs -----------------------------
(* What holds of the refresh of the codex credential for any number of         *)
(* requests and routers, as long as nobody is longer than StaleMs under its    *)
(* lock: what a death ends, what a lost answer ends, and what a login ends.    *)
EXTENDS CodexAuth, TLAPS

(* The steps of a refresh at which a token has been read under the lock. *)
Using == {"call", "landed", "rejected", "set", "recheck", "del"}

TypeInv == /\ TypeOK
           /\ \A q \in Requests : at[q] \in Using => used[q] # 0
           /\ login.step = "storing" => login.token # 0

LEMMA TypeInit == Init => TypeInv
BY CodexAssumption DEF Init, TypeInv, TypeOK, NoLock, NoLogin, Steps, Using

(* A mishap is counted with its kind, and never taken back.                   *)
LEMMA MishapCounts ==
  ASSUME TypeInv, NEW k \in MishapKinds, Mishap(k)
  PROVE  /\ mishaps' \in [MishapKinds -> 0 .. MaxMishaps]
         /\ mishaps'[k] # 0
         /\ \A j \in MishapKinds : mishaps'[j] = 0 => mishaps[j] = 0
<1>1. /\ mishaps["death"] \in Nat /\ mishaps["loss"] \in Nat /\ mishaps["login"] \in Nat
      /\ mishaps["death"] + mishaps["loss"] + mishaps["login"] < MaxMishaps
  BY CodexAssumption DEF TypeInv, TypeOK, MishapKinds, Mishap, Mishaps
<1>2. mishaps[k] + 1 \in 0 .. MaxMishaps
  BY <1>1, CodexAssumption DEF MishapKinds
<1>3. mishaps' = [mishaps EXCEPT ![k] = mishaps[k] + 1]
  BY DEF Mishap
<1> QED BY <1>2, <1>3 DEF TypeInv, TypeOK

(* A step of one request. *)
LEMMA AtOne ==
  ASSUME TypeInv, NEW q \in Requests, NEW s \in Steps, Goto(q, s)
  PROVE  /\ at' \in [Requests -> Steps]
         /\ \A r \in Requests : at'[r] = IF r = q THEN s ELSE at[r]
BY DEF TypeInv, TypeOK, Goto

LEMMA TypeNext == TypeInv /\ [Next]_vars => TypeInv'
<1> SUFFICES ASSUME TypeInv, [Next]_vars PROVE TypeInv'
  OBVIOUS
<1> USE CodexAssumption
<1>t. /\ TypeOK
      /\ \A q \in Requests : at[q] \in Using => used[q] # 0
      /\ login.step = "storing" => login.token # 0
  BY DEF TypeInv
<1>steps. Critical \subseteq Steps /\ Using \subseteq Critical
  BY DEF Steps, Critical, Using
<1>1. CASE Expire \/ Withdraw \/ Login \/ Tick \/ UNCHANGED vars
  <2>1. CASE Expire
    BY <2>1, <1>t DEF Expire, server, TypeInv, TypeOK, NoCred
  <2>2. CASE Withdraw
    BY <2>2, <1>t DEF Withdraw, TypeInv, TypeOK
  <2>3. CASE Login
    <3>1. CASE StartLogin \/ LoginFails
      BY <3>1, <1>t DEF StartLogin, LoginFails, NoLogin, server, TypeInv, TypeOK
    <3>2. CASE Exchange
      <4>1. issued' \in 1 .. MaxToken /\ issued' # 0
        BY <3>2, <1>t DEF Exchange, TypeOK
      <4>2. /\ login' \in [step : {"none", "polling", "storing"}, token : 0 .. MaxToken]
            /\ login'.token # 0 /\ valid' \subseteq 1 .. MaxToken
        BY <3>2, <4>1, <1>t DEF Exchange, TypeOK
      <4> QED BY <3>2, <4>1, <4>2, <1>t DEF Exchange, TypeInv, TypeOK
    <3>3. CASE StoreLogin
      <4>1. login.token \in 1 .. MaxToken
        BY <3>3, <1>t DEF StoreLogin, TypeOK
      <4>2. cred' \in [refresh : 1 .. MaxToken, fresh : BOOLEAN]
        BY <3>3, <4>1 DEF StoreLogin
      <4> QED BY <3>3, <4>2, <1>t, MishapCounts DEF StoreLogin, MishapKinds, NoLogin, server, TypeInv, TypeOK
    <3> QED BY <2>3, <3>1, <3>2, <3>3 DEF Login
  <2>4. CASE Tick
    BY <2>4, <1>t DEF Tick, server, TypeInv, TypeOK
  <2>5. CASE UNCHANGED vars
    BY <2>5, <1>t DEF vars, server, TypeInv, TypeOK
  <2> QED BY <1>1, <2>1, <2>2, <2>3, <2>4, <2>5
<1>2. ASSUME NEW p \in Processes, Crash(p) PROVE TypeInv'
  <2>1. at' \in [Requests -> Steps] /\ used' \in [Requests -> 0 .. MaxToken]
    BY <1>2, <1>t DEF Crash, TypeOK, Steps
  <2>2. \A q \in Requests : at'[q] \in Using => used'[q] # 0
    BY <1>2, <1>t DEF Crash, Using
  <2> QED BY <2>1, <2>2, <1>2, <1>t, MishapCounts DEF Crash, MishapKinds, server, TypeInv, TypeOK
<1>3. ASSUME NEW q \in Requests,
             \/ ReadCached(q) \/ StartRefresh(q) \/ JoinRefresh(q) \/ Acquire(q)
             \/ CallFails(q) \/ AnswerLost(q) \/ DropCredential(q)
      PROVE  TypeInv'
  <2>1. PICK s \in Steps \ Using : Goto(q, s)
    BY <1>3 DEF ReadCached, StartRefresh, JoinRefresh, Acquire, CreateLock, LockExists, StatLock,
       StealLock, CallFails, AnswerLost, DropCredential, Steps, Critical, Using
  <2>2. /\ at' \in [Requests -> Steps]
        /\ \A r \in Requests : at'[r] \in Using => at[r] \in Using
    BY <2>1, <1>t, AtOne DEF TypeInv
  <2>3. /\ cred' \in {cred, NoCred} /\ lock' \in {lock, NoLock, [age |-> 0, by |-> q]}
        /\ gate' \in {gate, [gate EXCEPT ![ProcessOf[q]] = q]}
        /\ UNCHANGED <<used, server, login>> /\ mishaps' \in [MishapKinds -> 0 .. MaxMishaps]
    BY <1>3, <1>t, MishapCounts DEF ReadCached, StartRefresh, JoinRefresh, Acquire, CreateLock,
       LockExists, StatLock, StealLock, CallFails, AnswerLost, DropCredential, MishapKinds, TypeOK
  <2>4. lock' \in [age : 0 .. StaleMs + 1, by : Requests \cup {Free}]
    BY <2>3, <1>t DEF TypeOK, NoLock
  <2> QED BY <2>2, <2>3, <2>4, <1>t DEF server, TypeInv, TypeOK
<1>4. ASSUME NEW q \in Requests,
             \/ Reread(q) \/ ServerRotates(q) \/ ServerKeeps(q) \/ ServerRejects(q)
             \/ AnswerArrives(q) \/ Recheck(q)
      PROVE  TypeInv'
  <2>1. PICK s \in Steps : Goto(q, s)
    BY <1>4 DEF Reread, ServerRotates, ServerKeeps, ServerRejects, AnswerArrives, Recheck,
       Steps, Critical
  <2>2. /\ at' \in [Requests -> Steps]
        /\ \A r \in Requests : at'[r] = IF r = q THEN s ELSE at[r]
    BY <2>1, <1>t, AtOne DEF TypeInv
  <2>3. UNCHANGED <<cred, lock, gate, mishaps, login>>
    BY <1>4 DEF Reread, ServerRotates, ServerKeeps, ServerRejects, AnswerArrives, Recheck
  <2>4. /\ used' \in [Requests -> 0 .. MaxToken]
        /\ \A r \in Requests \ {q} : used'[r] = used[r]
        /\ s \in Using => used'[q] # 0
    <3>1. CASE Reread(q)
      BY <3>1, <2>1, <2>2, <1>t DEF Reread, Goto, TypeOK, Using
    <3>2. CASE ServerRotates(q)
      BY <3>2, <1>t DEF ServerRotates, TypeOK
    <3>3. CASE ServerKeeps(q) \/ ServerRejects(q) \/ AnswerArrives(q) \/ Recheck(q)
      BY <3>3, <1>t DEF ServerKeeps, ServerRejects, AnswerArrives, Recheck, TypeOK, Using
    <3> QED BY <1>4, <3>1, <3>2, <3>3
  <2>5. valid' \subseteq 1 .. MaxToken /\ revoked' \subseteq 1 .. MaxToken /\ issued' \in 1 .. MaxToken
    <3>1. CASE ServerRotates(q)
      <4>1. issued' = issued + 1 /\ issued' \in 1 .. MaxToken /\ UNCHANGED revoked
        BY <3>1, <1>t DEF ServerRotates, TypeOK
      <4>2. valid' \subseteq valid \cup {issued'}
        BY <3>1 DEF ServerRotates
      <4> QED BY <4>1, <4>2, <1>t DEF TypeOK
    <3>2. CASE UNCHANGED server
      BY <3>2, <1>t DEF server, TypeOK
    <3> QED BY <1>4, <3>1, <3>2 DEF Reread, ServerKeeps, ServerRejects, AnswerArrives, Recheck
  <2>6. \A r \in Requests : at'[r] \in Using => used'[r] # 0
    BY <2>2, <2>4, <1>t
  <2> QED BY <2>2, <2>3, <2>4, <2>5, <2>6, <1>t DEF TypeInv, TypeOK
<1>5. ASSUME NEW q \in Requests, SetCredential(q) PROVE TypeInv'
  <2>1. /\ at' \in [Requests -> Steps]
        /\ \A r \in Requests : at'[r] \in Using => at[r] \in Using
    BY <1>5, <1>t, AtOne DEF SetCredential, TypeInv, Steps, Critical, Using
  <2>2. used[q] \in 1 .. MaxToken
    BY <1>5, <1>t DEF SetCredential, Using, TypeOK
  <2>3. cred' \in [refresh : 1 .. MaxToken, fresh : BOOLEAN]
    BY <1>5, <2>2 DEF SetCredential
  <2> QED BY <2>1, <2>3, <1>5, <1>t DEF SetCredential, server, TypeInv, TypeOK
<1>6. ASSUME NEW q \in Requests, Release(q) PROVE TypeInv'
  <2>1. at' \in [Requests -> Steps] /\ used' \in [Requests -> 0 .. MaxToken]
    BY <1>6, <1>t DEF Release, TypeOK, Steps
  <2>2. \A r \in Requests : at'[r] \in Using => used'[r] # 0
    BY <1>6, <1>t DEF Release, Using, TypeOK
  <2> QED BY <2>1, <2>2, <1>6, <1>t DEF Release, NoLock, server, TypeInv, TypeOK
<1> QED BY <1>1, <1>2, <1>3, <1>4, <1>5, <1>6 DEF Next, Refresh

(* The credential, the lock and every request have the shape the code gives   *)
(* them.                                                                     *)
THEOREM CodexTypeCorrect == Spec => []TypeOK
<1>1. TypeInv => TypeOK
  BY DEF TypeInv
<1> QED BY TypeInit, TypeNext, <1>1, PTL DEF Spec

---------------------------------------------------------------------------
(* The lock.  Its file's creator is the one request under the lock, which is   *)
(* not there for longer than StaleMs; nobody ever finds the file stale.        *)
Hold == /\ \A q \in Requests : at[q] \in Critical => lock.by = q /\ lock.age <= StaleMs
        /\ Held => lock.by \in Requests /\ at[lock.by] \in Critical
        /\ \A q \in Requests : at[q] # "steal"

HoldInv == TypeInv /\ (mishaps["death"] = 0 => Hold)

(* What is no mishap leaves their counts alone.                               *)
LEMMA MishapsStay ==
  TypeInv /\ [Next]_vars => \A k \in MishapKinds : mishaps'[k] = 0 => mishaps[k] = 0
<1> SUFFICES ASSUME TypeInv, [Next]_vars
             PROVE  UNCHANGED mishaps \/ \E k \in MishapKinds : Mishap(k)
  BY MishapCounts
<1> QED
  BY DEF Next, Refresh, Acquire, vars, server, Expire, Withdraw, Login, StartLogin, Exchange,
     LoginFails, StoreLogin, Tick, Crash, ReadCached, StartRefresh, JoinRefresh, CreateLock,
     LockExists, StatLock, StealLock, Reread, ServerRotates, ServerKeeps, ServerRejects, CallFails,
     AnswerArrives, AnswerLost, SetCredential, Recheck, DropCredential, Release, MishapKinds

(* A request that stays on its side of the lock leaves Hold alone.             *)
LEMMA StayOnSide ==
  ASSUME TypeInv, Hold, NEW q \in Requests, NEW s \in Steps \ {"steal"}, Goto(q, s),
         s \in Critical <=> at[q] \in Critical, UNCHANGED lock
  PROVE  Hold'
<1>1. \A r \in Requests : at'[r] = IF r = q THEN s ELSE at[r]
  BY AtOne
<1> QED BY <1>1 DEF Hold, Held, NoLock

LEMMA HoldNext ==
  ASSUME Timely, TypeInv, mishaps'["death"] = 0, Hold, [Next]_vars
  PROVE  Hold'
<1> USE CodexAssumption
<1>steps. Critical \subseteq Steps \ {"steal"}
  BY DEF Steps, Critical
<1>t. TypeOK
  BY DEF TypeInv
<1>1. CASE Expire \/ Withdraw \/ Login \/ UNCHANGED vars
  <2>1. UNCHANGED <<at, lock>>
    BY <1>1 DEF Expire, Withdraw, Login, StartLogin, Exchange, LoginFails, StoreLogin, vars
  <2> QED BY <2>1 DEF Hold, Held
<1>2. CASE Tick
  <2>1. lock.by \in Requests /\ at[lock.by] \in Critical /\ lock.age < StaleMs
    BY <1>2 DEF Tick, Hold
  <2>2. lock' = [age |-> lock.age + 1, by |-> lock.by] /\ UNCHANGED at
    BY <1>2 DEF Tick
  <2>3. lock'.by = lock.by /\ lock'.age <= StaleMs
    BY <2>1, <2>2, <1>t DEF TypeOK
  <2> QED BY <2>1, <2>2, <2>3 DEF Hold, Held
<1>3. CASE \E p \in Processes : Crash(p)
  BY <1>3, MishapCounts DEF Crash, MishapKinds
<1>4. ASSUME NEW q \in Requests, CreateLock(q) PROVE Hold'
  <2>1. \A r \in Requests : at[r] \notin Critical
    BY <1>4 DEF CreateLock, Hold, Held, NoLock
  <2>2. \A r \in Requests : at'[r] = IF r = q THEN "reread" ELSE at[r]
    BY <1>4, AtOne, <1>steps DEF CreateLock, Critical
  <2> QED BY <1>4, <2>1, <2>2 DEF CreateLock, Hold, Held, NoLock, Critical
<1>5. ASSUME NEW q \in Requests,
             ReadCached(q) \/ StartRefresh(q) \/ JoinRefresh(q) \/ LockExists(q) \/ StatLock(q)
      PROVE  Hold'
  <2>1. ~ LockIsStale
    BY <1>t DEF LockIsStale, Hold, TypeOK
  <2>2. PICK s \in {"stale", "open", "joined", "stat"} : Goto(q, s)
    BY <1>5, <2>1 DEF ReadCached, StartRefresh, JoinRefresh, LockExists, StatLock
  <2>3. at[q] \notin Critical /\ UNCHANGED lock
    BY <1>5 DEF ReadCached, StartRefresh, JoinRefresh, LockExists, StatLock, Critical
  <2> QED BY <2>2, <2>3, StayOnSide DEF Steps, Critical
<1>6. ASSUME NEW q \in Requests, StealLock(q) PROVE Hold'
  BY <1>6 DEF StealLock, Hold
<1>7. ASSUME NEW q \in Requests,
             \/ Reread(q) \/ ServerRotates(q) \/ ServerKeeps(q) \/ ServerRejects(q) \/ CallFails(q)
             \/ AnswerArrives(q) \/ AnswerLost(q) \/ SetCredential(q) \/ Recheck(q)
             \/ DropCredential(q)
      PROVE  Hold'
  <2>1. PICK s \in Critical : Goto(q, s)
    BY <1>7 DEF Reread, ServerRotates, ServerKeeps, ServerRejects, CallFails, AnswerArrives,
       AnswerLost, SetCredential, Recheck, DropCredential, Critical
  <2>2. at[q] \in Critical /\ UNCHANGED lock
    BY <1>7 DEF Reread, ServerRotates, ServerKeeps, ServerRejects, CallFails, AnswerArrives,
       AnswerLost, SetCredential, Recheck, DropCredential, Critical
  <2> QED BY <2>1, <2>2, <1>steps, StayOnSide
<1>8. ASSUME NEW q \in Requests, Release(q) PROVE Hold'
  <2>1. \A r \in Requests : at[r] \in Critical => r = q
    BY <1>8 DEF Release, Hold, Critical
  <2>2. \A r \in Requests : at'[r] \in {"idle", at[r]} /\ at'[q] = "idle"
    BY <1>8 DEF Release
  <2>3. lock' = NoLock
    BY <1>8 DEF Release
  <2> QED BY <2>1, <2>2, <2>3 DEF Hold, Held, Critical
<1> QED BY <1>1, <1>2, <1>3, <1>4, <1>5, <1>6, <1>7, <1>8 DEF Next, Acquire, Refresh

LEMMA HoldInductive ==
  ASSUME Timely
  PROVE  /\ Init => HoldInv
         /\ HoldInv /\ [Next]_vars => HoldInv'
<1>1. Init => Hold
  BY CodexAssumption DEF Init, Hold, Held, NoLock, Critical
<1>2. HoldInv /\ [Next]_vars => HoldInv'
  BY TypeNext, MishapsStay, HoldNext DEF HoldInv, MishapKinds
<1> QED BY <1>1, <1>2, TypeInit DEF HoldInv

(* "only one refreshes at a time" (codex.ts 213-214): until a router dies, at   *)
(* most one request of all routers is inside the critical section, if nobody   *)
(* is there for longer than lockStaleMs, whatever answers are lost and          *)
(* whatever logins are stored meanwhile.                                      *)
THEOREM CodexLockExclusive ==
  ASSUME Timely
  PROVE  Spec => []LockExclusive
<1>1. HoldInv => LockExclusive
  BY DEF HoldInv, Hold, LockExclusive
<1> QED BY HoldInductive, <1>1, PTL DEF Spec

---------------------------------------------------------------------------
(* Every token that anybody holds has been issued.                            *)
Known == /\ cred.refresh <= issued /\ login.token <= issued
         /\ \A q \in Requests : used[q] <= issued

LEMMA KnownNext == TypeInv /\ Known /\ [Next]_vars => Known'
<1> SUFFICES ASSUME TypeInv, Known, [Next]_vars PROVE Known'
  OBVIOUS
<1> USE CodexAssumption
<1>t. /\ TypeOK /\ issued \in Nat /\ cred.refresh \in Nat /\ login.token \in Nat
      /\ \A q \in Requests : used[q] \in Nat
  BY DEF TypeInv, TypeOK, NoCred
<1>1. CASE UNCHANGED <<cred, login, used, issued>>
  BY <1>1 DEF Known
<1>2. CASE Expire \/ \E q \in Requests : DropCredential(q)
  BY <1>2, <1>t DEF Expire, DropCredential, NoCred, server, Known
<1>3. CASE StartLogin \/ LoginFails \/ StoreLogin
  BY <1>3, <1>t DEF StartLogin, LoginFails, StoreLogin, NoLogin, server, Known
<1>4. CASE Exchange
  BY <1>4, <1>t DEF Exchange, Known
<1>5. ASSUME NEW q \in Requests, SetCredential(q) PROVE Known'
  BY <1>5, <1>t DEF SetCredential, server, Known
<1>6. ASSUME NEW q \in Requests, Reread(q) \/ ServerRotates(q) \/ Release(q) PROVE Known'
  <2>1. issued <= issued' /\ issued' \in Nat /\ UNCHANGED <<cred, login>>
    BY <1>6, <1>t DEF Reread, ServerRotates, Release, server
  <2>2. \A r \in Requests : used'[r] \in {used[r], cred.refresh, issued', 0}
    BY <1>6, <1>t DEF Reread, ServerRotates, Release, TypeOK
  <2> QED BY <2>1, <2>2, <1>t DEF Known
<1>7. ASSUME NEW p \in Processes, Crash(p) PROVE Known'
  BY <1>7, <1>t DEF Crash, server, Known
<1> QED
  BY <1>1, <1>2, <1>3, <1>4, <1>5, <1>6, <1>7
  DEF Next, Refresh, Acquire, vars, server, Withdraw, Login, Tick, ReadCached, StartRefresh,
      JoinRefresh, CreateLock, LockExists, StatLock, StealLock, ServerKeeps, ServerRejects,
      CallFails, AnswerArrives, AnswerLost, Recheck

---------------------------------------------------------------------------
(* The credential.  The token of the request under the lock is spent by nobody *)
(* else; between its rotation and its set the stored one may be spent; a login *)
(* brings a token that nobody has.                                            *)
Answered == {"landed", "set"}
Refused == {"rejected", "recheck", "del"}

Good == valid \cup revoked

Kept == /\ \A q \in Requests : at[q] \in Answered \cup {"call"} => used[q] \in Good
        /\ \A q \in Requests : at[q] \in Refused => used[q] \in revoked
        /\ cred # NoCred /\ (\A q \in Requests : at[q] \notin Answered) => cred.refresh \in Good

Brought == login.step = "storing" =>
             /\ login.token \in Good
             /\ login.token # cred.refresh
             /\ \A q \in Requests : login.token # used[q]

(* Without a login, the token at work is the stored one until it is answered.   *)
Same == \A q \in Requests :
          at[q] \in Refused \cup {"call"} => cred # NoCred /\ used[q] = cred.refresh

CredInv == /\ HoldInv /\ Known /\ Brought
           /\ NothingLost => Kept
           /\ mishaps["death"] = 0 /\ mishaps["login"] = 0 => Same

LEMMA BroughtNext == TypeInv /\ Known /\ Brought /\ [Next]_vars => Brought'
<1> SUFFICES ASSUME TypeInv, Known, Brought, [Next]_vars, login'.step = "storing"
             PROVE  /\ login'.token \in Good' /\ login'.token # cred'.refresh
                    /\ \A q \in Requests : login'.token # used'[q]
  BY DEF Brought
<1> USE CodexAssumption
<1>t. /\ TypeOK /\ issued \in Nat /\ cred.refresh \in Nat
      /\ login.token \in Nat /\ (login.step = "storing" => login.token # 0)
      /\ \A q \in Requests : used[q] \in Nat
  BY DEF TypeInv, TypeOK, NoCred
<1>1. CASE UNCHANGED <<cred, login, used, server>>
  BY <1>1 DEF Brought, Good, server
<1>2. CASE Withdraw
  BY <1>2 DEF Withdraw, Brought, Good
<1>3. CASE Expire \/ \E q \in Requests : SetCredential(q) \/ DropCredential(q)
  <2>1. UNCHANGED <<login, used, server>>
    BY <1>3 DEF Expire, SetCredential, DropCredential
  <2>2. cred'.refresh \in {cred.refresh, 0} \cup {used[q] : q \in Requests}
    BY <1>3 DEF Expire, SetCredential, DropCredential, NoCred
  <2> QED BY <2>1, <2>2, <1>t DEF Brought, Good, server
<1>4. CASE StartLogin \/ LoginFails \/ StoreLogin
  BY <1>4 DEF StartLogin, LoginFails, StoreLogin, NoLogin
<1>5. CASE Exchange
  <2>1. /\ login'.token = issued + 1 /\ issued + 1 \in valid' /\ UNCHANGED <<cred, used>>
    BY <1>5 DEF Exchange
  <2> QED BY <2>1, <1>t DEF Known, Good
<1>6. ASSUME NEW q \in Requests, Reread(q) \/ Release(q) PROVE Brought'
  <2>1. UNCHANGED <<login, cred, server>>
    BY <1>6 DEF Reread, Release
  <2>2. \A r \in Requests : used'[r] \in {used[r], cred.refresh, 0}
    BY <1>6, <1>t DEF Reread, Release, TypeOK
  <2> QED BY <2>1, <2>2, <1>t DEF Brought, Good, server
<1>7. ASSUME NEW q \in Requests, ServerRotates(q) PROVE Brought'
  <2>1. UNCHANGED <<login, cred, revoked>> /\ valid \ {used[q]} \subseteq valid'
    BY <1>7 DEF ServerRotates
  <2>2. \A r \in Requests : used'[r] \in {used[r], issued + 1}
    BY <1>7, <1>t DEF ServerRotates, TypeOK
  <2> QED BY <2>1, <2>2, <1>t DEF Brought, Known, Good
<1>8. ASSUME NEW p \in Processes, Crash(p) PROVE Brought'
  <2>1. UNCHANGED <<login, cred, server>> /\ \A r \in Requests : used'[r] \in {used[r], 0}
    BY <1>8 DEF Crash
  <2> QED BY <2>1, <1>t DEF Brought, Good, server
<1> QED
  BY <1>1, <1>2, <1>3, <1>4, <1>5, <1>6, <1>7, <1>8
  DEF Brought, Next, Refresh, Acquire, vars, Login, Tick, ReadCached, StartRefresh, JoinRefresh,
      CreateLock, LockExists, StatLock, StealLock, ServerKeeps, ServerRejects, CallFails,
      AnswerArrives, AnswerLost, Recheck

LEMMA KeptNext ==
  ASSUME TypeInv, Hold, Brought, Kept, NothingLost', [Next]_vars
  PROVE  Kept'
<1> USE CodexAssumption
<1>t. TypeOK /\ \A q \in Requests : at[q] \in Using => used[q] # 0
  BY DEF TypeInv
<1>alone. \A q, r \in Requests : at[q] \in Critical /\ at[r] \in Critical => q = r
  BY DEF Hold
<1>in. Refused \cup Answered \cup {"call"} = Using /\ Using \subseteq Critical
  BY DEF Refused, Answered, Using, Critical
<1>1. CASE UNCHANGED vars \/ Tick
  <2>1. UNCHANGED <<at, used, cred, server>>
    BY <1>1 DEF vars, Tick
  <2> QED BY <2>1 DEF Kept, Good, server
<1>2. CASE Expire
  <2>1. cred # NoCred /\ cred'.refresh = cred.refresh
    BY <1>2, <1>t DEF Expire, TypeOK, NoCred
  <2> QED BY <1>2, <2>1 DEF Expire, Kept, Good, server
<1>3. CASE Withdraw
  <2>1. Good \subseteq Good' /\ revoked \subseteq revoked'
    BY <1>3 DEF Withdraw, Good
  <2> QED BY <1>3, <2>1 DEF Withdraw, Kept
<1>4. CASE Login
  <2>1. UNCHANGED <<at, used, revoked>> /\ Good \subseteq Good'
    BY <1>4 DEF Login, StartLogin, Exchange, LoginFails, StoreLogin, server, Good
  <2>2. UNCHANGED cred \/ cred'.refresh \in Good
    BY <1>4 DEF Login, StartLogin, Exchange, LoginFails, StoreLogin, Brought
  <2> QED BY <2>1, <2>2 DEF Kept
<1>5. CASE \E p \in Processes : Crash(p)
  BY <1>5, MishapCounts DEF Crash, MishapKinds, NothingLost
<1>6. ASSUME NEW q \in Requests,
             ReadCached(q) \/ StartRefresh(q) \/ JoinRefresh(q) \/ Acquire(q) \/ CallFails(q)
      PROVE  Kept'
  <2>1. PICK s \in Steps \ Using : Goto(q, s)
    BY <1>6 DEF ReadCached, StartRefresh, JoinRefresh, Acquire, CreateLock, LockExists, StatLock,
       StealLock, CallFails, Steps, Critical, Using
  <2>2. \A r \in Requests : at'[r] \in Using => at'[r] = at[r]
    BY <2>1, AtOne
  <2>3. UNCHANGED <<cred, used, server>> /\ at[q] \notin Answered
    BY <1>6 DEF ReadCached, StartRefresh, JoinRefresh, Acquire, CreateLock, LockExists, StatLock,
       StealLock, CallFails, Answered
  <2>4. \A r \in Requests : at[r] \in Answered => at'[r] \in Answered
    BY <2>1, <2>3, AtOne
  <2> QED BY <2>2, <2>3, <2>4, <1>in DEF Kept, Good, server
<1>7. ASSUME NEW q \in Requests, Reread(q) PROVE Kept'
  <2>1. at[q] = "reread" /\ UNCHANGED <<cred, server>>
    BY <1>7 DEF Reread
  <2>2. \A r \in Requests : at[r] \notin Answered
    BY <2>1, <1>alone, <1>in DEF Critical, Answered
  <2>3. PICK s \in {"release", "call"} : Goto(q, s) /\ (s = "call" => used'[q] \in Good)
    BY <1>7, <2>2, <1>t DEF Reread, TypeOK, Kept
  <2>4. \A r \in Requests : at'[r] = IF r = q THEN s ELSE at[r]
    BY <2>3, AtOne DEF Steps, Critical
  <2>5. \A r \in Requests : r # q => used'[r] = used[r]
    BY <1>7, <1>t DEF Reread, TypeOK
  <2> QED BY <2>1, <2>2, <2>3, <2>4, <2>5 DEF Kept, Good, server, Refused, Answered
<1>8. ASSUME NEW q \in Requests, ServerRotates(q) PROVE Kept'
  <2>1. \A r \in Requests : at'[r] = IF r = q THEN "landed" ELSE at[r]
    BY <1>8, AtOne DEF ServerRotates, Steps, Critical
  <2>2. \A r \in Requests : r # q => at'[r] \notin Using
    BY <2>1, <1>8, <1>alone, <1>in DEF ServerRotates, Critical
  <2>3. used'[q] \in Good'
    BY <1>8, <1>t DEF ServerRotates, TypeOK, Good
  <2> QED BY <2>1, <2>2, <2>3, <1>in DEF Kept, Answered, Refused
<1>9. ASSUME NEW q \in Requests, ServerKeeps(q) \/ ServerRejects(q) PROVE Kept'
  <2>1. PICK s \in {"landed", "rejected"} : Goto(q, s) /\ (s = "rejected" => used[q] \notin valid)
    BY <1>9 DEF ServerKeeps, ServerRejects
  <2>2. \A r \in Requests : at'[r] = IF r = q THEN s ELSE at[r]
    BY <2>1, AtOne DEF Steps, Critical
  <2>3. at[q] = "call" /\ UNCHANGED <<cred, used, server>>
    BY <1>9 DEF ServerKeeps, ServerRejects
  <2>4. \A r \in Requests : at[r] \notin Answered
    BY <2>3, <1>alone, <1>in DEF Critical, Answered
  <2>5. used[q] \in Good /\ (s = "rejected" => used[q] \in revoked)
    BY <2>1, <2>3 DEF Kept, Good
  <2> QED BY <2>1, <2>2, <2>3, <2>4, <2>5 DEF Kept, Good, server, Answered, Refused
<1>10. ASSUME NEW q \in Requests, AnswerArrives(q) \/ Recheck(q) PROVE Kept'
  <2>1. UNCHANGED <<cred, used, server>>
    BY <1>10 DEF AnswerArrives, Recheck
  <2>2. PICK s \in {"set", "recheck", "del", "release"} :
          Goto(q, s) /\ (s \in Answered <=> at[q] \in Answered) /\ (s \in Refused => at[q] \in Refused)
    BY <1>10 DEF AnswerArrives, Recheck, Answered, Refused
  <2>3. \A r \in Requests : at'[r] = IF r = q THEN s ELSE at[r]
    BY <2>2, AtOne DEF Steps, Critical
  <2> QED BY <2>1, <2>2, <2>3 DEF Kept, Good, server, Answered, Refused
<1>11. ASSUME NEW q \in Requests, AnswerLost(q) PROVE Kept'
  BY <1>11, MishapCounts DEF AnswerLost, MishapKinds, NothingLost
<1>12. ASSUME NEW q \in Requests, SetCredential(q) \/ DropCredential(q) PROVE Kept'
  <2>1. \A r \in Requests : at'[r] = IF r = q THEN "release" ELSE at[r]
    BY <1>12, AtOne DEF SetCredential, DropCredential, Steps, Critical
  <2>2. \A r \in Requests : at'[r] \notin Using
    BY <2>1, <1>12, <1>alone, <1>in DEF SetCredential, DropCredential, Critical, Using
  <2>3. cred' = NoCred \/ cred'.refresh \in Good
    BY <1>12 DEF SetCredential, DropCredential, Kept, Answered
  <2> QED BY <1>12, <2>2, <2>3, <1>in DEF SetCredential, DropCredential, Kept, Good, server
<1>13. ASSUME NEW q \in Requests, Release(q) PROVE Kept'
  <2>1. \A r \in Requests : at'[r] \notin Using
    BY <1>13, <1>alone, <1>in DEF Release, Critical, Using
  <2>2. \A r \in Requests : at[r] \notin Answered
    BY <1>13, <1>alone DEF Release, Critical, Answered
  <2> QED BY <1>13, <2>1, <2>2, <1>in DEF Release, Kept, Good, server
<1> QED BY <1>1, <1>2, <1>3, <1>4, <1>5, <1>6, <1>7, <1>8, <1>9, <1>10, <1>11, <1>12, <1>13
    DEF Next, Refresh

LEMMA SameNext ==
  ASSUME TypeInv, Hold, Same, mishaps'["death"] = 0, mishaps'["login"] = 0, [Next]_vars
  PROVE  Same'
<1> USE CodexAssumption
<1>t. TypeOK
  BY DEF TypeInv
<1>alone. \A q, r \in Requests : at[q] \in Critical /\ at[r] \in Critical => q = r
  BY DEF Hold
<1>in. Refused \cup {"call"} \subseteq Using /\ Using \subseteq Critical
  BY DEF Refused, Using, Critical
<1>1. CASE UNCHANGED vars \/ Tick \/ Withdraw \/ StartLogin \/ Exchange \/ LoginFails
  <2>1. UNCHANGED <<at, used, cred>>
    BY <1>1 DEF vars, Tick, Withdraw, StartLogin, Exchange, LoginFails
  <2> QED BY <2>1 DEF Same
<1>2. CASE Expire
  <2>1. cred' # NoCred /\ cred'.refresh = cred.refresh
    BY <1>2, <1>t DEF Expire, TypeOK, NoCred
  <2> QED BY <1>2, <2>1 DEF Expire, Same
<1>3. CASE StoreLogin \/ \E p \in Processes : Crash(p)
  BY <1>3, MishapCounts DEF StoreLogin, Crash, MishapKinds
<1>4. ASSUME NEW q \in Requests,
             \/ ReadCached(q) \/ StartRefresh(q) \/ JoinRefresh(q) \/ Acquire(q) \/ CallFails(q)
             \/ AnswerLost(q) \/ ServerKeeps(q) \/ ServerRejects(q) \/ AnswerArrives(q) \/ Recheck(q)
      PROVE  Same'
  <2>1. PICK s \in Steps : Goto(q, s) /\ (s \in Refused \cup {"call"} => at[q] \in Refused \cup {"call"})
    BY <1>4 DEF ReadCached, StartRefresh, JoinRefresh, Acquire, CreateLock, LockExists, StatLock,
       StealLock, CallFails, AnswerLost, ServerKeeps, ServerRejects, AnswerArrives, Recheck, Steps,
       Critical, Refused
  <2>2. UNCHANGED <<used, cred>>
    BY <1>4 DEF ReadCached, StartRefresh, JoinRefresh, Acquire, CreateLock, LockExists, StatLock,
       StealLock, CallFails, AnswerLost, ServerKeeps, ServerRejects, AnswerArrives, Recheck
  <2> QED BY <2>1, <2>2, AtOne DEF Same
<1>5. ASSUME NEW q \in Requests, Reread(q) PROVE Same'
  <2>1. PICK s \in {"release", "call"} : /\ Goto(q, s)
                                         /\ s = "call" => cred # NoCred /\ used'[q] = cred.refresh
    BY <1>5, <1>t DEF Reread, TypeOK
  <2>2. \A r \in Requests : at'[r] = IF r = q THEN s ELSE at[r]
    BY <2>1, AtOne DEF Steps, Critical
  <2>3. UNCHANGED cred /\ \A r \in Requests : r # q => used'[r] = used[r]
    BY <1>5, <1>t DEF Reread, TypeOK
  <2> QED BY <2>1, <2>2, <2>3 DEF Same, Refused
<1>6. ASSUME NEW q \in Requests,
             ServerRotates(q) \/ SetCredential(q) \/ DropCredential(q) \/ Release(q)
      PROVE  Same'
  <2>1. at[q] \in Critical /\ \A r \in Requests : at'[r] \in {at[r], "idle"} \/ r = q
    BY <1>6, <1>t DEF ServerRotates, SetCredential, DropCredential, Release, Critical, TypeOK, Goto
  <2>2. at'[q] \in {"landed", "release", "idle"}
    BY <1>6, <1>t DEF ServerRotates, SetCredential, DropCredential, Release, TypeOK, Goto
  <2>3. \A r \in Requests : at'[r] \notin Refused \cup {"call"}
    BY <2>1, <2>2, <1>alone, <1>in DEF Refused, Critical
  <2> QED BY <2>3 DEF Same
<1> QED BY <1>1, <1>2, <1>3, <1>4, <1>5, <1>6 DEF Next, Login, Refresh

LEMMA CredInductive ==
  ASSUME Timely
  PROVE  /\ Init => CredInv
         /\ CredInv /\ [Next]_vars => CredInv'
<1>1. Init => Known /\ Kept /\ Brought /\ Same
  BY CodexAssumption DEF Init, Known, Kept, Brought, Same, Good, Answered, Refused, NoCred, NoLogin
<1>2. ASSUME CredInv, [Next]_vars PROVE CredInv'
  <2>1. /\ TypeInv /\ TypeInv' /\ HoldInv /\ HoldInv' /\ Known' /\ Brought'
        /\ \A k \in MishapKinds : mishaps'[k] = 0 => mishaps[k] = 0
    BY <1>2, TypeNext, HoldInductive, KnownNext, BroughtNext, MishapsStay DEF CredInv, HoldInv
  <2>2. NothingLost' => Kept'
    BY <1>2, <2>1, KeptNext DEF CredInv, HoldInv, NothingLost, MishapKinds
  <2>3. mishaps'["death"] = 0 /\ mishaps'["login"] = 0 => Same'
    BY <1>2, <2>1, SameNext DEF CredInv, HoldInv, MishapKinds
  <2> QED BY <2>1, <2>2, <2>3 DEF CredInv
<1> QED BY <1>1, <1>2, HoldInductive DEF CredInv

(* "so it never refreshes a spent one" (codex.ts 215-216): until a router dies   *)
(* or an answer is lost, the server refuses a token only if it withdrew it,     *)
(* though logins replace the credential at any moment of a refresh.            *)
THEOREM CodexNeverSpent ==
  ASSUME Timely
  PROVE  Spec => []NeverSpent
<1>1. CredInv => NeverSpent
  BY DEF CredInv, Kept, NeverSpent, Refused
<1> QED BY CredInductive, <1>1, PTL DEF Spec

(* Until then, the token in auth.json is not a spent one while nobody refreshes, *)
(* whichever of a refresh and a login wrote it last.                           *)
THEOREM CodexStoredIsUnspent ==
  ASSUME Timely
  PROVE  Spec => []StoredIsUnspent
<1>1. CredInv => StoredIsUnspent
  BY DEF CredInv, Kept, Good, StoredIsUnspent, Answered, Critical
<1> QED BY CredInductive, <1>1, PTL DEF Spec

(* "a genuine revocation" (codex.ts 255-256): until the first mishap, a          *)
(* credential is dropped only when the server has withdrawn the token it holds. *)
THEOREM CodexGenuineDrop ==
  ASSUME Timely
  PROVE  Spec => GenuineDrop
<1> DEFINE Genuine == Mishaps = 0 /\ cred # NoCred /\ cred' = NoCred => cred.refresh \in revoked
<1>1. ASSUME CredInv, [Next]_vars PROVE [Genuine]_vars
  <2> SUFFICES ASSUME Next, Mishaps = 0, cred # NoCred, cred' = NoCred
               PROVE  cred.refresh \in revoked
    BY <1>1 DEF vars
  <2>z. mishaps["death"] = 0 /\ mishaps["loss"] = 0 /\ mishaps["login"] = 0
    BY <1>1, CodexAssumption DEF Mishaps, CredInv, HoldInv, TypeInv, TypeOK, MishapKinds
  <2>t. TypeInv /\ Kept /\ Same
    BY <1>1, <2>z DEF CredInv, HoldInv, NothingLost
  <2>1. ~ Expire /\ ~ Login
    BY <2>t, CodexAssumption DEF TypeInv, Expire, Login, StartLogin, Exchange, LoginFails, StoreLogin,
       TypeOK, NoCred
  <2>2. ASSUME NEW q \in Requests, SetCredential(q) PROVE FALSE
    BY <2>2, <2>t DEF SetCredential, TypeInv, Using, NoCred
  <2>3. ASSUME NEW q \in Requests, DropCredential(q) PROVE cred.refresh \in revoked
    BY <2>3, <2>t DEF DropCredential, Kept, Same, Refused
  <2>4. \E q \in Requests : DropCredential(q) \/ SetCredential(q)
    BY <2>1 DEF Next, Refresh, Acquire, Withdraw, Tick, Crash, ReadCached, StartRefresh,
       JoinRefresh, CreateLock, LockExists, StatLock, StealLock, Reread, ServerRotates,
       ServerKeeps, ServerRejects, CallFails, AnswerArrives, AnswerLost, Recheck, Release
  <2> QED BY <2>2, <2>3, <2>4
<1> QED BY CredInductive, <1>1, PTL DEF Spec, GenuineDrop
=============================================================================
