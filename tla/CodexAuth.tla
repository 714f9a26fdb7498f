------------------------------ MODULE CodexAuth ------------------------------
(* The codex credential that the router processes of one cache directory      *)
(* share: currentAuth (providers/codex.ts) over the file store and its lock    *)
(* file (providers/auth-store.ts), against an authorization server whose       *)
(* refresh tokens are spent by use.  Every await is a step of its own.         *)
(*                                                                            *)
(* Refresh tokens are numbered in the order the server issues them.  Time is   *)
(* relative: the lock file's age saturates once it counts as stale.            *)
EXTENDS Naturals, FiniteSets

CONSTANTS Requests,      \* chat requests that need the credential
          Processes,     \* router processes
          ProcessOf,     \* the router a request is made to
          StaleMs,       \* lockStaleMs
          MaxToken,      \* bound on the refresh tokens the server issues
          MaxMishaps,    \* bound on the mishaps: crashes of routers, lost answers
                         \* of the server, logins stored without the lock
          Timely         \* TRUE: nobody is longer than StaleMs under its lock

Free == "nobody"

ASSUME CodexAssumption ==
  /\ ProcessOf \in [Requests -> Processes] /\ Free \notin Requests
  /\ StaleMs \in Nat /\ MaxToken \in Nat \ {0} /\ MaxMishaps \in Nat
  /\ Timely \in BOOLEAN

VARIABLES cred,       \* auth.json: the refresh token and whether access is fresh
          lock,       \* auth.json.lock: its age and the request that created it
          at,         \* at[q]: where request q is in currentAuth
          used,       \* used[q]: the refresh token q has read under the lock
          gate,       \* gate[p]: the request whose refresh is in flight in p
          valid,      \* refresh tokens the server accepts
          issued,     \* number of refresh tokens issued
          revoked,    \* refresh tokens the server withdrew, not by use (history)
          login,      \* the device login under way and the token it has got
          mishaps     \* mishaps so far, by kind (history)

server == <<valid, issued, revoked>>
vars == <<cred, lock, at, used, gate, server, login, mishaps>>

---------------------------------------------------------------------------
NoCred == [refresh |-> 0, fresh |-> FALSE]
NoLock == [age |-> 0, by |-> Free]
NoLogin == [step |-> "none", token |-> 0]

Held == lock # NoLock

\* The steps of withLock's fn, and of the unlink in its finally.
Critical == {"reread", "call", "landed", "rejected", "set", "recheck", "del", "release"}

\* What may go wrong: a router dies, an answer of the server is lost (or the
\* write of what it brought), a login is stored without the lock.
MishapKinds == {"death", "loss", "login"}

Mishaps == mishaps["death"] + mishaps["loss"] + mishaps["login"]

Mishap(kind) == /\ Mishaps < MaxMishaps
                /\ mishaps' = [mishaps EXCEPT ![kind] = @ + 1]

Goto(q, step) == at' = [at EXCEPT ![q] = step]

---------------------------------------------------------------------------
\* The user has logged in once; the access token may be fresh or not.
Init == /\ cred \in [refresh : {1}, fresh : BOOLEAN]
        /\ lock = NoLock
        /\ at = [q \in Requests |-> "idle"]
        /\ used = [q \in Requests |-> 0]
        /\ gate = [p \in Processes |-> Free]
        /\ valid = {1} /\ issued = 1 /\ revoked = {}
        /\ login = NoLogin /\ mishaps = [kind \in MishapKinds |-> 0]

\* currentAuth reads the store: without a credential it throws, a fresh one it
\* returns, and only otherwise does it go on.
ReadCached(q) ==
  /\ at[q] = "idle"
  /\ cred # NoCred /\ ~ cred.fresh
  /\ Goto(q, "stale")
  /\ UNCHANGED <<cred, lock, used, gate, server, mishaps, login>>

\* No refresh is in flight in the process of q.
GateOpen(q) == gate[ProcessOf[q]] = Free

\* The request starts the process's refresh or waits for the one in flight.
StartRefresh(q) ==
  /\ at[q] = "stale"
  /\ GateOpen(q)
  /\ gate' = [gate EXCEPT ![ProcessOf[q]] = q]
  /\ Goto(q, "open")
  /\ UNCHANGED <<cred, lock, used, server, mishaps, login>>

JoinRefresh(q) ==
  /\ at[q] = "stale"
  /\ ~ GateOpen(q)
  /\ Goto(q, "joined")
  /\ UNCHANGED <<cred, lock, used, gate, server, mishaps, login>>

---------------------------------------------------------------------------
(* acquireLock *)

\* Mutant: the flag "w" opens the file that is there as well.
CreateLockAnyway(q) ==
  /\ at[q] = "open"
  /\ lock' = [age |-> 0, by |-> q]
  /\ Goto(q, "reread")
  /\ UNCHANGED <<cred, used, gate, server, mishaps, login>>

\* open(lockPath, "wx") creates the file.
CreateLock(q) ==
  /\ at[q] = "open" /\ ~ Held
  /\ lock' = [age |-> 0, by |-> q]
  /\ Goto(q, "reread")
  /\ UNCHANGED <<cred, used, gate, server, mishaps, login>>

\* EEXIST.
LockExists(q) ==
  /\ at[q] = "open" /\ Held
  /\ Goto(q, "stat")
  /\ UNCHANGED <<cred, lock, used, gate, server, mishaps, login>>

\* Mutant: a leftover lock file is never given up.
LockIsStaleNever == FALSE

LockIsStale == Held /\ lock.age > StaleMs

\* stat: a stale lock is to be unlinked; else try again, after a poll interval
\* or, when the file has vanished, at once.
StatLock(q) ==
  /\ at[q] = "stat"
  /\ Goto(q, IF LockIsStale THEN "steal" ELSE "open")
  /\ UNCHANGED <<cred, lock, used, gate, server, mishaps, login>>

\* The unlink removes whatever lock file is there by now.
StealLock(q) ==
  /\ at[q] = "steal"
  /\ lock' = NoLock
  /\ Goto(q, "open")
  /\ UNCHANGED <<cred, used, gate, server, mishaps, login>>

---------------------------------------------------------------------------
(* refresh, under the lock *)

\* Mutant: the store is not read again once the lock is held.
RereadNothing(q) ==
  /\ at[q] = "reread"
  /\ used' = [used EXCEPT ![q] = 1]
  /\ Goto(q, "call")
  /\ UNCHANGED <<cred, lock, gate, server, mishaps, login>>

\* readAuth again: gone, it throws; fresh, it is the result; else it is used.
Reread(q) ==
  /\ at[q] = "reread"
  /\ IF cred = NoCred \/ cred.fresh
       THEN Goto(q, "release") /\ UNCHANGED used
       ELSE Goto(q, "call") /\ used' = [used EXCEPT ![q] = cred.refresh]
  /\ UNCHANGED <<cred, lock, gate, server, mishaps, login>>

\* The server handles the refresh: it spends the token and issues the next one,
\* or answers that the token is not valid.
ServerRotates(q) ==
  /\ at[q] = "call"
  /\ used[q] \in valid
  /\ issued < MaxToken
  /\ issued' = issued + 1
  /\ valid' = (valid \ {used[q]}) \cup {issued'}
  /\ used' = [used EXCEPT ![q] = issued']
  /\ Goto(q, "landed")
  /\ UNCHANGED <<cred, lock, gate, revoked, mishaps, login>>

\* An answer without a refresh_token: the old one stays in use.
ServerKeeps(q) ==
  /\ at[q] = "call"
  /\ used[q] \in valid
  /\ Goto(q, "landed")
  /\ UNCHANGED <<cred, lock, used, gate, server, mishaps, login>>

ServerRejects(q) ==
  /\ at[q] = "call"
  /\ used[q] \notin valid
  /\ Goto(q, "rejected")
  /\ UNCHANGED <<cred, lock, used, gate, server, mishaps, login>>

\* Mutant: any failure counts as a refusal of the token.
CallFailsForGood(q) ==
  /\ at[q] = "call"
  /\ Goto(q, "recheck")
  /\ UNCHANGED <<cred, lock, used, gate, server, mishaps, login>>

\* A 5xx, a 429 or no connection: refresh throws, nothing has changed.
CallFails(q) ==
  /\ at[q] = "call"
  /\ Goto(q, "release")
  /\ UNCHANGED <<cred, lock, used, gate, server, mishaps, login>>

\* The server's answer arrives; or the connection breaks, the answer is
\* malformed or the store fails, and refresh throws.
AnswerArrives(q) ==
  /\ at[q] \in {"landed", "rejected"}
  /\ Goto(q, IF at[q] = "landed" THEN "set" ELSE "recheck")
  /\ UNCHANGED <<cred, lock, used, gate, server, mishaps, login>>

AnswerLost(q) ==
  /\ at[q] \in {"landed", "rejected", "set", "recheck", "del"}
  /\ Mishap("loss")
  /\ Goto(q, "release")
  /\ UNCHANGED <<cred, lock, used, gate, server, login>>

\* Mutants: the refresh token is not kept, or nothing is stored.
SetWithoutRefresh(q) ==
  /\ at[q] = "set"
  /\ cred' = [refresh |-> 0, fresh |-> TRUE]
  /\ Goto(q, "release")
  /\ UNCHANGED <<lock, used, gate, server, mishaps, login>>
SetForgotten(q) ==
  /\ at[q] = "set"
  /\ Goto(q, "release")
  /\ UNCHANGED <<cred, lock, used, gate, server, mishaps, login>>

\* authStore.set: the rename of writeAtomic puts the new credential in place.
SetCredential(q) ==
  /\ at[q] = "set"
  /\ cred' = [refresh |-> used[q], fresh |-> TRUE]
  /\ Goto(q, "release")
  /\ UNCHANGED <<lock, used, gate, server, mishaps, login>>

\* After a refusal the store is read once more: a changed and fresh credential
\* is adopted, the one that was refused is to be dropped.
Recheck(q) ==
  /\ at[q] = "recheck"
  /\ Goto(q, IF cred = NoCred \/ cred.refresh = used[q] THEN "del" ELSE "release")
  /\ UNCHANGED <<cred, lock, used, gate, server, mishaps, login>>

\* authStore.del drops whatever credential is there.
DropCredential(q) ==
  /\ at[q] = "del"
  /\ cred' = NoCred
  /\ Goto(q, "release")
  /\ UNCHANGED <<lock, used, gate, server, mishaps, login>>

\* The finally blocks: the lock file is unlinked, whoever created it, the gate
\* opens, and the requests that joined get the same outcome.
Release(q) ==
  /\ at[q] = "release"
  /\ lock' = NoLock
  /\ gate' = [gate EXCEPT ![ProcessOf[q]] = Free]
  /\ at' = [r \in Requests |->
              IF r = q \/ (at[r] = "joined" /\ ProcessOf[r] = ProcessOf[q])
                THEN "idle" ELSE at[r]]
  /\ used' = [used EXCEPT ![q] = 0]
  /\ UNCHANGED <<cred, server, mishaps, login>>

---------------------------------------------------------------------------
(* The rest of the world *)

\* The access token comes within EXPIRY_SKEW_MS of its expiry.
Expire ==
  /\ cred.fresh
  /\ cred' = [refresh |-> cred.refresh, fresh |-> FALSE]
  /\ UNCHANGED <<lock, at, used, gate, server, mishaps, login>>

\* The server withdraws a token: a password change or a revocation.
Withdraw ==
  /\ \E t \in valid : valid' = valid \ {t} /\ revoked' = revoked \cup {t}
  /\ UNCHANGED <<cred, lock, at, used, gate, issued, mishaps, login>>

---------------------------------------------------------------------------
(* loginCodexDevice, a program of its own (auth-login.ts) *)

\* The issuer gives out a user code, for which the program then polls.  (A login
\* that the bound on mishaps would keep from being stored is not begun.)
StartLogin ==
  /\ login = NoLogin
  /\ Mishaps < MaxMishaps
  /\ login' = [NoLogin EXCEPT !.step = "polling"]
  /\ UNCHANGED <<cred, lock, at, used, gate, server, mishaps>>

\* The user has approved it: a poll brings a code, and the server issues a token
\* in exchange for it.
Exchange ==
  /\ login.step = "polling"
  /\ issued < MaxToken
  /\ issued' = issued + 1
  /\ valid' = valid \cup {issued'}
  /\ login' = [step |-> "storing", token |-> issued']
  /\ UNCHANGED <<cred, lock, at, used, gate, revoked, mishaps>>

\* The deadline passes, a call fails, an answer is lost or the store fails: the
\* program ends, and whatever token it got with it.
LoginFails ==
  /\ login.step # "none"
  /\ login' = NoLogin
  /\ UNCHANGED <<cred, lock, at, used, gate, server, mishaps>>

\* authStore.set; nothing of a login takes the lock, hence a mishap.
StoreLogin ==
  /\ login.step = "storing"
  /\ Mishap("login")
  /\ cred' = [refresh |-> login.token, fresh |-> TRUE]
  /\ login' = NoLogin
  /\ UNCHANGED <<lock, at, used, gate, server>>

Login == StartLogin \/ Exchange \/ LoginFails \/ StoreLogin

---------------------------------------------------------------------------
\* Time passes for the lock file.
Tick ==
  /\ Held /\ lock.age <= StaleMs
  /\ Timely => \A q \in Requests : lock.by = q /\ at[q] \in Critical => lock.age < StaleMs
  /\ lock' = [age |-> lock.age + 1, by |-> lock.by]
  /\ UNCHANGED <<cred, at, used, gate, server, mishaps, login>>

\* A router dies; its lock file stays behind.
Crash(p) ==
  /\ Mishap("death")
  /\ gate' = [gate EXCEPT ![p] = Free]
  /\ at' = [q \in Requests |-> IF ProcessOf[q] = p THEN "idle" ELSE at[q]]
  /\ used' = [q \in Requests |-> IF ProcessOf[q] = p THEN 0 ELSE used[q]]
  /\ UNCHANGED <<cred, lock, server, login>>

Acquire(q) == CreateLock(q) \/ LockExists(q) \/ StatLock(q) \/ StealLock(q)

Refresh(q) == \/ Reread(q) \/ ServerRotates(q) \/ ServerKeeps(q)
              \/ ServerRejects(q) \/ CallFails(q)
              \/ AnswerArrives(q) \/ AnswerLost(q) \/ SetCredential(q)
              \/ Recheck(q) \/ DropCredential(q) \/ Release(q)

Next == \/ Expire \/ Withdraw \/ Login \/ Tick
        \/ \E p \in Processes : Crash(p)
        \/ \E q \in Requests : \/ ReadCached(q) \/ StartRefresh(q) \/ JoinRefresh(q)
                               \/ Acquire(q) \/ Refresh(q)

Spec == Init /\ [][Next]_vars

\* A process goes on with what it has begun, and time passes.  Nothing makes
\* the polling of the lock file fair: a request may always find it taken.
Fairness ==
  /\ WF_vars(Tick)
  /\ \A q \in Requests : /\ WF_vars(StartRefresh(q)) /\ WF_vars(JoinRefresh(q))
                         /\ WF_vars(Acquire(q)) /\ WF_vars(Refresh(q))

FairSpec == Spec /\ Fairness

---------------------------------------------------------------------------
(* Properties *)

Steps == {"idle", "stale", "joined", "open", "stat", "steal"} \cup Critical

\* The credential, the lock and every request have the shape the code gives them.
TypeOK == /\ cred \in {NoCred} \cup [refresh : 1 .. MaxToken, fresh : BOOLEAN]
          /\ lock \in [age : 0 .. StaleMs + 1, by : Requests \cup {Free}]
          /\ at \in [Requests -> Steps]
          /\ used \in [Requests -> 0 .. MaxToken]
          /\ gate \in [Processes -> Requests \cup {Free}]
          /\ valid \subseteq 1 .. MaxToken /\ revoked \subseteq 1 .. MaxToken
          /\ issued \in 1 .. MaxToken
          /\ login \in [step : {"none", "polling", "storing"}, token : 0 .. MaxToken]
          /\ mishaps \in [MishapKinds -> 0 .. MaxMishaps]

\* "only one refreshes at a time" (codex.ts 213-214): at most one request of all
\* routers is inside the critical section, as long as no router has died and
\* left its lock file behind.  Lost answers and logins make no difference.
LockExclusive ==
  mishaps["death"] = 0 =>
    \A q, r \in Requests : at[q] \in Critical /\ at[r] \in Critical => q = r

\* No router has died, and no answer of the server has been lost.
NothingLost == mishaps["death"] = 0 /\ mishaps["loss"] = 0

\* "so it never refreshes a spent one" (codex.ts 215-216): the server refuses a
\* refresh only for a token that was withdrawn, though logins replace the
\* credential while it is being refreshed.
NeverSpent ==
  NothingLost => \A q \in Requests : at[q] = "rejected" => used[q] \in revoked

\* "a genuine revocation" (codex.ts 255-256): the credential is dropped only
\* when the server has withdrawn the very token that it holds, as long as
\* nothing of the kind MaxMishaps bounds has happened.
GenuineDrop ==
  [][Mishaps = 0 /\ cred # NoCred /\ cred' = NoCred => cred.refresh \in revoked]_vars

\* While nobody is refreshing, the stored refresh token is not a spent one,
\* whether a refresh or a login has stored it.
StoredIsUnspent ==
  NothingLost /\ cred # NoCred /\ (\A q \in Requests : at[q] \notin Critical)
    => cred.refresh \in valid \cup revoked

Waiting(q) == at[q] \in {"open", "stat", "steal"}

\* A lock file never keeps everybody out: while requests wait for the lock, one
\* of them gets it in the end, though a router may have died and left the file
\* behind (auth-store.ts 111-113), unless they all die.
LockProgress ==
  (\E q \in Requests : Waiting(q))
    ~> (\E q \in Requests : at[q] = "reread") \/ (\A q \in Requests : ~ Waiting(q))
=============================================================================
