----------------------------- MODULE TokenAdmin -----------------------------
(* Student tokens as aimdware-admin issues and revokes them (admin_cli.py):   *)
(* several runs of the program at the same time over one student_tokens       *)
(* table, whose partial unique index allows one active token per user.         *)
(* Each commit is a step of its own, and so is the read before it.  Roster has *)
(* the commands that take these steps.                                         *)
EXTENDS Naturals, FiniteSets

CONSTANTS Users, Tokens,
          PrefixOf,      \* PrefixOf[t]: the first eight characters of t
          Admins,        \* runs of the program at the same time
          Revoking,      \* TRUE: tokens are revoked by request too
          MaxCrashes

Nobody == "nobody"

ASSUME TokenAssumption == /\ Revoking \in BOOLEAN
                          /\ MaxCrashes \in Nat
                          /\ Nobody \notin Users \cup Tokens

VARIABLES owner,      \* owner[t]: the user t was issued to, or Nobody
          active,     \* tokens with revoked_at IS NULL
          run,        \* run[a]: what admin a is doing
          served,     \* users whose last completed issue or revocation was an
                      \* issue (history)
          crashes

vars == <<owner, active, run, served, crashes>>

---------------------------------------------------------------------------
Rest   == [step |-> "rest"]

TokensOf(u) == {t \in active : owner[t] = u}
Unissued    == {t \in Tokens : owner[t] = Nobody}

Init == /\ owner = [t \in Tokens |-> Nobody]
        /\ active = {}
        /\ run = [a \in Admins |-> Rest]
        /\ served = {}
        /\ crashes = 0

\* token_issue reads the user's active token, of which there is at most one.
ReadActive(a, u) ==
  /\ run[a] = Rest
  /\ run' = [run EXCEPT ![a] =
       [step |-> IF TokensOf(u) = {} THEN "insert" ELSE "rotate",
        user |-> u, seen |-> TokensOf(u)]]
  /\ UNCHANGED <<owner, active, served, crashes>>

\* Mutant: the program ends once the old token is revoked.
RevokeOldAndStop(a) ==
  /\ run[a].step = "rotate"
  /\ active' = active \ run[a].seen
  /\ run' = [run EXCEPT ![a] = Rest]
  /\ UNCHANGED <<owner, served, crashes>>

\* token_issue's first commit: the token it has read is revoked.
RevokeOld(a) ==
  /\ run[a].step = "rotate"
  /\ active' = active \ run[a].seen
  /\ run' = [run EXCEPT ![a] = [step |-> "insert", user |-> run[a].user, seen |-> {}]]
  /\ UNCHANGED <<owner, served, crashes>>

\* Mutant: no unique index over the active tokens of a user.
IndexAllowsAny(u) == TRUE

\* ux_student_tokens_active_per_user.
IndexAllows(u) == TokensOf(u) = {}

\* Mutant: the new row names no user.
InsertUnowned(a) ==
  /\ run[a].step = "insert"
  /\ IndexAllows(run[a].user)
  /\ \E t \in Unissued : active' = active \cup {t}
  /\ served' = served \cup {run[a].user}
  /\ run' = [run EXCEPT ![a] = Rest]
  /\ UNCHANGED <<owner, crashes>>

\* token_issue's second commit.
InsertNew(a) ==
  /\ run[a].step = "insert"
  /\ IndexAllows(run[a].user)
  /\ \E t \in Unissued : /\ owner' = [owner EXCEPT ![t] = run[a].user]
                         /\ active' = active \cup {t}
  /\ served' = served \cup {run[a].user}
  /\ run' = [run EXCEPT ![a] = Rest]
  /\ UNCHANGED crashes

\* The second commit hits the index: token_issue throws, the row of the batch
\* is reported as an error.
InsertRefused(a) ==
  /\ run[a].step = "insert"
  /\ ~ IndexAllows(run[a].user)
  /\ run' = [run EXCEPT ![a] = Rest]
  /\ UNCHANGED <<owner, active, served, crashes>>

\* token_revoke and revoke_tokens_for_user read the active tokens of a prefix
\* or of a user ...
ReadForRevoke(a) ==
  /\ Revoking
  /\ run[a] = Rest
  /\ \E S \in {TokensOf(u) : u \in Users}
              \cup {{t \in active : PrefixOf[t] = p} : p \in {PrefixOf[t] : t \in Tokens}} :
       run' = [run EXCEPT ![a] = [step |-> "revoke", seen |-> S]]
  /\ UNCHANGED <<owner, active, served, crashes>>

\* ... and revoke what they have read.
RevokeSeen(a) ==
  /\ run[a].step = "revoke"
  /\ active' = active \ run[a].seen
  /\ served' = served \ {owner[t] : t \in active \cap run[a].seen}
  /\ run' = [run EXCEPT ![a] = Rest]
  /\ UNCHANGED <<owner, crashes>>

---------------------------------------------------------------------------
(* Properties *)

\* However many admins issue tokens to one student at a time, the student has
\* at most one that is accepted ("at most one active token per user",
\* models.py 87-89).
OneActive == \A u \in Users : Cardinality(TokensOf(u)) <= 1

\* "rotate (= issue again): atomic { revoke active; insert new }"
\* (wiki/admin-script.md 96-97): a student who has been issued a token, and
\* whose tokens nobody has revoked by request since, has an active token
\* whenever no issue to that student is under way.  As token_issue commits the
\* two halves one after the other, this holds only while no run is cut short.
RotationKeepsAccess ==
  crashes = 0 => \A u \in served :
    \/ TokensOf(u) # {}
    \/ \E a \in Admins : run[a].step \in {"rotate", "insert"} /\ run[a].user = u
=============================================================================
