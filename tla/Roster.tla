------------------------------- MODULE Roster -------------------------------
(* aimdware-admin as teachers use it (admin_cli.py): each run carries out one  *)
(* command over the rows of a roster, one row after the other, goes on past a  *)
(* row that fails, and prints the results of all rows at its end.  Two runs    *)
(* share the tables of users, enrolments and tokens (TokenAdmin).  A command   *)
(* for one student is a roster of one row.  Every read and every commit is a   *)
(* step of its own; nothing deletes a user, a course or an enrolment.          *)
EXTENDS TokenAdmin, Sequences, Functions

CONSTANTS Rosters,     \* the rosters in use, sequences of users
          Mails,       \* e-mail addresses
          MailOf,      \* MailOf[u]: the address derive_email gives u
          MaxJobs      \* bound on the commands

ASSUME RosterAssumption == /\ Rosters \subseteq Seq(Users)
                           /\ MailOf \in [Users -> Mails] /\ Nobody \notin Mails
                           /\ MaxJobs \in Nat

VARIABLES mail,       \* mail[u]: the address in u's row of users, or Nobody
          course,     \* TRUE when the course has been created
          enrolled,   \* users with a row in enrollments
          job,        \* job[a]: the command that run a carries out, or NoJob
          jobs,       \* number of commands started
          shown       \* tokens that were ever printed

tables == <<mail, course, enrolled>>
jvars  == <<vars, tables, job, jobs, shown>>

---------------------------------------------------------------------------
NoJob == [kind |-> "none"]
Kinds == {"create", "new", "enroll", "issue", "revoke"}   \* "new": create without --csv

Exists(u) == mail[u] # Nobody

\* Run a is about to begin its next row, which is of command k and of user u.
AtRow(a, k, u) ==
  /\ run[a] = Rest
  /\ job[a].kind = k /\ job[a].rows # <<>>
  /\ u = Head(job[a].rows)

\* Run a is in the middle of its row.
At(a, step) == run[a].step = step

\* The result of a row: the rows that are left and the results so far.
Report(a, status, t) ==
  LET result == [user |-> Head(job[a].rows), status |-> status, token |-> t]
      next   == [kind |-> job[a].kind, address |-> job[a].address,
                 rows |-> Tail(job[a].rows), out |-> Append(job[a].out, result)]
  IN  job' = [job EXCEPT ![a] = next]

RowDone(a) == run' = [run EXCEPT ![a] = Rest]
Go(a, step, u) == run' = [run EXCEPT ![a] = [step |-> step, user |-> u]]

\* Mutants: the exception ends the batch; it counts as a row that is there; the
\* session is not rolled back, so that every later row fails as well.
FailEndsBatch(a) == job' = [job EXCEPT ![a] = NoJob]
FailMeansExists(a) == Report(a, "exists", Nobody)
FailWithoutRollback(a) ==
  job' = [job EXCEPT ![a].rows = <<>>,
                     ![a].out = @ \o [i \in DOMAIN job[a].rows |->
                        [user |-> job[a].rows[i], status |-> "error", token |-> Nobody]]]

\* The exception handler of a row: roll back, report, go on.
Fail(a) == Report(a, "error", Nobody)

\* What earlier runs have left: some users, perhaps the course, no tokens yet.
JInit == /\ Init
         /\ \E U \in SUBSET Users : mail = [u \in Users |-> IF u \in U THEN MailOf[u] ELSE Nobody]
         /\ course \in BOOLEAN
         /\ enrolled = {}
         /\ job = [a \in Admins |-> NoJob]
         /\ jobs = 0 /\ shown = {}

\* A command is started.  The users of a roster get the addresses derived for
\* them; a user created alone may be given any with --email.
Start(a) ==
  /\ run[a] = Rest /\ job[a] = NoJob /\ jobs < MaxJobs
  /\ jobs' = jobs + 1
  /\ \E k \in Kinds, r \in Rosters, address \in {MailOf} \cup {[u \in Users |-> m] : m \in Mails} :
       /\ k = "new" => Len(r) = 1
       /\ k # "new" => address = MailOf
       /\ job' = [job EXCEPT ![a] = [kind |-> k, rows |-> r, out |-> <<>>, address |-> address]]
  /\ UNCHANGED <<vars, tables, shown>>

\* _emit_batch.
Emit(a) ==
  /\ run[a] = Rest /\ job[a] # NoJob /\ job[a].rows = <<>>
  /\ shown' = shown \cup ({o.token : o \in Range(job[a].out)} \ {Nobody})
  /\ job' = [job EXCEPT ![a] = NoJob]
  /\ UNCHANGED <<vars, tables, jobs>>

---------------------------------------------------------------------------
(* user create, course create *)

\* The user is there already.
CreateExists(a) ==
  \E u \in Users :
    /\ AtRow(a, "create", u) /\ Exists(u)
    /\ Report(a, "exists", Nobody)
    /\ UNCHANGED <<vars, tables, jobs, shown>>

\* The batch has found no such user; user create alone does not look.
CreateRead(a) ==
  \E u \in Users :
    /\ (AtRow(a, "create", u) /\ ~ Exists(u)) \/ AtRow(a, "new", u)
    /\ Go(a, "create", u)
    /\ UNCHANGED <<owner, active, served, crashes, tables, job, jobs, shown>>

\* The unique columns jaccount and email.
UserFits(u, m) == ~ Exists(u) /\ \A v \in Users : mail[v] # m

\* user_create's commit, or the refusal of it.
CreateCommit(a) ==
  /\ At(a, "create")
  /\ LET u == run[a].user
         m == job[a].address[u]
     IN  \/ UserFits(u, m) /\ mail' = [mail EXCEPT ![u] = m] /\ Report(a, "created", Nobody)
         \/ ~ UserFits(u, m) /\ Fail(a) /\ UNCHANGED mail
  /\ RowDone(a)
  /\ UNCHANGED <<owner, active, served, crashes, course, enrolled, jobs, shown>>

CourseCreate ==
  /\ ~ course
  /\ course' = TRUE
  /\ UNCHANGED <<vars, mail, enrolled, job, jobs, shown>>

---------------------------------------------------------------------------
(* enroll *)

\* user_get or course_get raises LookupError.
EnrollLookupFails(a) ==
  \E u \in Users :
    /\ AtRow(a, "enroll", u)
    /\ ~ Exists(u) \/ ~ course
    /\ Fail(a)
    /\ UNCHANGED <<vars, tables, jobs, shown>>

\* batch_enroll looks for the enrolment ...
EnrollRead(a) ==
  \E u \in Users :
    /\ AtRow(a, "enroll", u)
    /\ Exists(u) /\ course
    /\ \/ u \in enrolled /\ Report(a, "exists", Nobody) /\ UNCHANGED run
       \/ u \notin enrolled /\ Go(a, "recheck", u) /\ UNCHANGED job
    /\ UNCHANGED <<owner, active, served, crashes, tables, jobs, shown>>

\* ... and enroll looks again: a row that has come since counts as enrolled.
EnrollRecheck(a) ==
  /\ At(a, "recheck")
  /\ LET u == run[a].user
     IN  \/ u \in enrolled /\ Report(a, "enrolled", Nobody) /\ RowDone(a)
         \/ u \notin enrolled /\ Go(a, "join", u) /\ UNCHANGED job
  /\ UNCHANGED <<owner, active, served, crashes, tables, jobs, shown>>

\* enroll's commit, or the refusal of it by the primary key.
EnrollCommit(a) ==
  /\ At(a, "join")
  /\ LET u == run[a].user
     IN  \/ u \notin enrolled /\ enrolled' = enrolled \cup {u} /\ Report(a, "enrolled", Nobody)
         \/ u \in enrolled /\ Fail(a) /\ UNCHANGED enrolled
  /\ RowDone(a)
  /\ UNCHANGED <<owner, active, served, crashes, mail, course, jobs, shown>>

---------------------------------------------------------------------------
(* token issue, token revoke *)

TokenLookupFails(a) ==
  \E u \in Users :
    /\ AtRow(a, "issue", u) \/ AtRow(a, "revoke", u)
    /\ ~ Exists(u)
    /\ Fail(a)
    /\ UNCHANGED <<vars, tables, jobs, shown>>

IssueRead(a) ==
  \E u \in Users :
    /\ AtRow(a, "issue", u) /\ Exists(u)
    /\ ReadActive(a, u)
    /\ UNCHANGED <<tables, job, jobs, shown>>

IssueRevokesOld(a) == RevokeOld(a) /\ UNCHANGED <<tables, job, jobs, shown>>

IssueCommit(a) ==
  /\ \/ /\ InsertNew(a)
        /\ \E t \in active' \ active : Report(a, "issued", t)
     \/ InsertRefused(a) /\ Fail(a)
  /\ UNCHANGED <<tables, jobs, shown>>

\* revoke_tokens_for_user over a roster.
RevokeRead(a) ==
  \E u \in Users :
    /\ AtRow(a, "revoke", u) /\ Exists(u)
    /\ run' = [run EXCEPT ![a] = [step |-> "revoke", seen |-> TokensOf(u)]]
    /\ UNCHANGED <<owner, active, served, crashes, tables, job, jobs, shown>>

\* token_revoke by prefix, a command of its own.
PrefixRead(a) ==
  /\ job[a] = NoJob /\ jobs < MaxJobs
  /\ jobs' = jobs + 1
  /\ ReadForRevoke(a)
  /\ UNCHANGED <<tables, job, shown>>

RevokeCommit(a) ==
  /\ RevokeSeen(a)
  /\ IF job[a] = NoJob THEN UNCHANGED job ELSE Report(a, "revoked", Nobody)
  /\ UNCHANGED <<tables, jobs, shown>>

\* The run is killed: its results are never printed.
Killed(a) ==
  /\ crashes < MaxCrashes
  /\ run[a] # Rest \/ job[a] # NoJob
  /\ crashes' = crashes + 1
  /\ RowDone(a)
  /\ job' = [job EXCEPT ![a] = NoJob]
  /\ UNCHANGED <<owner, active, served, tables, jobs, shown>>

JNext == \/ CourseCreate
         \/ \E a \in Admins :
              \/ Start(a) \/ Emit(a) \/ Killed(a)
              \/ CreateExists(a) \/ CreateRead(a) \/ CreateCommit(a)
              \/ EnrollLookupFails(a) \/ EnrollRead(a) \/ EnrollRecheck(a) \/ EnrollCommit(a)
              \/ TokenLookupFails(a) \/ IssueRead(a) \/ IssueRevokesOld(a) \/ IssueCommit(a)
              \/ RevokeRead(a) \/ PrefixRead(a) \/ RevokeCommit(a)

JSpec == JInit /\ [][JNext]_jvars

---------------------------------------------------------------------------
(* Properties *)

Results(a) == IF job[a] = NoJob THEN {} ELSE Range(job[a].out)

Outcomes == [user : Users, token : Tokens \cup {Nobody},
             status : {"created", "exists", "enrolled", "issued", "revoked", "error"}]
Jobs     == [kind : Kinds, rows : Seq(Users), out : Seq(Outcomes), address : [Users -> Mails]]
Steps    == [step : {"rotate", "insert"}, user : Users, seen : SUBSET Tokens]
              \cup [step : {"revoke"}, seen : SUBSET Tokens]
              \cup [step : {"create", "recheck", "join"}, user : Users]

\* The tables, the runs and their commands have the shape the code gives them.
JTypeOK ==
  /\ owner \in [Tokens -> Users \cup {Nobody}]
  /\ active \subseteq Tokens \ Unissued
  /\ run \in [Admins -> {Rest} \cup Steps]
  /\ served \subseteq Users /\ enrolled \subseteq Users /\ shown \subseteq Tokens
  /\ crashes \in 0 .. MaxCrashes /\ jobs \in 0 .. MaxJobs /\ course \in BOOLEAN
  /\ mail \in [Users -> Mails \cup {Nobody}]
  /\ job \in [Admins -> {NoJob} \cup Jobs]

\* What a run reports of a row is so, although the other run has been at the
\* same tables between its read, its commit and its output: a user or an
\* enrolment that it says is there is there, and a token that it says it issued
\* is that student's.
ResultsTrue ==
  \A a \in Admins : \A o \in Results(a) :
    /\ job[a].kind \in {"create", "new"} /\ o.status # "error" => Exists(o.user)
    /\ job[a].kind = "enroll" /\ o.status # "error" => o.user \in enrolled
    /\ o.status = "issued" => owner[o.token] = o.user

\* What can be wrong with a row by itself.
Cause(k, u, m) ==
  CASE k \in {"create", "new"} -> ~ UserFits(u, m)
    [] k = "enroll" -> ~ Exists(u) \/ ~ course \/ u \in enrolled
    [] k = "issue"  -> ~ Exists(u) \/ TokensOf(u) # {}
    [] k = "revoke" -> ~ Exists(u)

\* "Each runs one roster row at a time, continues past per-row failures"
\* (admin_cli.py 181-182): a row is reported as an error only for what is wrong
\* with that row, whatever became of the rows before it.
ErrorsHaveCause ==
  [][\A a \in Admins : job[a] # NoJob /\ job'[a] # NoJob =>
       \A i \in Len(job[a].out) + 1 .. Len(job'[a].out) :
         LET o == job'[a].out[i] IN
           o.status = "error" => Cause(job[a].kind, o.user, job[a].address[o.user])]_jvars

\* The plaintext of a token can be seen only once, in the results that a run
\* prints at its end (token_issue, admin_cli.py 126-127).  Unless a run is
\* killed, every token that is accepted was printed or is in the results of a
\* run that has yet to print them: no student is left with a token that nobody
\* knows in the place of one that was known.
TokensAreKnown ==
  crashes = 0 =>
    \A t \in active : t \in shown \/ \E a \in Admins : \E o \in Results(a) : o.token = t
=============================================================================
