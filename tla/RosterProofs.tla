----------------------------- MODULE RosterProofs -----------------------------
(* What holds of aimdware-admin for any number of runs, students, tokens and  *)
(* rosters.                                                                  *)
EXTENDS Roster, FiniteSetTheorems, TLAPS

Statuses == {"created", "exists", "enrolled", "issued", "revoked", "error"}

(* A run in the middle of a row has a command of the kind that leads there    *)
(* and a row left, of the user it is at work on; revoking by prefix is a      *)
(* command without rows.                                                     *)
InRow(v, j) ==
  /\ v.step \in {"create", "recheck", "join", "rotate", "insert"} =>
       j \in Jobs /\ j.rows # <<>> /\ v.user = Head(j.rows)
  /\ v.step = "create" => j.kind \in {"create", "new"}
  /\ v.step \in {"recheck", "join"} => j.kind = "enroll"
  /\ v.step \in {"rotate", "insert"} => j.kind = "issue"
  /\ v.step = "revoke" => j = NoJob \/ (j \in Jobs /\ j.rows # <<>> /\ j.kind = "revoke")

TypeInv == JTypeOK /\ \A a \in Admins : InRow(run[a], job[a])

(* A command is not the lack of one. *)
LEMMA JobIsSome ==
  ASSUME NEW j \in Jobs
  PROVE  j # NoJob /\ j.kind \in Kinds
<1>1. j.kind \in Kinds
  BY DEF Jobs
<1>2. NoJob.kind \notin Kinds
  BY DEF NoJob, Kinds
<1> QED BY <1>1, <1>2

(* What reporting a row does to the commands. *)
LEMMA ReportEffect ==
  ASSUME NEW a \in Admins, NEW status \in Statuses, NEW t \in Tokens \cup {Nobody},
         job \in [Admins -> {NoJob} \cup Jobs],
         job[a] \in Jobs, job[a].rows # <<>>,
         Report(a, status, t)
  PROVE  /\ job' \in [Admins -> {NoJob} \cup Jobs]
         /\ job'[a] \in Jobs
         /\ job'[a].kind = job[a].kind /\ job'[a].address = job[a].address
         /\ job'[a].out = Append(job[a].out,
              [user |-> Head(job[a].rows), status |-> status, token |-> t])
         /\ \A b \in Admins \ {a} : job'[b] = job[b]
<1> DEFINE o == [user |-> Head(job[a].rows), status |-> status, token |-> t]
           r == Tail(job[a].rows)
           q == Append(job[a].out, o)
           j == [kind |-> job[a].kind, address |-> job[a].address, rows |-> r, out |-> q]
<1>1. job[a].rows \in Seq(Users) /\ job[a].out \in Seq(Outcomes)
  BY DEF Jobs
<1>2. Head(job[a].rows) \in Users /\ r \in Seq(Users)
  BY <1>1
<1>3. o \in Outcomes
  BY <1>2 DEF Outcomes, Statuses
<1>4. q \in Seq(Outcomes)
  BY <1>1, <1>3
<1>5. job' = [job EXCEPT ![a] = j]
  BY DEF Report
<1> SUFFICES /\ job' \in [Admins -> {NoJob} \cup Jobs]
             /\ job'[a] \in Jobs
             /\ job'[a].kind = job[a].kind /\ job'[a].address = job[a].address
             /\ job'[a].out = q
             /\ \A b \in Admins \ {a} : job'[b] = job[b]
  OBVIOUS
<1> HIDE DEF r, q, o
<1>6. /\ j \in Jobs
      /\ j.kind = job[a].kind /\ j.address = job[a].address
      /\ j.out = q
  BY <1>2, <1>4 DEF Jobs
<1> HIDE DEF j
<1> QED BY <1>5, <1>6

(* The results of a run after a report: the ones it had and the new one.      *)
LEMMA ReportedResults ==
  ASSUME NEW a \in Admins, NEW status \in Statuses, NEW t \in Tokens \cup {Nobody},
         job \in [Admins -> {NoJob} \cup Jobs],
         job[a] \in Jobs, job[a].rows # <<>>,
         Report(a, status, t)
  PROVE  /\ Results(a)' = Results(a) \cup
              {[user |-> Head(job[a].rows), status |-> status, token |-> t]}
         /\ \A b \in Admins \ {a} : Results(b)' = Results(b)
<1> DEFINE o == [user |-> Head(job[a].rows), status |-> status, token |-> t]
<1>1. job'[a] # NoJob /\ job[a] # NoJob
  BY ReportEffect, JobIsSome
<1>2. job[a].out \in Seq(Outcomes) /\ job'[a].out = Append(job[a].out, o)
  BY ReportEffect DEF Jobs
<1>3. Range(Append(job[a].out, o)) = Range(job[a].out) \cup {o}
  <2>1. DOMAIN Append(job[a].out, o) = DOMAIN job[a].out \cup {Len(job[a].out) + 1}
    BY <1>2
  <2>2. \A i \in DOMAIN job[a].out : Append(job[a].out, o)[i] = job[a].out[i]
    BY <1>2
  <2>3. Append(job[a].out, o)[Len(job[a].out) + 1] = o
    BY <1>2
  <2> QED BY <2>1, <2>2, <2>3 DEF Range
<1>4. Results(a)' = Results(a) \cup {o}
  BY <1>1, <1>2, <1>3 DEF Results
<1>5. \A b \in Admins \ {a} : Results(b)' = Results(b)
  BY ReportEffect DEF Results
<1> QED BY <1>4, <1>5

(* What a run holds while it is in the middle of a row. *)
LEMMA StepFields ==
  ASSUME NEW v \in {Rest} \cup Steps
  PROVE  /\ v.step \in {"rotate", "insert"} => v.user \in Users /\ v.seen \in SUBSET Tokens
         /\ v.step = "revoke" => v.seen \in SUBSET Tokens
         /\ v.step \in {"create", "recheck", "join"} => v.user \in Users
         /\ Rest.step = "rest"
BY DEF Rest, Steps

(* A run that is about to begin a row has a command. *)
LEMMA AtRowHasJob ==
  ASSUME NEW a \in Admins, NEW k \in Kinds, NEW u \in Users, JTypeOK, AtRow(a, k, u)
  PROVE  /\ job[a] \in Jobs /\ job[a].rows # <<>> /\ job[a].kind = k
         /\ u = Head(job[a].rows) /\ run[a] = Rest
<1>1. job[a] \in {NoJob} \cup Jobs
  BY DEF JTypeOK
<1>2. NoJob.kind \notin Kinds
  BY DEF NoJob, Kinds
<1> QED BY <1>1, <1>2 DEF AtRow

(* A step of run a leaves the other runs where they are. *)
LEMMA RunsKept ==
  ASSUME TypeInv, NEW a \in Admins, NEW v \in {Rest} \cup Steps,
         run' = [run EXCEPT ![a] = v],
         \A b \in Admins \ {a} : job'[b] = job[b],
         InRow(v, job'[a])
  PROVE  run' \in [Admins -> {Rest} \cup Steps] /\ \A b \in Admins : InRow(run'[b], job'[b])
<1>1. run' \in [Admins -> {Rest} \cup Steps] /\ run'[a] = v
  BY DEF TypeInv, JTypeOK
<1>2. \A b \in Admins \ {a} : run'[b] = run[b]
  BY DEF TypeInv, JTypeOK
<1> QED BY <1>1, <1>2 DEF TypeInv

(* At rest there is nothing to say. *)
LEMMA InRowRest == ASSUME NEW j PROVE InRow(Rest, j)
BY DEF InRow, Rest
LEMMA TypeInit == JInit => TypeInv
<1> SUFFICES ASSUME JInit PROVE TypeInv
  OBVIOUS
<1> USE TokenAssumption, RosterAssumption
<1>1. run \in [Admins -> {Rest} \cup Steps] /\ job \in [Admins -> {NoJob} \cup Jobs]
  BY DEF JInit, Init
<1>2. /\ owner \in [Tokens -> Users \cup {Nobody}] /\ active \subseteq Tokens \ Unissued
      /\ served \subseteq Users /\ enrolled \subseteq Users /\ shown \subseteq Tokens
      /\ crashes \in 0 .. MaxCrashes /\ jobs \in 0 .. MaxJobs /\ course \in BOOLEAN
  BY DEF JInit, Init
<1>3. mail \in [Users -> Mails \cup {Nobody}]
  BY DEF JInit
<1>4. \A a \in Admins : InRow(run[a], job[a])
  BY InRowRest DEF JInit, Init
<1> QED BY <1>1, <1>2, <1>3, <1>4 DEF TypeInv, JTypeOK

(* Every step of the runs keeps the types and the agreement of a run with the *)
(* command it carries out.                                                    *)
LEMMA TypeNext == TypeInv /\ [JNext]_jvars => TypeInv'
<1> SUFFICES ASSUME TypeInv, [JNext]_jvars PROVE TypeInv'
  OBVIOUS
<1> USE TokenAssumption, RosterAssumption
<1> DEFINE TablesTyped == /\ owner \in [Tokens -> Users \cup {Nobody}]
                          /\ active \subseteq Tokens \ Unissued
                          /\ served \subseteq Users /\ enrolled \subseteq Users
                          /\ shown \subseteq Tokens /\ crashes \in 0 .. MaxCrashes
                          /\ jobs \in 0 .. MaxJobs /\ course \in BOOLEAN
                          /\ mail \in [Users -> Mails \cup {Nobody}]
           RunsTyped == /\ run \in [Admins -> {Rest} \cup Steps]
                        /\ job \in [Admins -> {NoJob} \cup Jobs]
                        /\ \A a \in Admins : InRow(run[a], job[a])
<1>t. TablesTyped /\ RunsTyped /\ JTypeOK
  BY DEF TypeInv, JTypeOK
<1>q. TablesTyped' /\ RunsTyped' => TypeInv'
  BY DEF TypeInv, JTypeOK
<1> HIDE DEF TablesTyped, RunsTyped
<1>job. ASSUME UNCHANGED job PROVE job' \in [Admins -> {NoJob} \cup Jobs]
  BY <1>t, <1>job DEF RunsTyped
<1>rest. ASSUME NEW a \in Admins, RowDone(a), job' \in [Admins -> {NoJob} \cup Jobs],
                \A b \in Admins \ {a} : job'[b] = job[b]
         PROVE  RunsTyped'
  BY <1>rest, RunsKept, InRowRest DEF RunsTyped, RowDone
<1>same. ASSUME NEW a \in Admins, UNCHANGED run, run[a] = Rest,
                job' \in [Admins -> {NoJob} \cup Jobs],
                \A b \in Admins \ {a} : job'[b] = job[b]
         PROVE  RunsTyped'
  <2>1. \A b \in Admins : InRow(run'[b], job'[b])
    BY <1>same, <1>t, InRowRest DEF RunsTyped
  <2> QED BY <2>1, <1>same, <1>t DEF RunsTyped
<1>1. CASE CourseCreate
  BY <1>1, <1>t, <1>q DEF CourseCreate, vars, TablesTyped, RunsTyped, Unissued
<1>2. CASE UNCHANGED jvars
  BY <1>2, <1>t, <1>q DEF jvars, vars, tables, TablesTyped, RunsTyped, Unissued
<1>3. ASSUME NEW a \in Admins, Start(a) PROVE TypeInv'
  <2>1. PICK k \in Kinds, r \in Rosters,
             address \in {MailOf} \cup {[u \in Users |-> m] : m \in Mails} :
          job' = [job EXCEPT ![a] =
                   [kind |-> k, rows |-> r, out |-> <<>>, address |-> address]]
    BY <1>3 DEF Start
  <2>2. address \in [Users -> Mails] /\ r \in Seq(Users)
    BY <2>1
  <2>3. [kind |-> k, rows |-> r, out |-> <<>>, address |-> address] \in Jobs
    BY <2>2 DEF Jobs
  <2>4. job' \in [Admins -> {NoJob} \cup Jobs] /\ \A b \in Admins \ {a} : job'[b] = job[b]
    BY <2>1, <2>3, <1>t DEF RunsTyped
  <2>5. RunsTyped'
    BY <2>4, <1>3, <1>same DEF Start, vars
  <2>6. TablesTyped'
    BY <1>3, <1>t DEF Start, vars, tables, TablesTyped, Unissued
  <2> QED BY <2>5, <2>6, <1>q
<1>4. ASSUME NEW a \in Admins, Emit(a) PROVE TypeInv'
  <2>1. job' \in [Admins -> {NoJob} \cup Jobs] /\ \A b \in Admins \ {a} : job'[b] = job[b]
    BY <1>4, <1>t DEF Emit, RunsTyped
  <2>2. RunsTyped'
    BY <2>1, <1>4, <1>same DEF Emit, vars
  <2>3. job[a] \in Jobs
    BY <1>4, <1>t DEF Emit, RunsTyped
  <2>4. Range(job[a].out) \subseteq Outcomes
    BY <2>3 DEF Jobs, Range
  <2>5. {o.token : o \in Range(job[a].out)} \ {Nobody} \subseteq Tokens
    BY <2>4 DEF Outcomes
  <2>6. TablesTyped'
    BY <1>4, <2>5, <1>t DEF Emit, vars, tables, TablesTyped, Unissued
  <2> QED BY <2>2, <2>6, <1>q
<1>5. ASSUME NEW a \in Admins, Killed(a) PROVE TypeInv'
  <2>1. job' \in [Admins -> {NoJob} \cup Jobs] /\ \A b \in Admins \ {a} : job'[b] = job[b]
    BY <1>5, <1>t DEF Killed, RunsTyped
  <2>2. RunsTyped'
    BY <2>1, <1>5, <1>rest DEF Killed
  <2>3. TablesTyped'
    BY <1>5, <1>t DEF Killed, vars, tables, TablesTyped, Unissued
  <2> QED BY <2>2, <2>3, <1>q
<1>6. ASSUME NEW a \in Admins, CreateExists(a) \/ EnrollLookupFails(a) \/ TokenLookupFails(a)
      PROVE  TypeInv'
  <2>1. PICK status \in Statuses, u \in Users, k \in Kinds :
          AtRow(a, k, u) /\ Report(a, status, Nobody)
    BY <1>6 DEF CreateExists, EnrollLookupFails, TokenLookupFails, Fail, Statuses, Kinds
  <2>2. UNCHANGED <<vars, tables, jobs, shown>>
    BY <1>6 DEF CreateExists, EnrollLookupFails, TokenLookupFails
  <2>3. job[a] \in Jobs /\ job[a].rows # <<>> /\ run[a] = Rest
    BY <2>1, <1>t, AtRowHasJob
  <2>4. job' \in [Admins -> {NoJob} \cup Jobs] /\ \A b \in Admins \ {a} : job'[b] = job[b]
    BY <2>1, <2>3, <1>t, ReportEffect DEF RunsTyped
  <2>5. RunsTyped'
    BY <2>2, <2>3, <2>4, <1>same DEF vars
  <2>6. TablesTyped'
    BY <2>2, <1>t DEF vars, tables, TablesTyped, Unissued
  <2> QED BY <2>5, <2>6, <1>q
<1>go. ASSUME NEW a \in Admins, NEW v \in {Rest} \cup Steps, run' = [run EXCEPT ![a] = v],
              UNCHANGED job, InRow(v, job[a])
       PROVE  RunsTyped'
  BY <1>go, <1>t, RunsKept DEF RunsTyped
<1>mid. ASSUME NEW a \in Admins,
               run[a].step \in {"create", "recheck", "join", "rotate", "insert"}
        PROVE  /\ job[a] \in Jobs /\ job[a].rows # <<>>
               /\ run[a].user \in Users /\ run[a].user = Head(job[a].rows)
               /\ run[a] \in {Rest} \cup Steps
  BY <1>mid, <1>t, StepFields DEF RunsTyped, InRow
<1>report. ASSUME NEW a \in Admins, NEW status \in Statuses, NEW t \in Tokens \cup {Nobody},
                  job[a] \in Jobs, job[a].rows # <<>>, Report(a, status, t)
           PROVE  job' \in [Admins -> {NoJob} \cup Jobs] /\ \A b \in Admins \ {a} : job'[b] = job[b]
  BY <1>report, <1>t, ReportEffect DEF RunsTyped
<1>begin. ASSUME NEW a \in Admins, NEW k \in Kinds, NEW u \in Users, AtRow(a, k, u)
          PROVE  /\ job[a] \in Jobs /\ job[a].rows # <<>> /\ job[a].kind = k
                 /\ u = Head(job[a].rows) /\ run[a] = Rest
  BY <1>begin, <1>t, AtRowHasJob
<1>7. ASSUME NEW a \in Admins, CreateRead(a) PROVE TypeInv'
  <2>1. PICK u \in Users, k \in {"create", "new"} : AtRow(a, k, u) /\ Go(a, "create", u)
    BY <1>7 DEF CreateRead
  <2>2. InRow([step |-> "create", user |-> u], job[a])
    BY <2>1, <1>begin DEF InRow, Kinds
  <2>3. RunsTyped'
    BY <2>1, <2>2, <1>7, <1>go DEF Go, Steps, CreateRead
  <2>4. TablesTyped'
    BY <1>7, <1>t DEF CreateRead, tables, TablesTyped, Unissued
  <2> QED BY <2>3, <2>4, <1>q
<1>8. ASSUME NEW a \in Admins, CreateCommit(a) PROVE TypeInv'
  <2>1. job[a] \in Jobs /\ job[a].rows # <<>> /\ run[a].user \in Users
    BY <1>8, <1>mid DEF CreateCommit, At
  <2>2. PICK status \in Statuses : Report(a, status, Nobody)
    BY <1>8 DEF CreateCommit, Fail, Statuses
  <2>3. RunsTyped'
    BY <2>1, <2>2, <1>8, <1>report, <1>rest DEF CreateCommit
  <2>4. mail' \in [Users -> Mails \cup {Nobody}]
    <3>1. job[a].address[run[a].user] \in Mails
      BY <2>1 DEF Jobs
    <3> QED BY <3>1, <1>8, <1>t DEF CreateCommit, TablesTyped
  <2>5. TablesTyped'
    BY <2>4, <1>8, <1>t DEF CreateCommit, TablesTyped, Unissued
  <2> QED BY <2>3, <2>5, <1>q
<1>9. ASSUME NEW a \in Admins, EnrollRead(a) PROVE TypeInv'
  <2>1. PICK u \in Users :
          /\ AtRow(a, "enroll", u)
          /\ \/ Report(a, "exists", Nobody) /\ UNCHANGED run
             \/ Go(a, "recheck", u) /\ UNCHANGED job
    BY <1>9 DEF EnrollRead
  <2>2. job[a] \in Jobs /\ job[a].rows # <<>> /\ run[a] = Rest
    BY <2>1, <1>begin DEF Kinds
  <2>3. InRow([step |-> "recheck", user |-> u], job[a])
    BY <2>1, <1>begin DEF InRow, Kinds
  <2>4. RunsTyped'
    <3>1. CASE Report(a, "exists", Nobody) /\ UNCHANGED run
      BY <3>1, <2>2, <1>report, <1>same DEF Statuses
    <3>2. CASE Go(a, "recheck", u) /\ UNCHANGED job
      BY <3>2, <2>3, <1>go DEF Go, Steps
    <3> QED BY <2>1, <3>1, <3>2
  <2>5. TablesTyped'
    BY <1>9, <1>t DEF EnrollRead, tables, TablesTyped, Unissued
  <2> QED BY <2>4, <2>5, <1>q
<1>10. ASSUME NEW a \in Admins, EnrollRecheck(a) PROVE TypeInv'
  <2>1. job[a] \in Jobs /\ job[a].rows # <<>> /\ run[a].user \in Users
    BY <1>10, <1>mid DEF EnrollRecheck, At
  <2>2. RunsTyped'
    <3>1. CASE Report(a, "enrolled", Nobody) /\ RowDone(a)
      BY <3>1, <2>1, <1>report, <1>rest DEF Statuses
    <3>2. CASE Go(a, "join", run[a].user) /\ UNCHANGED job
      <4>1. job[a].kind = "enroll" /\ run[a].user = Head(job[a].rows)
        BY <1>10, <1>t DEF EnrollRecheck, At, RunsTyped, InRow
      <4>2. InRow([step |-> "join", user |-> run[a].user], job[a])
        BY <4>1, <2>1 DEF InRow
      <4> QED BY <3>2, <4>2, <2>1, <1>go DEF Go, Steps
    <3> QED BY <1>10, <3>1, <3>2 DEF EnrollRecheck
  <2>3. TablesTyped'
    BY <1>10, <1>t DEF EnrollRecheck, tables, TablesTyped, Unissued
  <2> QED BY <2>2, <2>3, <1>q
<1>11. ASSUME NEW a \in Admins, EnrollCommit(a) PROVE TypeInv'
  <2>1. job[a] \in Jobs /\ job[a].rows # <<>> /\ run[a].user \in Users
    BY <1>11, <1>mid DEF EnrollCommit, At
  <2>2. PICK status \in Statuses : Report(a, status, Nobody)
    BY <1>11 DEF EnrollCommit, Fail, Statuses
  <2>3. RunsTyped'
    BY <2>1, <2>2, <1>11, <1>report, <1>rest DEF EnrollCommit
  <2>4. TablesTyped'
    BY <2>1, <1>11, <1>t DEF EnrollCommit, TablesTyped, Unissued
  <2> QED BY <2>3, <2>4, <1>q
<1>12. ASSUME NEW a \in Admins, IssueRead(a) PROVE TypeInv'
  <2>1. PICK u \in Users : AtRow(a, "issue", u) /\ ReadActive(a, u)
    BY <1>12 DEF IssueRead
  <2>2. PICK s \in {"insert", "rotate"} :
          run' = [run EXCEPT ![a] = [step |-> s, user |-> u, seen |-> TokensOf(u)]]
    BY <2>1 DEF ReadActive
  <2>3. InRow([step |-> s, user |-> u, seen |-> TokensOf(u)], job[a])
    BY <2>1, <1>begin DEF InRow, Kinds
  <2>4. [step |-> s, user |-> u, seen |-> TokensOf(u)] \in Steps
    BY <1>t DEF Steps, TokensOf, TablesTyped
  <2>5. RunsTyped'
    BY <2>2, <2>3, <2>4, <1>12, <1>go DEF IssueRead
  <2>6. TablesTyped'
    BY <1>12, <1>t DEF IssueRead, ReadActive, tables, TablesTyped, Unissued
  <2> QED BY <2>5, <2>6, <1>q
<1>13. ASSUME NEW a \in Admins, IssueRevokesOld(a) PROVE TypeInv'
  <2>1. /\ job[a] \in Jobs /\ job[a].rows # <<>> /\ run[a].user \in Users
        /\ run[a].user = Head(job[a].rows) /\ job[a].kind = "issue"
    BY <1>13, <1>mid, <1>t DEF IssueRevokesOld, RevokeOld, RunsTyped, InRow
  <2>2. InRow([step |-> "insert", user |-> run[a].user, seen |-> {}], job[a])
    BY <2>1 DEF InRow
  <2>3. [step |-> "insert", user |-> run[a].user, seen |-> {}] \in Steps
    BY <2>1 DEF Steps
  <2>4. RunsTyped'
    BY <2>2, <2>3, <1>13, <1>go DEF IssueRevokesOld, RevokeOld
  <2>5. TablesTyped'
    BY <1>13, <1>t DEF IssueRevokesOld, RevokeOld, tables, TablesTyped, Unissued
  <2> QED BY <2>4, <2>5, <1>q
<1>14. ASSUME NEW a \in Admins, IssueCommit(a) PROVE TypeInv'
  <2>1. job[a] \in Jobs /\ job[a].rows # <<>> /\ run[a].user \in Users
    BY <1>14, <1>mid DEF IssueCommit, InsertNew, InsertRefused
  <2>2. /\ RowDone(a) /\ UNCHANGED <<tables, jobs, shown, crashes>>
        /\ served' \subseteq Users
        /\ active' \subseteq Tokens
    BY <1>14, <2>1, <1>t DEF IssueCommit, InsertNew, InsertRefused, RowDone, TablesTyped, Unissued
  <2>3. PICK status \in Statuses, t \in Tokens \cup {Nobody} : Report(a, status, t)
    <3>1. CASE InsertRefused(a) /\ Fail(a)
      BY <3>1 DEF Fail, Statuses
    <3>2. CASE \E t \in active' \ active : Report(a, "issued", t)
      BY <3>2, <2>2 DEF Statuses
    <3> QED BY <1>14, <3>1, <3>2 DEF IssueCommit
  <2>4. RunsTyped'
    BY <2>1, <2>2, <2>3, <1>report, <1>rest
  <2>5. owner' \in [Tokens -> Users \cup {Nobody}] /\ active' \subseteq Tokens \ Unissued'
    <3>1. CASE InsertRefused(a)
      BY <3>1, <1>t DEF InsertRefused, TablesTyped, Unissued
    <3>2. CASE InsertNew(a)
      <4>1. PICK x \in Unissued : /\ owner' = [owner EXCEPT ![x] = run[a].user]
                                  /\ active' = active \cup {x}
        BY <3>2 DEF InsertNew
      <4>2. owner' \in [Tokens -> Users \cup {Nobody}]
        BY <4>1, <2>1, <1>t DEF TablesTyped
      <4>3. \A t2 \in active' : t2 \in Tokens /\ owner'[t2] # Nobody
        BY <4>1, <2>1, <1>t DEF TablesTyped, Unissued
      <4> QED BY <4>2, <4>3 DEF Unissued
    <3> QED BY <1>14, <3>1, <3>2 DEF IssueCommit
  <2>6. TablesTyped'
    BY <2>2, <2>5, <1>t DEF tables, TablesTyped
  <2> QED BY <2>4, <2>6, <1>q
<1>15. ASSUME NEW a \in Admins, RevokeRead(a) \/ PrefixRead(a) PROVE TypeInv'
  <2>1. PICK S \in SUBSET Tokens : run' = [run EXCEPT ![a] = [step |-> "revoke", seen |-> S]]
    <3>1. \A u : TokensOf(u) \in SUBSET Tokens
      BY <1>t DEF TokensOf, TablesTyped
    <3>2. \A p : {t \in active : PrefixOf[t] = p} \in SUBSET Tokens
      BY <1>t DEF TablesTyped
    <3> QED BY <1>15, <3>1, <3>2 DEF RevokeRead, PrefixRead, ReadForRevoke
  <2>2. InRow([step |-> "revoke", seen |-> S], job[a])
    BY <1>15, <1>begin DEF RevokeRead, PrefixRead, InRow, Kinds
  <2>3. RunsTyped'
    BY <2>1, <2>2, <1>15, <1>go DEF RevokeRead, PrefixRead, Steps
  <2>4. TablesTyped'
    BY <1>15, <1>t DEF RevokeRead, PrefixRead, ReadForRevoke, tables, TablesTyped, Unissued
  <2> QED BY <2>3, <2>4, <1>q
<1>16. ASSUME NEW a \in Admins, RevokeCommit(a) PROVE TypeInv'
  <2>1. run[a].step = "revoke" /\ RowDone(a) /\ UNCHANGED <<tables, jobs, shown, crashes, owner>>
    BY <1>16 DEF RevokeCommit, RevokeSeen, RowDone
  <2>2. job' \in [Admins -> {NoJob} \cup Jobs] /\ \A b \in Admins \ {a} : job'[b] = job[b]
    <3>1. CASE job[a] = NoJob
      BY <3>1, <1>16, <1>t DEF RevokeCommit, RunsTyped
    <3>2. CASE job[a] # NoJob
      <4>1. job[a] \in Jobs /\ job[a].rows # <<>>
        BY <3>2, <2>1, <1>t DEF RunsTyped, InRow
      <4> QED BY <4>1, <3>2, <1>16, <1>report DEF RevokeCommit, Statuses
    <3> QED BY <3>1, <3>2
  <2>3. RunsTyped'
    BY <2>1, <2>2, <1>rest
  <2>4. active' \subseteq active /\ served' \subseteq served
    BY <1>16 DEF RevokeCommit, RevokeSeen
  <2>5. TablesTyped'
    BY <2>1, <2>4, <1>t DEF tables, TablesTyped, Unissued
  <2> QED BY <2>3, <2>5, <1>q
<1> QED BY <1>1, <1>2, <1>3, <1>4, <1>5, <1>6, <1>7, <1>8, <1>9, <1>10, <1>11, <1>12,
           <1>13, <1>14, <1>15, <1>16 DEF JNext

(* The tables, the runs and their commands have the shape the code gives      *)
(* them, however many runs there are.                                         *)
THEOREM RosterTypeCorrect == JSpec => []JTypeOK
<1>1. TypeInv => JTypeOK
  BY DEF TypeInv
<1> QED BY TypeInit, TypeNext, <1>1, PTL DEF JSpec

---------------------------------------------------------------------------
(* What a step may do to the tables and what it may report. *)

(* A row is reported by a run that has one. *)
Reports(a, status, t) ==
  job[a] \in Jobs /\ job[a].rows # <<>> /\ Report(a, status, t)

(* The report agrees with the tables the step leaves, an error with those it  *)
(* found.                                                                     *)
Sound(a, status, t) ==
  LET k == job[a].kind
      u == Head(job[a].rows)
  IN  /\ status = "error" => Cause(k, u, job[a].address[u])
      /\ k \in {"create", "new"} /\ status # "error" => mail'[u] # Nobody
      /\ k = "enroll" /\ status # "error" => u \in enrolled'
      /\ status = "issued" => t \in Tokens /\ owner'[t] = u

(* The step issues t to the user of a's row. *)
Issues(a, t) ==
  /\ run[a].step = "insert" /\ t \in Unissued
  /\ IndexAllows(run[a].user)
  /\ owner' = [owner EXCEPT ![t] = run[a].user]
  /\ active' = active \cup {t}
  /\ Reports(a, "issued", t)

(* A command is started or ends without a report, or one row is reported.     *)
LEMMA JobSteps ==
  ASSUME TypeInv, [JNext]_jvars
  PROVE  \/ UNCHANGED <<job, shown>>
         \/ \E a \in Admins : Start(a) \/ Emit(a) \/ Killed(a)
         \/ /\ UNCHANGED shown
            /\ \E a \in Admins, status \in Statuses, t \in Tokens \cup {Nobody} :
                 Reports(a, status, t) /\ Sound(a, status, t)
<1> USE TokenAssumption
<1> DEFINE Goal == \/ UNCHANGED <<job, shown>>
                   \/ \E a \in Admins : Start(a) \/ Emit(a) \/ Killed(a)
                   \/ /\ UNCHANGED shown
                      /\ \E a \in Admins, status \in Statuses, t \in Tokens \cup {Nobody} :
                           Reports(a, status, t) /\ Sound(a, status, t)
<1> SUFFICES Goal
  OBVIOUS
<1>t. JTypeOK /\ \A a \in Admins : InRow(run[a], job[a])
  BY DEF TypeInv
<1>q. ASSUME NEW a \in Admins, NEW status \in Statuses, NEW t \in Tokens \cup {Nobody},
             Reports(a, status, t), Sound(a, status, t), UNCHANGED shown
      PROVE  Goal
  BY <1>q
<1>begin. ASSUME NEW a \in Admins, NEW k \in Kinds, NEW u \in Users, AtRow(a, k, u)
          PROVE  /\ job[a] \in Jobs /\ job[a].rows # <<>> /\ job[a].kind = k
                 /\ u = Head(job[a].rows)
  BY <1>begin, <1>t, AtRowHasJob
<1>mid. ASSUME NEW a \in Admins,
               run[a].step \in {"create", "recheck", "join", "rotate", "insert"}
        PROVE  /\ job[a] \in Jobs /\ job[a].rows # <<>>
               /\ run[a].user = Head(job[a].rows) /\ run[a].user \in Users
  BY <1>mid, <1>t, StepFields DEF JTypeOK, InRow
<1> HIDE DEF Goal
<1>0. ASSUME UNCHANGED <<job, shown>> PROVE Goal
  BY <1>0 DEF Goal
<1>1. ASSUME \E a \in Admins : Start(a) \/ Emit(a) \/ Killed(a) PROVE Goal
  BY <1>1 DEF Goal
<1>2. ASSUME NEW a \in Admins, CreateExists(a) PROVE Goal
  <2>1. PICK u \in Users : AtRow(a, "create", u) /\ Exists(u) /\ Report(a, "exists", Nobody)
    BY <1>2 DEF CreateExists
  <2>2. Reports(a, "exists", Nobody)
    BY <2>1, <1>begin DEF Reports, Kinds
  <2>3. Sound(a, "exists", Nobody)
    BY <2>1, <1>begin, <1>2 DEF Sound, Kinds, CreateExists, tables, Exists
  <2> QED BY <2>2, <2>3, <1>2, <1>q DEF CreateExists, Statuses
<1>3. ASSUME NEW a \in Admins, CreateCommit(a) PROVE Goal
  <2>1. /\ job[a] \in Jobs /\ job[a].rows # <<>> /\ job[a].kind \in {"create", "new"}
        /\ run[a].user = Head(job[a].rows) /\ run[a].user \in Users
    BY <1>3, <1>mid, <1>t DEF CreateCommit, At, InRow
  <2> DEFINE u == run[a].user
             m == job[a].address[u]
  <2>2. CASE UserFits(u, m) /\ mail' = [mail EXCEPT ![u] = m] /\ Report(a, "created", Nobody)
    <3>1. m \in Mails
      BY <2>1 DEF Jobs
    <3>2. mail'[u] # Nobody
      BY <2>1, <2>2, <3>1, <1>t, RosterAssumption DEF JTypeOK
    <3>3. Sound(a, "created", Nobody)
      BY <2>1, <3>2 DEF Sound
    <3> QED BY <2>1, <2>2, <3>3, <1>3, <1>q DEF CreateCommit, Reports, Statuses
  <2>3. CASE ~ UserFits(u, m) /\ Fail(a)
    <3>1. Sound(a, "error", Nobody)
      BY <2>1, <2>3 DEF Sound, Cause
    <3> QED BY <2>1, <2>3, <3>1, <1>3, <1>q DEF CreateCommit, Reports, Fail, Statuses
  <2> QED BY <1>3, <2>2, <2>3 DEF CreateCommit
<1>4. ASSUME NEW a \in Admins, EnrollLookupFails(a) \/ TokenLookupFails(a) PROVE Goal
  <2>1. PICK k \in {"enroll", "issue", "revoke"}, u \in Users :
          /\ AtRow(a, k, u) /\ Fail(a)
          /\ ~ Exists(u) \/ (k = "enroll" /\ ~ course)
    BY <1>4 DEF EnrollLookupFails, TokenLookupFails
  <2>2. Reports(a, "error", Nobody)
    BY <2>1, <1>begin DEF Reports, Kinds, Fail
  <2>3. Sound(a, "error", Nobody)
    BY <2>1, <1>begin DEF Sound, Kinds, Cause
  <2> QED BY <2>2, <2>3, <1>4, <1>q DEF EnrollLookupFails, TokenLookupFails, Statuses
<1>5. ASSUME NEW a \in Admins, EnrollRead(a) PROVE Goal
  <2>1. PICK u \in Users :
          /\ AtRow(a, "enroll", u)
          /\ \/ u \in enrolled /\ Report(a, "exists", Nobody)
             \/ UNCHANGED job
    BY <1>5 DEF EnrollRead
  <2>2. CASE u \in enrolled /\ Report(a, "exists", Nobody)
    <3>1. Reports(a, "exists", Nobody)
      BY <2>1, <2>2, <1>begin DEF Reports, Kinds
    <3>2. Sound(a, "exists", Nobody)
      BY <2>1, <2>2, <1>begin, <1>5 DEF Sound, Kinds, EnrollRead, tables
    <3> QED BY <3>1, <3>2, <1>5, <1>q DEF EnrollRead, Statuses
  <2> QED BY <2>1, <2>2, <1>0, <1>5 DEF EnrollRead
<1>6. ASSUME NEW a \in Admins, EnrollRecheck(a) \/ EnrollCommit(a) PROVE Goal
  <2>1. /\ job[a] \in Jobs /\ job[a].rows # <<>> /\ job[a].kind = "enroll"
        /\ run[a].user = Head(job[a].rows)
    BY <1>6, <1>mid, <1>t DEF EnrollRecheck, EnrollCommit, At, InRow
  <2>2. CASE run[a].user \in enrolled' /\ Report(a, "enrolled", Nobody)
    <3>1. Sound(a, "enrolled", Nobody)
      BY <2>1, <2>2 DEF Sound
    <3> QED BY <2>1, <2>2, <3>1, <1>6, <1>q DEF EnrollRecheck, EnrollCommit, Reports, Statuses
  <2>3. CASE run[a].user \in enrolled /\ Fail(a)
    <3>1. Sound(a, "error", Nobody)
      BY <2>1, <2>3 DEF Sound, Cause
    <3> QED BY <2>1, <2>3, <3>1, <1>6, <1>q DEF EnrollRecheck, EnrollCommit, Reports, Fail, Statuses
  <2> QED BY <1>6, <2>2, <2>3, <1>0 DEF EnrollRecheck, EnrollCommit, tables
<1>7. ASSUME NEW a \in Admins, IssueCommit(a) PROVE Goal
  <2>1. /\ job[a] \in Jobs /\ job[a].rows # <<>> /\ job[a].kind = "issue"
        /\ run[a].user = Head(job[a].rows)
    BY <1>7, <1>mid, <1>t DEF IssueCommit, InsertNew, InsertRefused, InRow
  <2>2. CASE InsertNew(a) /\ \E t \in active' \ active : Report(a, "issued", t)
    <3>1. PICK t \in active' \ active : Report(a, "issued", t)
      BY <2>2
    <3>2. t \in Unissued /\ owner' = [owner EXCEPT ![t] = run[a].user]
      <4>1. PICK x \in Unissued : /\ owner' = [owner EXCEPT ![x] = run[a].user]
                                  /\ active' = active \cup {x}
        BY <2>2 DEF InsertNew
      <4>2. t = x
        BY <3>1, <4>1
      <4> QED BY <4>1, <4>2
    <3>3. t \in Tokens /\ owner'[t] = run[a].user
      BY <3>2, <1>t DEF Unissued, JTypeOK
    <3>4. Sound(a, "issued", t)
      BY <2>1, <3>3 DEF Sound
    <3> QED BY <2>1, <3>1, <3>3, <3>4, <1>7, <1>q DEF IssueCommit, Reports, Statuses
  <2>3. CASE InsertRefused(a) /\ Fail(a)
    <3>1. Sound(a, "error", Nobody)
      BY <2>1, <2>3 DEF Sound, Cause, InsertRefused, IndexAllows
    <3> QED BY <2>1, <2>3, <3>1, <1>7, <1>q DEF IssueCommit, Reports, Fail, Statuses
  <2> QED BY <1>7, <2>2, <2>3 DEF IssueCommit
<1>8. ASSUME NEW a \in Admins, RevokeCommit(a) PROVE Goal
  <2>1. CASE job[a] = NoJob
    BY <2>1, <1>8, <1>0 DEF RevokeCommit
  <2>2. CASE job[a] # NoJob
    <3>1. job[a] \in Jobs /\ job[a].rows # <<>> /\ job[a].kind = "revoke"
      BY <2>2, <1>8, <1>t DEF RevokeCommit, RevokeSeen, InRow
    <3>2. Sound(a, "revoked", Nobody)
      BY <3>1 DEF Sound
    <3> QED BY <3>1, <3>2, <2>2, <1>8, <1>q DEF RevokeCommit, Reports, Statuses
  <2> QED BY <2>1, <2>2
<1>9. ASSUME NEW a \in Admins,
             \/ CreateRead(a) \/ IssueRead(a) \/ IssueRevokesOld(a)
             \/ RevokeRead(a) \/ PrefixRead(a)
      PROVE  Goal
  BY <1>9, <1>0 DEF CreateRead, IssueRead, IssueRevokesOld, RevokeRead, PrefixRead
<1>10. CASE CourseCreate
  BY <1>10, <1>0 DEF CourseCreate
<1>11. CASE UNCHANGED jvars
  BY <1>11, <1>0 DEF jvars
<1> QED BY <1>1, <1>2, <1>3, <1>4, <1>5, <1>6, <1>7, <1>8, <1>9, <1>10, <1>11 DEF JNext

(* A step takes tokens away from the accepted ones, or it issues one.         *)
LEMMA TokenSteps ==
  ASSUME TypeInv, [JNext]_jvars
  PROVE  \/ UNCHANGED owner /\ active' \subseteq active
         \/ \E a \in Admins, t \in Tokens : Issues(a, t)
<1>1. ASSUME NEW a \in Admins, IssueCommit(a)
      PROVE  \/ UNCHANGED owner /\ active' \subseteq active
             \/ \E t \in Tokens : Issues(a, t)
  <2>1. CASE InsertNew(a) /\ \E t \in active' \ active : Report(a, "issued", t)
    <3>1. PICK t \in active' \ active : Report(a, "issued", t)
      BY <2>1
    <3>2. /\ t \in Unissued /\ owner' = [owner EXCEPT ![t] = run[a].user]
          /\ active' = active \cup {t} /\ run[a].step = "insert" /\ IndexAllows(run[a].user)
      BY <2>1, <3>1 DEF InsertNew
    <3>3. job[a] \in Jobs /\ job[a].rows # <<>>
      BY <3>2 DEF TypeInv, InRow
    <3> QED BY <3>1, <3>2, <3>3 DEF Issues, Reports, Unissued
  <2>2. CASE InsertRefused(a)
    BY <2>2 DEF InsertRefused
  <2> QED BY <1>1, <2>1, <2>2 DEF IssueCommit
<1>2. ASSUME NEW a \in Admins,
             \/ Start(a) \/ Emit(a) \/ Killed(a) \/ CreateExists(a) \/ CreateRead(a)
             \/ CreateCommit(a) \/ EnrollLookupFails(a) \/ EnrollRead(a) \/ EnrollRecheck(a)
             \/ EnrollCommit(a) \/ TokenLookupFails(a) \/ IssueRead(a) \/ RevokeRead(a)
             \/ PrefixRead(a)
      PROVE  UNCHANGED <<owner, active>>
  BY <1>2 DEF Start, Emit, Killed, CreateExists, CreateRead, CreateCommit, EnrollLookupFails,
     EnrollRead, EnrollRecheck, EnrollCommit, TokenLookupFails, IssueRead, ReadActive,
     RevokeRead, PrefixRead, ReadForRevoke, vars
<1>3. ASSUME NEW a \in Admins, IssueRevokesOld(a) \/ RevokeCommit(a)
      PROVE  UNCHANGED owner /\ active' \subseteq active
  BY <1>3 DEF IssueRevokesOld, RevokeOld, RevokeCommit, RevokeSeen
<1>4. CASE CourseCreate \/ UNCHANGED jvars
  BY <1>4 DEF CourseCreate, jvars, vars
<1> QED BY <1>1, <1>2, <1>3, <1>4 DEF JNext

---------------------------------------------------------------------------
(* One active token, and nobody shut out by a rotation. *)

(* No two accepted tokens of one student. *)
Single == \A t1, t2 \in active : owner[t1] = owner[t2] => t1 = t2

LEMMA SingleNext ==
  ASSUME TypeInv, Single, [JNext]_jvars
  PROVE  Single'
<1>1. CASE UNCHANGED owner /\ active' \subseteq active
  BY <1>1 DEF Single
<1>2. ASSUME NEW a \in Admins, NEW t \in Tokens, Issues(a, t) PROVE Single'
  <2>1. t \in Unissued /\ active \subseteq Tokens \ Unissued /\ owner \in [Tokens -> Users \cup {Nobody}]
    BY <1>2 DEF Issues, TypeInv, JTypeOK
  <2>2. owner'[t] = run[a].user /\ \A x \in active : x # t /\ owner'[x] = owner[x]
    BY <1>2, <2>1 DEF Issues
  <2>3. \A x \in active : owner[x] # run[a].user
    BY <1>2 DEF Issues, IndexAllows, TokensOf
  <2>4. active' = active \cup {t}
    BY <1>2 DEF Issues
  <2> QED BY <2>2, <2>3, <2>4 DEF Single
<1> QED BY TokenSteps, <1>1, <1>2

LEMMA SingleIsOne == JTypeOK /\ Single => OneActive
<1> SUFFICES ASSUME Single, NEW u \in Users PROVE Cardinality(TokensOf(u)) <= 1
  BY DEF OneActive
<1>1. CASE TokensOf(u) = {}
  BY <1>1, FS_EmptySet
<1>2. CASE TokensOf(u) # {}
  <2>1. PICK t : t \in TokensOf(u)
    BY <1>2
  <2>2. TokensOf(u) = {t}
    BY <2>1 DEF Single, TokensOf
  <2> QED BY <2>2, FS_Singleton
<1> QED BY <1>1, <1>2

(* However many runs issue, rotate and revoke at a time, a student has at     *)
(* most one token that the backend accepts (models.py 87-89).                 *)
THEOREM RosterOneActive == JSpec => []OneActive
<1>1. JInit => TypeInv /\ Single
  BY TypeInit DEF JInit, Init, Single
<1>2. TypeInv /\ Single /\ [JNext]_jvars => (TypeInv /\ Single)'
  BY TypeNext, SingleNext
<1>3. TypeInv /\ Single => OneActive
  BY SingleIsOne DEF TypeInv
<1> QED BY <1>1, <1>2, <1>3, PTL DEF JSpec

(* A rotation holds no token but of the student it is for. *)
SeenOwned == \A a \in Admins : run[a].step = "rotate" =>
               \A t \in run[a].seen : owner[t] = run[a].user

Rotating(a, u) == run[a].step \in {"rotate", "insert"} /\ run[a].user = u

LEMMA RotationNext ==
  ASSUME TypeInv, SeenOwned, RotationKeepsAccess, [JNext]_jvars
  PROVE  SeenOwned' /\ RotationKeepsAccess'
<1> USE TokenAssumption
<1> DEFINE Goal == SeenOwned' /\ RotationKeepsAccess'
           Served == \A u \in served :
             TokensOf(u) # {} \/ \E a \in Admins : Rotating(a, u)
<1> SUFFICES Goal
  OBVIOUS
<1>t. /\ run \in [Admins -> {Rest} \cup Steps] /\ owner \in [Tokens -> Users \cup {Nobody}]
      /\ active \subseteq Tokens \ Unissued /\ crashes \in Nat /\ served \subseteq Users
  BY DEF TypeInv, JTypeOK
<1>seen. ASSUME NEW a \in Admins, run[a].step \in {"rotate", "revoke"}
         PROVE  run[a].seen \in SUBSET Tokens
  BY <1>seen, <1>t, StepFields
<1>s. crashes = 0 => Served
  BY DEF RotationKeepsAccess, Rotating
<1>q. ASSUME SeenOwned', crashes' = 0 => Served' PROVE Goal
  BY <1>q DEF RotationKeepsAccess, Rotating
<1> HIDE DEF Goal
<1>keep. ASSUME NEW a \in Admins, UNCHANGED <<owner, active, served, crashes>>,
                \A b \in Admins \ {a} : run'[b] = run[b],
                run'[a].step = "rotate" => \A t \in run'[a].seen : owner[t] = run'[a].user,
                run[a] = Rest \/ run[a].step \in {"create", "recheck", "join", "revoke"}
         PROVE  Goal
  <2>1. SeenOwned'
    BY <1>keep DEF SeenOwned
  <2>2. crashes' = 0 => Served'
    <3> SUFFICES ASSUME crashes = 0, NEW u \in served
                 PROVE  (TokensOf(u) # {})' \/ \E b \in Admins : Rotating(b, u)'
      BY <1>keep
    <3>1. CASE TokensOf(u) # {}
      BY <3>1, <1>keep DEF TokensOf
    <3>2. ASSUME NEW b \in Admins, Rotating(b, u) PROVE Rotating(b, u)'
      <4>1. b # a
        BY <3>2, <1>keep DEF Rotating, Rest
      <4> QED BY <4>1, <3>2, <1>keep DEF Rotating
    <3> QED BY <1>s, <3>1, <3>2
  <2> QED BY <2>1, <2>2, <1>q
<1>same. ASSUME UNCHANGED <<owner, active, served, crashes, run>> PROVE Goal
  <2>1. SeenOwned' /\ (Served => Served')
    BY <1>same DEF SeenOwned, TokensOf, Rotating
  <2> QED BY <2>1, <1>s, <1>q, <1>same
<1>1. ASSUME NEW a \in Admins, Killed(a) PROVE Goal
  <2>1. crashes' # 0
    BY <1>1, <1>t DEF Killed
  <2>2. SeenOwned'
    BY <1>1, <1>t DEF Killed, RowDone, SeenOwned, Rest
  <2> QED BY <2>1, <2>2, <1>q
<1>2. ASSUME NEW a \in Admins,
             \/ Start(a) \/ Emit(a) \/ CreateExists(a) \/ EnrollLookupFails(a) \/ TokenLookupFails(a)
      PROVE  Goal
  BY <1>2, <1>same DEF Start, Emit, CreateExists, EnrollLookupFails, TokenLookupFails, vars
<1>3. ASSUME NEW a \in Admins, CreateRead(a) \/ CreateCommit(a) PROVE Goal
  BY <1>3, <1>t, <1>keep
  DEF CreateRead, CreateCommit, Go, RowDone, Rest, AtRow, At
<1>4. ASSUME NEW a \in Admins, EnrollRead(a) PROVE Goal
  BY <1>4, <1>t, <1>keep, <1>same DEF EnrollRead, Go, Rest, AtRow
<1>5. ASSUME NEW a \in Admins, EnrollRecheck(a) \/ EnrollCommit(a) PROVE Goal
  BY <1>5, <1>t, <1>keep DEF EnrollRecheck, EnrollCommit, Go, RowDone, Rest, At
<1>6. ASSUME NEW a \in Admins, RevokeRead(a) \/ PrefixRead(a) PROVE Goal
  BY <1>6, <1>t, <1>keep DEF RevokeRead, PrefixRead, ReadForRevoke, AtRow
<1>7. ASSUME NEW a \in Admins, IssueRead(a) PROVE Goal
  <2>1. PICK u \in Users, s \in {"insert", "rotate"} :
          run' = [run EXCEPT ![a] = [step |-> s, user |-> u, seen |-> TokensOf(u)]]
    BY <1>7 DEF IssueRead, ReadActive
  <2>2. run'[a] = [step |-> s, user |-> u, seen |-> TokensOf(u)] /\ run[a] = Rest
    BY <2>1, <1>7, <1>t DEF IssueRead, ReadActive
  <2>3. \A t \in run'[a].seen : owner[t] = run'[a].user
    BY <2>2 DEF TokensOf
  <2> QED BY <2>1, <2>2, <2>3, <1>7, <1>t, <1>keep DEF IssueRead, ReadActive
<1>8. ASSUME NEW a \in Admins, IssueRevokesOld(a) PROVE Goal
  <2>1. /\ run[a].step = "rotate" /\ active' = active \ run[a].seen
        /\ run'[a] = [step |-> "insert", user |-> run[a].user, seen |-> {}]
        /\ \A b \in Admins \ {a} : run'[b] = run[b]
        /\ UNCHANGED <<owner, served, crashes>>
    BY <1>8, <1>t DEF IssueRevokesOld, RevokeOld
  <2>2. SeenOwned'
    BY <2>1 DEF SeenOwned
  <2>3. crashes' = 0 => Served'
    <3> SUFFICES ASSUME crashes = 0, NEW u \in served
                 PROVE  (TokensOf(u) # {})' \/ \E b \in Admins : Rotating(b, u)'
      BY <2>1
    <3>1. CASE u = run[a].user
      BY <3>1, <2>1 DEF Rotating
    <3>2. CASE TokensOf(u) # {} /\ u # run[a].user
      <4>1. PICK t \in active : owner[t] = u
        BY <3>2 DEF TokensOf
      <4>2. t \in active'
        BY <4>1, <3>2, <2>1 DEF SeenOwned
      <4> QED BY <4>1, <4>2, <2>1 DEF TokensOf
    <3>3. ASSUME NEW b \in Admins, Rotating(b, u), u # run[a].user PROVE Rotating(b, u)'
      BY <3>3, <2>1 DEF Rotating
    <3> QED BY <1>s, <3>1, <3>2, <3>3
  <2> QED BY <2>2, <2>3, <1>q
<1>9. ASSUME NEW a \in Admins, IssueCommit(a) PROVE Goal
  <2>1. /\ run[a].step = "insert" /\ run' = [run EXCEPT ![a] = Rest] /\ UNCHANGED crashes
        /\ active \subseteq active' /\ served' \subseteq served \cup {run[a].user}
    BY <1>9 DEF IssueCommit, InsertNew, InsertRefused
  <2>2. \A t \in Tokens : owner[t] # Nobody => owner'[t] = owner[t]
    BY <1>9, <1>t DEF IssueCommit, InsertNew, InsertRefused, Unissued
  <2>3. \A u : TokensOf(u) # {} => (TokensOf(u) # {})'
    <3> SUFFICES ASSUME NEW u, NEW t \in active, owner[t] = u PROVE (TokensOf(u) # {})'
      BY DEF TokensOf
    <3>1. t \in active' /\ owner'[t] = u
      BY <2>1, <2>2, <1>t DEF Unissued
    <3> QED BY <3>1 DEF TokensOf
  <2>4. \E t \in active' : owner'[t] = run[a].user
    <3>1. CASE InsertRefused(a)
      <4>1. PICK t \in active : owner[t] = run[a].user
        BY <3>1 DEF InsertRefused, IndexAllows, TokensOf
      <4> QED BY <4>1, <2>1, <2>2, <1>t DEF Unissued
    <3>2. CASE InsertNew(a)
      <4>1. PICK t \in Unissued : /\ owner' = [owner EXCEPT ![t] = run[a].user]
                                  /\ active' = active \cup {t}
        BY <3>2 DEF InsertNew
      <4> QED BY <4>1, <1>t DEF Unissued
    <3> QED BY <1>9, <3>1, <3>2 DEF IssueCommit
  <2>5. SeenOwned'
    <3> SUFFICES ASSUME NEW b \in Admins, run'[b].step = "rotate", NEW t \in run'[b].seen
                 PROVE  owner'[t] = run'[b].user
      BY DEF SeenOwned
    <3>1. b # a /\ run'[b] = run[b]
      BY <2>1, <1>t DEF Rest
    <3>2. t \in Tokens /\ owner[t] = run[b].user /\ run[b].user \in Users
      BY <3>1, <1>t, <1>seen, StepFields DEF SeenOwned
    <3> QED BY <3>1, <3>2, <2>2
  <2>6. crashes' = 0 => Served'
    <3> SUFFICES ASSUME crashes = 0, NEW u \in served'
                 PROVE  (\E t \in active' : owner'[t] = u) \/ \E b \in Admins : Rotating(b, u)'
      BY <2>1 DEF TokensOf
    <3>1. CASE u = run[a].user
      BY <3>1, <2>4
    <3>2. CASE u # run[a].user
      <4>1. u \in served
        BY <3>2, <2>1
      <4>2. CASE TokensOf(u) # {}
        BY <4>2, <2>3 DEF TokensOf
      <4>3. ASSUME NEW b \in Admins, Rotating(b, u) PROVE Rotating(b, u)'
        <5>1. b # a /\ run'[b] = run[b]
          BY <4>3, <3>2, <2>1, <1>t DEF Rotating
        <5> QED BY <5>1, <4>3 DEF Rotating
      <4> QED BY <1>s, <4>1, <4>2, <4>3
    <3> QED BY <3>1, <3>2
  <2> QED BY <2>5, <2>6, <1>q
<1>10. ASSUME NEW a \in Admins, RevokeCommit(a) PROVE Goal
  <2>1. /\ run[a].step = "revoke" /\ active' = active \ run[a].seen
        /\ served' = served \ {owner[t] : t \in active \cap run[a].seen}
        /\ run' = [run EXCEPT ![a] = Rest] /\ UNCHANGED <<owner, crashes>>
    BY <1>10 DEF RevokeCommit, RevokeSeen
  <2>2. run'[a].step = "rest" /\ \A b \in Admins \ {a} : run'[b] = run[b]
    BY <2>1, <1>t DEF Rest
  <2>3. SeenOwned'
    BY <2>1, <2>2 DEF SeenOwned
  <2>4. crashes' = 0 => Served'
    <3> SUFFICES ASSUME crashes = 0, NEW u \in served'
                 PROVE  (\E t \in active' : owner'[t] = u) \/ \E b \in Admins : Rotating(b, u)'
      BY <2>1 DEF TokensOf
    <3>1. CASE TokensOf(u) # {}
      <4>1. PICK t \in active : owner[t] = u
        BY <3>1 DEF TokensOf
      <4>2. t \notin run[a].seen
        BY <4>1, <2>1
      <4> QED BY <4>1, <4>2, <2>1
    <3>2. ASSUME NEW b \in Admins, Rotating(b, u) PROVE Rotating(b, u)'
      BY <3>2, <2>1, <2>2 DEF Rotating
    <3> QED BY <1>s, <2>1, <3>1, <3>2
  <2> QED BY <2>3, <2>4, <1>q
<1>11. CASE CourseCreate
  BY <1>11, <1>same DEF CourseCreate, vars
<1>12. CASE UNCHANGED jvars
  BY <1>12, <1>same DEF jvars, vars
<1> QED BY <1>1, <1>2, <1>3, <1>4, <1>5, <1>6, <1>7, <1>8, <1>9, <1>10, <1>11, <1>12 DEF JNext

(* Unless a run is cut short, a student who has been issued a token, and whose *)
(* tokens nobody has revoked by request since, has an active token whenever no *)
(* issue to that student is under way (wiki/admin-script.md 96-97), however    *)
(* many rotations and revocations of it meet.                                  *)
THEOREM RosterKeepsAccess == JSpec => []RotationKeepsAccess
<1>1. JInit => TypeInv /\ SeenOwned /\ RotationKeepsAccess
  BY TypeInit DEF JInit, Init, SeenOwned, RotationKeepsAccess, Rest
<1>2. TypeInv /\ SeenOwned /\ RotationKeepsAccess /\ [JNext]_jvars
        => (TypeInv /\ SeenOwned /\ RotationKeepsAccess)'
  BY TypeNext, RotationNext
<1> QED BY <1>1, <1>2, PTL DEF JSpec

---------------------------------------------------------------------------
(* What the runs report. *)

(* What ResultsTrue says of one result of a command of kind k. *)
RowTrue(k, o) ==
  /\ k \in {"create", "new"} /\ o.status # "error" => Exists(o.user)
  /\ k = "enroll" /\ o.status # "error" => o.user \in enrolled
  /\ o.status = "issued" => o.token \in Tokens /\ owner[o.token] = o.user

AllTrue == \A a \in Admins : \A o \in Results(a) : RowTrue(job[a].kind, o)

(* Nobody deletes a user or an enrolment, and a token changes hands once.     *)
LEMMA TablesGrow ==
  ASSUME TypeInv, [JNext]_jvars
  PROVE  /\ \A u \in Users : mail[u] # Nobody => mail'[u] # Nobody
         /\ enrolled \subseteq enrolled'
         /\ \A t \in Tokens : owner[t] # Nobody => owner'[t] = owner[t]
<1>1. \A t \in Tokens : owner[t] # Nobody => owner'[t] = owner[t]
  <2>1. ASSUME NEW a \in Admins, NEW x \in Tokens, Issues(a, x),
               NEW t \in Tokens, owner[t] # Nobody
        PROVE  owner'[t] = owner[t]
    BY <2>1 DEF Issues, Unissued, TypeInv, JTypeOK
  <2> QED BY <2>1, TokenSteps
<1>2. ASSUME NEW a \in Admins, CreateCommit(a), NEW u \in Users, mail[u] # Nobody
      PROVE  mail'[u] # Nobody
  BY <1>2 DEF CreateCommit, UserFits, Exists, TypeInv, JTypeOK
<1>3. \/ UNCHANGED mail /\ enrolled \subseteq enrolled'
      \/ \E a \in Admins : CreateCommit(a) /\ UNCHANGED enrolled
  BY DEF JNext, jvars, vars, tables, CourseCreate, Start, Emit, Killed, CreateExists, CreateRead,
     CreateCommit, EnrollLookupFails, EnrollRead, EnrollRecheck, EnrollCommit, TokenLookupFails,
     IssueRead, IssueRevokesOld, IssueCommit, RevokeRead, PrefixRead, RevokeCommit
<1> QED BY <1>1, <1>2, <1>3

LEMMA AllTrueNext ==
  ASSUME TypeInv, AllTrue, [JNext]_jvars
  PROVE  AllTrue'
<1> USE TokenAssumption
<1>t. job \in [Admins -> {NoJob} \cup Jobs]
  BY DEF TypeInv, JTypeOK
<1>typed. ASSUME NEW b \in Admins, NEW o \in Results(b) PROVE o \in Outcomes
  <2>1. job[b] \in Jobs
    BY <1>t, <1>typed DEF Results
  <2>2. job[b].out \in Seq(Outcomes)
    BY <2>1 DEF Jobs
  <2> QED BY <2>2, <1>typed DEF Results, Range
<1>keep. ASSUME NEW k, NEW o \in Outcomes, RowTrue(k, o) PROVE RowTrue(k, o)'
  BY <1>keep, TablesGrow DEF RowTrue, Exists, Outcomes
<1>old. ASSUME NEW b \in Admins, job'[b] = job[b], NEW o \in Results(b)'
        PROVE  RowTrue(job[b].kind, o)'
  <2>1. o \in Results(b)
    BY <1>old DEF Results
  <2>2. RowTrue(job[b].kind, o) /\ o \in Outcomes
    BY <2>1, <1>typed DEF AllTrue
  <2>3. RowTrue(job[b].kind, o)'
    <3> DEFINE k == job[b].kind
    <3>1. k' = k
      BY <1>old
    <3> QED BY <2>2, <3>1, TablesGrow DEF RowTrue, Exists, Outcomes
  <2> QED BY <2>3
<1>1. CASE UNCHANGED job
  BY <1>1, <1>old DEF AllTrue
<1>2. ASSUME NEW a \in Admins, Start(a) \/ Emit(a) \/ Killed(a) PROVE AllTrue'
  <2>1. \A b \in Admins \ {a} : job'[b] = job[b]
    BY <1>2, <1>t DEF Start, Emit, Killed
  <2>2. Results(a)' = {}
    <3>1. CASE Start(a)
      <4>1. PICK k, r, address : job' = [job EXCEPT ![a] =
                   [kind |-> k, rows |-> r, out |-> <<>>, address |-> address]]
        BY <3>1 DEF Start
      <4>2. job'[a].out = <<>>
        BY <4>1, <1>t
      <4> QED BY <4>2 DEF Results, Range
    <3>2. CASE Emit(a) \/ Killed(a)
      BY <3>2, <1>t DEF Emit, Killed, Results
    <3> QED BY <1>2, <3>1, <3>2
  <2> QED BY <2>1, <2>2, <1>old DEF AllTrue
<1>3. ASSUME NEW a \in Admins, NEW status \in Statuses, NEW t \in Tokens \cup {Nobody},
             Reports(a, status, t), Sound(a, status, t)
      PROVE  AllTrue'
  <2> DEFINE o == [user |-> Head(job[a].rows), status |-> status, token |-> t]
  <2>1. /\ job'[a].kind = job[a].kind
        /\ \A b \in Admins \ {a} : job'[b] = job[b]
        /\ Results(a)' = Results(a) \cup {o}
    BY <1>3, <1>t, ReportEffect, ReportedResults DEF Reports
  <2>2. ASSUME NEW x \in Results(a) PROVE RowTrue(job[a].kind, x)'
    <3>1. RowTrue(job[a].kind, x) /\ x \in Outcomes
      BY <2>2, <1>typed DEF AllTrue
    <3> DEFINE k == job[a].kind
    <3>2. k' = k
      BY <2>1
    <3> QED BY <3>1, <3>2, TablesGrow DEF RowTrue, Exists, Outcomes
  <2>3. ASSUME NEW x \in Results(a)', x = o PROVE RowTrue(job[a].kind, x)'
    <3>1. x.user = Head(job[a].rows) /\ x.status = status /\ x.token = t
      BY <2>3
    <3> DEFINE k == job[a].kind
    <3>2. k' = k
      BY <2>1
    <3> QED BY <3>1, <3>2, <1>3 DEF Sound, RowTrue, Exists
  <2> QED BY <2>1, <2>2, <2>3, <1>old DEF AllTrue
<1> QED BY JobSteps, <1>1, <1>2, <1>3

(* What a run reports of a row is so, whatever the other runs have done       *)
(* between its read, its commit and its output: a user or an enrolment that it *)
(* says is there is there, a token that it says it issued is that student's.   *)
THEOREM RosterResultsTrue == JSpec => []ResultsTrue
<1>1. JInit => TypeInv /\ AllTrue
  BY TypeInit DEF JInit, AllTrue, Results
<1>2. TypeInv /\ AllTrue /\ [JNext]_jvars => (TypeInv /\ AllTrue)'
  BY TypeNext, AllTrueNext
<1>3. AllTrue => ResultsTrue
  BY DEF AllTrue, ResultsTrue, RowTrue
<1> QED BY <1>1, <1>2, <1>3, PTL DEF JSpec

LEMMA KnownNext ==
  ASSUME TypeInv, TokensAreKnown, [JNext]_jvars
  PROVE  TokensAreKnown'
<1> DEFINE Known(t) == t \in shown \/ \E a \in Admins : \E o \in Results(a) : o.token = t
<1>t. /\ job \in [Admins -> {NoJob} \cup Jobs] /\ active \subseteq Tokens
      /\ crashes \in Nat
  BY TokenAssumption DEF TypeInv, JTypeOK
<1> SUFFICES ASSUME crashes' = 0 PROVE \A t \in active' : Known(t)'
  BY DEF TokensAreKnown
<1>1. ~ \E a \in Admins : Killed(a)
  BY <1>t DEF Killed
<1>2. crashes = 0
  BY <1>1, <1>t DEF JNext, jvars, vars, tables, CourseCreate, Start, Emit, CreateExists, CreateRead,
     CreateCommit, EnrollLookupFails, EnrollRead, EnrollRecheck, EnrollCommit, TokenLookupFails,
     IssueRead, ReadActive, IssueRevokesOld, RevokeOld, IssueCommit, InsertNew, InsertRefused,
     RevokeRead, PrefixRead, ReadForRevoke, RevokeCommit, RevokeSeen
<1>3. \A t \in active : Known(t)
  BY <1>2 DEF TokensAreKnown
<1>4. ASSUME NEW t \in Tokens, Known(t) PROVE Known(t)'
  <2>1. CASE UNCHANGED <<job, shown>>
    BY <2>1, <1>4 DEF Results
  <2>2. ASSUME NEW a \in Admins, Start(a) PROVE Known(t)'
    <3>1. \A b \in Admins \ {a} : Results(b)' = Results(b)
      BY <2>2, <1>t DEF Start, Results
    <3>2. Results(a) = {} /\ shown' = shown
      BY <2>2 DEF Start, Results
    <3> QED BY <3>1, <3>2, <1>4
  <2>3. ASSUME NEW a \in Admins, Emit(a) PROVE Known(t)'
    <3>1. \A b \in Admins \ {a} : Results(b)' = Results(b)
      BY <2>3, <1>t DEF Emit, Results
    <3>2. shown' = shown \cup ({o.token : o \in Results(a)} \ {Nobody})
      BY <2>3 DEF Emit, Results
    <3>3. t # Nobody
      BY TokenAssumption
    <3> QED BY <3>1, <3>2, <3>3, <1>4
  <2>4. ASSUME NEW a \in Admins, NEW status \in Statuses, NEW x \in Tokens \cup {Nobody},
               Reports(a, status, x), UNCHANGED shown
        PROVE  Known(t)'
    <3>1. Results(a) \subseteq Results(a)' /\ \A b \in Admins \ {a} : Results(b)' = Results(b)
      BY <2>4, <1>t, ReportedResults DEF Reports
    <3> QED BY <3>1, <2>4, <1>4
  <2> QED BY JobSteps, <1>1, <2>1, <2>2, <2>3, <2>4
<1>5. ASSUME NEW a \in Admins, NEW t \in Tokens, Issues(a, t) PROVE Known(t)'
  <2>1. [user |-> Head(job[a].rows), status |-> "issued", token |-> t] \in Results(a)'
    BY <1>5, <1>t, ReportedResults DEF Issues, Reports, Statuses
  <2> QED BY <2>1
<1> QED
  <2>1. CASE active' \subseteq active
    BY <2>1, <1>3, <1>4, <1>t
  <2>2. ASSUME NEW a \in Admins, NEW t \in Tokens, Issues(a, t) PROVE \A x \in active' : Known(x)'
    BY <2>2, <1>3, <1>4, <1>5, <1>t DEF Issues
  <2> QED BY TokenSteps, <2>1, <2>2

(* Unless a run is killed, every token that is accepted was printed or is in  *)
(* the results of a run that has yet to print them (token_issue).             *)
THEOREM RosterTokensKnown == JSpec => []TokensAreKnown
<1>1. JInit => TypeInv /\ TokensAreKnown
  BY TypeInit DEF JInit, Init, TokensAreKnown
<1>2. TypeInv /\ TokensAreKnown /\ [JNext]_jvars => (TypeInv /\ TokensAreKnown)'
  BY TypeNext, KnownNext
<1> QED BY <1>1, <1>2, PTL DEF JSpec

(* An error that a step reports. *)
ErrorCaused(a) ==
  job[a] # NoJob /\ job'[a] # NoJob =>
    \A i \in Len(job[a].out) + 1 .. Len(job'[a].out) :
      job'[a].out[i].status = "error" =>
        Cause(job[a].kind, job'[a].out[i].user, job[a].address[job'[a].out[i].user])

LEMMA ErrorsNext ==
  ASSUME TypeInv, [JNext]_jvars
  PROVE  \A a \in Admins : ErrorCaused(a)
<1>t. job \in [Admins -> {NoJob} \cup Jobs]
  BY DEF TypeInv, JTypeOK
<1>same. ASSUME NEW a \in Admins, job'[a] = job[a] PROVE ErrorCaused(a)
  <2> SUFFICES ASSUME job[a] # NoJob PROVE ErrorCaused(a)
    BY DEF ErrorCaused
  <2>1. Len(job[a].out) \in Nat
    <3>1. job[a].out \in Seq(Outcomes)
      BY <1>t DEF Jobs
    <3> QED BY <3>1
  <2>2. Len(job[a].out) + 1 .. Len(job'[a].out) = {}
    BY <2>1, <1>same
  <2> QED BY <2>2 DEF ErrorCaused
<1>1. CASE UNCHANGED job
  BY <1>1, <1>same
<1>2. ASSUME NEW a \in Admins, Start(a) \/ Emit(a) \/ Killed(a), NEW b \in Admins
      PROVE  ErrorCaused(b)
  <2>1. b # a => job'[b] = job[b]
    BY <1>2, <1>t DEF Start, Emit, Killed
  <2>2. job[a] = NoJob \/ job'[a] = NoJob
    BY <1>2, <1>t DEF Start, Emit, Killed
  <2> QED BY <2>1, <2>2, <1>same DEF ErrorCaused
<1>3. ASSUME NEW a \in Admins, NEW status \in Statuses, NEW t \in Tokens \cup {Nobody},
             Reports(a, status, t), Sound(a, status, t), NEW b \in Admins
      PROVE  ErrorCaused(b)
  <2>1. CASE b # a
    BY <2>1, <1>3, <1>t, <1>same, ReportEffect DEF Reports
  <2>2. CASE b = a
    <3> DEFINE o == [user |-> Head(job[a].rows), status |-> status, token |-> t]
    <3>1. job[a].out \in Seq(Outcomes) /\ job'[a].out = Append(job[a].out, o)
      BY <1>3, <1>t, ReportEffect DEF Reports, Jobs
    <3>2. /\ Len(job'[a].out) = Len(job[a].out) + 1 /\ Len(job[a].out) \in Nat
          /\ job'[a].out[Len(job[a].out) + 1] = o
      BY <3>1
    <3>3. o.status = status /\ o.user = Head(job[a].rows)
      OBVIOUS
    <3>4. status = "error" => Cause(job[a].kind, o.user, job[a].address[o.user])
      BY <1>3, <3>3 DEF Sound
    <3> HIDE DEF o
    <3>5. \A i \in Len(job[a].out) + 1 .. Len(job'[a].out) : job'[a].out[i] = o
      BY <3>2
    <3> QED BY <2>2, <3>3, <3>4, <3>5 DEF ErrorCaused
  <2> QED BY <2>1, <2>2
<1> QED BY JobSteps, <1>1, <1>2, <1>3

(* A row is reported as an error only for what is wrong with that row,        *)
(* whatever became of the rows before it (admin_cli.py 181-182).              *)
THEOREM RosterErrorsHaveCause == JSpec => ErrorsHaveCause
<1>1. TypeInv /\ [JNext]_jvars => TypeInv'
  BY TypeNext
<1>2. TypeInv /\ [JNext]_jvars =>
        [\A a \in Admins : job[a] # NoJob /\ job'[a] # NoJob =>
           \A i \in Len(job[a].out) + 1 .. Len(job'[a].out) :
             LET o == job'[a].out[i] IN
               o.status = "error" => Cause(job[a].kind, o.user, job[a].address[o.user])]_jvars
  BY ErrorsNext DEF ErrorCaused
<1> QED BY TypeInit, <1>1, <1>2, PTL DEF JSpec, ErrorsHaveCause
=============================================================================
