------------------------------ MODULE Captures ------------------------------
(* What the captures of a router promise to the outbox, the stages and the    *)
(* cleanups (main.ts onCapture, recording/session.ts, recording/capture.ts):   *)
(* the turns of a session are captured in the order in which they are counted, *)
(* each of them at most once, and what is in the session's file was written    *)
(* there by a capture.  How the sessions are told apart, and what becomes of    *)
(* the rows, is left to the modules that implement this one.                   *)
EXTENDS Naturals, TLAPS

CONSTANTS Sessions,
          MaxTurns,      \* bound on the turns of a session
          Serial         \* TRUE: the captures of a session do not overlap

VARIABLES stage,    \* stage[<<s, t>>]: how far the capture of turn t of session s is
          known,    \* sessions that may have a further turn
          file      \* file[s]: the turn whose bytes the file of s holds, or 0

cvars == <<stage, known, file>>

Turns == 1 .. MaxTurns
Slots == Sessions \X Turns

UnderWay(s) == \E t \in Turns : stage[<<s, t>>] \in {"writing", "renamed"}

To(s, t, g) == stage' = [stage EXCEPT ![<<s, t>>] = g]

Init == /\ stage = [p \in Slots |-> "no"]
        /\ known = Sessions
        /\ file = [s \in Sessions |-> 0]

\* t is the turn of session s that comes next, and it may begin.
MayStart(s, t) ==
  /\ s \in known /\ stage[<<s, t>>] = "no"
  /\ \A u \in 1 .. t - 1 : stage[<<s, u>>] # "no"
  /\ Serial => ~ UnderWay(s)

\* The next turn of a session begins; a first one may push another session out
\* of the tracker.
Start(s, t) ==
  /\ MayStart(s, t)
  /\ To(s, t, "writing")
  /\ known' \subseteq known /\ s \in known'
  /\ t > 1 => known' = known
  /\ UNCHANGED file

\* The file is replaced.
Land(s, t) ==
  /\ stage[<<s, t>>] = "writing"
  /\ To(s, t, "renamed")
  /\ file' = [file EXCEPT ![s] = t]
  /\ UNCHANGED known

\* The row is in the queue.
Queue(s, t) ==
  /\ stage[<<s, t>>] = "renamed"
  /\ To(s, t, "queued")
  /\ UNCHANGED <<known, file>>

\* The disk or the queue fails: the turn is spent.
Lose(s, t) ==
  /\ stage[<<s, t>>] \in {"writing", "renamed"}
  /\ To(s, t, "lost")
  /\ UNCHANGED <<known, file>>

\* The router of the sessions S dies.
Die(S) ==
  /\ known' = known \ S
  /\ stage' = [p \in Slots |->
       IF p[1] \in S /\ stage[p] \in {"writing", "renamed"} THEN "lost" ELSE stage[p]]
  /\ UNCHANGED file

\* The files of the sessions S are deleted.
Delete(S) ==
  /\ file' = [s \in Sessions |-> IF s \in S THEN 0 ELSE file[s]]
  /\ UNCHANGED <<stage, known>>

Next == \/ \E S \in SUBSET Sessions : Delete(S) \/ Die(S)
        \/ \E s \in Sessions, t \in Turns :
             Start(s, t) \/ Land(s, t) \/ Queue(s, t) \/ Lose(s, t)

Spec == Init /\ [][Next]_cvars

---------------------------------------------------------------------------
\* A file that is there holds a turn that was captured, and as long as the
\* captures of a session do not overlap none earlier than those it stands for.
FileIsLatest ==
  \A s \in Sessions : file[s] # 0 =>
    /\ file[s] \in Turns
    /\ stage[<<s, file[s]>>] \in {"renamed", "queued", "lost"}
    /\ Serial => \A t \in Turns :
         stage[<<s, t>>] \in {"renamed", "queued"} => t <= file[s]

---------------------------------------------------------------------------
(* Why FileIsLatest holds: the capture under way is of the latest turn.        *)

Stages == {"no", "writing", "renamed", "queued", "lost"}

CapturesInv ==
  /\ stage \in [Slots -> Stages] /\ file \in [Sessions -> 0 .. MaxTurns]
  /\ \A s \in Sessions, t \in Turns :
       stage[<<s, t>>] # "no" => \A u \in 1 .. t - 1 : stage[<<s, u>>] # "no"
  /\ Serial => \A s \in Sessions, t, u \in Turns :
       stage[<<s, t>>] \in {"writing", "renamed"} /\ stage[<<s, u>>] # "no" => u <= t
  /\ FileIsLatest

(* A step of one capture changes its stage and no other.                       *)
LEMMA ToOne ==
  ASSUME CapturesInv, NEW s \in Sessions, NEW t \in Turns, NEW g \in Stages, To(s, t, g)
  PROVE  /\ stage' \in [Slots -> Stages]
         /\ \A q \in Sessions, u \in Turns :
              stage'[<<q, u>>] = IF q = s /\ u = t THEN g ELSE stage[<<q, u>>]
<1>1. \A q \in Sessions, u \in Turns : <<q, u>> \in Slots /\ (<<q, u>> = <<s, t>> <=> q = s /\ u = t)
  BY DEF Slots
<1> QED BY <1>1 DEF To, CapturesInv

(* A capture moves on, from "writing" by replacing the file.                    *)
LEMMA MovesKeep ==
  ASSUME MaxTurns \in Nat, CapturesInv, NEW s \in Sessions, NEW t \in Turns,
         Land(s, t) \/ Queue(s, t) \/ Lose(s, t)
  PROVE  CapturesInv'
<1>0. stage[<<s, t>>] \in {"writing", "renamed"} /\ t \in Nat /\ t # 0
  BY DEF Land, Queue, Lose, Turns
<1>1. PICK g \in {"renamed", "queued", "lost"} :
        /\ To(s, t, g)
        /\ \/ stage[<<s, t>>] = "writing" /\ g = "renamed" /\ file' = [file EXCEPT ![s] = t]
           \/ stage[<<s, t>>] = "renamed" /\ g = "queued" /\ file' = file
           \/ g = "lost" /\ file' = file
  BY DEF Land, Queue, Lose
<1>2. /\ stage' \in [Slots -> Stages]
      /\ \A q \in Sessions, u \in Turns :
           stage'[<<q, u>>] = IF q = s /\ u = t THEN g ELSE stage[<<q, u>>]
  BY <1>1, ToOne DEF Stages
<1>3. /\ file' \in [Sessions -> 0 .. MaxTurns]
      /\ \A q \in Sessions : file'[q] = IF q = s /\ stage[<<s, t>>] = "writing" /\ g = "renamed"
                                          THEN t ELSE file[q]
  BY <1>1, <1>0 DEF CapturesInv, Turns
<1>4. \A q \in Sessions, u \in Turns :
        stage'[<<q, u>>] # "no" => \A v \in 1 .. u - 1 : stage'[<<q, v>>] # "no"
  <2> SUFFICES ASSUME NEW q \in Sessions, NEW u \in Turns, stage'[<<q, u>>] # "no",
                      NEW v \in 1 .. u - 1
               PROVE  stage'[<<q, v>>] # "no"
    OBVIOUS
  <2>1. v \in Turns /\ stage[<<q, u>>] # "no"
    BY <1>0, <1>2 DEF Turns
  <2> QED BY <2>1, <1>2 DEF CapturesInv
<1>5. ASSUME Serial, NEW q \in Sessions, NEW u \in Turns, NEW v \in Turns,
             stage'[<<q, u>>] \in {"writing", "renamed"}, stage'[<<q, v>>] # "no"
      PROVE  v <= u
  <2>1. stage[<<q, u>>] \in {"writing", "renamed"} /\ stage[<<q, v>>] # "no"
    BY <1>0, <1>2, <1>5
  <2> QED BY <2>1, <1>5 DEF CapturesInv
<1>6. ASSUME NEW q \in Sessions, file'[q] # 0
      PROVE  /\ file'[q] \in Turns
             /\ stage'[<<q, file'[q]>>] \in {"renamed", "queued", "lost"}
             /\ Serial => \A u \in Turns : stage'[<<q, u>>] \in {"renamed", "queued"} => u <= file'[q]
  <2>1. CASE q = s /\ stage[<<s, t>>] = "writing" /\ g = "renamed"
    <3>1. file'[q] = t
      BY <2>1, <1>3
    <3>2. ASSUME Serial, NEW u \in Turns, stage'[<<q, u>>] \in {"renamed", "queued"} PROVE u <= t
      BY <3>2, <2>1, <1>0, <1>2 DEF CapturesInv
    <3> QED BY <2>1, <3>1, <3>2, <1>2
  <2>2. CASE ~ (q = s /\ stage[<<s, t>>] = "writing" /\ g = "renamed")
    <3>1. file'[q] = file[q] /\ file[q] # 0
      BY <2>2, <1>3, <1>6
    <3>2. /\ file[q] \in Turns /\ stage[<<q, file[q]>>] \in {"renamed", "queued", "lost"}
          /\ Serial => \A u \in Turns : stage[<<q, u>>] \in {"renamed", "queued"} => u <= file[q]
      BY <3>1 DEF CapturesInv, FileIsLatest
    <3>3. \A u \in Turns : stage'[<<q, u>>] \in {"renamed", "queued"}
                             => stage[<<q, u>>] \in {"renamed", "queued"}
      BY <2>2, <1>0, <1>1, <1>2
    <3> QED BY <3>1, <3>2, <3>3, <1>2
  <2> QED BY <2>1, <2>2
<1> QED BY <1>2, <1>3, <1>4, <1>5, <1>6 DEF CapturesInv, FileIsLatest

(* The turns of a session begin in their order, so that the one that begins is  *)
(* the latest.                                                                *)
LEMMA StartKeeps ==
  ASSUME MaxTurns \in Nat, CapturesInv, NEW s \in Sessions, NEW t \in Turns, Start(s, t)
  PROVE  CapturesInv'
<1>1. /\ stage' \in [Slots -> Stages]
      /\ \A q \in Sessions, u \in Turns :
           stage'[<<q, u>>] = IF q = s /\ u = t THEN "writing" ELSE stage[<<q, u>>]
  BY ToOne DEF Start, Stages
<1>2. /\ file' = file /\ stage[<<s, t>>] = "no" /\ t \in Nat
      /\ \A u \in 1 .. t - 1 : stage[<<s, u>>] # "no"
      /\ Serial => ~ UnderWay(s)
  BY DEF Start, MayStart, Turns
<1>3. ASSUME NEW u \in Turns, stage[<<s, u>>] # "no" PROVE u < t
  <2>1. u \in Nat /\ u # t /\ (t < u => t \in 1 .. u - 1)
    BY <1>2, <1>3 DEF Turns
  <2>2. ~ (t < u)
    BY <2>1, <1>2, <1>3 DEF CapturesInv
  <2> QED BY <2>1, <2>2, <1>2
<1>4. \A q \in Sessions, u \in Turns :
        stage'[<<q, u>>] # "no" => \A v \in 1 .. u - 1 : stage'[<<q, v>>] # "no"
  <2> SUFFICES ASSUME NEW q \in Sessions, NEW u \in Turns, stage'[<<q, u>>] # "no",
                      NEW v \in 1 .. u - 1
               PROVE  stage'[<<q, v>>] # "no"
    OBVIOUS
  <2>1. v \in Turns
    BY DEF Turns
  <2>2. stage[<<q, v>>] # "no"
    BY <1>1, <1>2 DEF CapturesInv
  <2> QED BY <2>1, <2>2, <1>1
<1>5. ASSUME Serial, NEW q \in Sessions, NEW u \in Turns, NEW v \in Turns,
             stage'[<<q, u>>] \in {"writing", "renamed"}, stage'[<<q, v>>] # "no"
      PROVE  v <= u
  <2>1. CASE q # s
    BY <2>1, <1>1, <1>5 DEF CapturesInv
  <2>2. CASE q = s
    <3>1. u = t
      BY <2>2, <1>1, <1>2, <1>5 DEF UnderWay
    <3>2. v = t \/ v < t
      BY <2>2, <1>1, <1>3, <1>5
    <3> QED BY <3>1, <3>2, <1>2 DEF Turns
  <2> QED BY <2>1, <2>2
<1>6. FileIsLatest'
  BY <1>1, <1>2 DEF CapturesInv, FileIsLatest
<1> QED BY <1>1, <1>2, <1>4, <1>5, <1>6 DEF CapturesInv

(* A router that dies and a file that is deleted only take away.                *)
LEMMA EndsKeep ==
  ASSUME MaxTurns \in Nat, CapturesInv, NEW S \in SUBSET Sessions, Die(S) \/ Delete(S)
  PROVE  CapturesInv'
<1>1. CASE Die(S)
  <2>1. /\ stage' \in [Slots -> Stages] /\ file' = file
        /\ \A q \in Sessions, u \in Turns : \/ stage'[<<q, u>>] = stage[<<q, u>>]
                                            \/ stage[<<q, u>>] # "no" /\ stage'[<<q, u>>] = "lost"
    BY <1>1 DEF Die, CapturesInv, Slots, Stages
  <2>2. \A q \in Sessions, u \in Turns :
          stage'[<<q, u>>] # "no" => \A v \in 1 .. u - 1 : stage'[<<q, v>>] # "no"
    <3> SUFFICES ASSUME NEW q \in Sessions, NEW u \in Turns, stage'[<<q, u>>] # "no",
                        NEW v \in 1 .. u - 1
                 PROVE  stage'[<<q, v>>] # "no"
      OBVIOUS
    <3>1. v \in Turns /\ stage[<<q, v>>] # "no"
      BY <2>1 DEF CapturesInv, Turns
    <3> QED BY <3>1, <2>1
  <2>3. (Serial => \A q \in Sessions, t, u \in Turns :
           stage'[<<q, t>>] \in {"writing", "renamed"} /\ stage'[<<q, u>>] # "no" => u <= t)
        /\ FileIsLatest'
    BY <2>1 DEF CapturesInv, FileIsLatest
  <2> QED BY <2>1, <2>2, <2>3 DEF CapturesInv
<1>2. CASE Delete(S)
  <2>1. /\ stage' = stage /\ file' \in [Sessions -> 0 .. MaxTurns]
        /\ \A q \in Sessions : file'[q] = 0 \/ file'[q] = file[q]
    BY <1>2 DEF Delete, CapturesInv
  <2>2. FileIsLatest'
    BY <2>1 DEF CapturesInv, FileIsLatest
  <2> QED BY <2>1, <2>2 DEF CapturesInv
<1> QED BY <1>1, <1>2

(* The file of a session holds a captured turn, and the latest of those in the  *)
(* queue when captures do not overlap: what onCapture's order of classify,      *)
(* write and enqueue (main.ts) is for.                                         *)
THEOREM FilesAreLatest == ASSUME MaxTurns \in Nat PROVE Spec => []FileIsLatest
<1>1. ASSUME Init PROVE CapturesInv
  <2>1. /\ \A s \in Sessions, t \in Turns : stage[<<s, t>>] = "no"
        /\ \A s \in Sessions : file[s] = 0
    BY <1>1 DEF Init, Slots
  <2>2. stage \in [Slots -> Stages] /\ file \in [Sessions -> 0 .. MaxTurns]
    BY <1>1 DEF Init, Stages
  <2> QED BY <2>1, <2>2 DEF CapturesInv, FileIsLatest
<1>2. CapturesInv /\ [Next]_cvars => CapturesInv'
  <2>1. ASSUME CapturesInv, UNCHANGED cvars PROVE CapturesInv'
    <3>1. UNCHANGED <<stage, file>>
      BY <2>1 DEF cvars
    <3> QED BY <2>1, <3>1 DEF CapturesInv, FileIsLatest
  <2> QED BY <2>1, MovesKeep, StartKeeps, EndsKeep DEF Next
<1>3. CapturesInv => FileIsLatest
  BY DEF CapturesInv
<1> QED BY <1>1, <1>2, <1>3, PTL DEF Spec
=============================================================================
