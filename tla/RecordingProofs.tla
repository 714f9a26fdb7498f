--------------------------- MODULE RecordingProofs ---------------------------
(* What holds of the session tracker for any capacity, messages and number of *)
(* sessions, and of the recording of exchanges built on it.                   *)
EXTENDS Recording, FiniteSetTheorems, WellFoundedInduction, TLAPS

(* The tracked sessions are different ones, each in the state of its latest   *)
(* classification.                                                           *)
Tracked ==
  /\ \A i, j \in DOMAIN sessions : sessions[i].id = sessions[j].id => i = j
  /\ \A i \in DOMAIN sessions :
       /\ sessions[i] \in log
       /\ \A x \in log : x.id = sessions[i].id => x.turn <= sessions[i].turn

(* Nothing was classified into a session yet to come, and the turns of a      *)
(* session are at most as many as its messages.                              *)
Logged ==
  \A x \in log : x.id <= started /\ (x.turn = 1 \/ x.turn <= Len(x.tip))

TrackerInv == TypeOK /\ Tracked /\ Logged /\ LaterTurnsExtend /\ TurnsAreDistinct

LEMMA RequestsAreSeqs ==
  ASSUME NEW r \in Requests
  PROVE  r \in Seq(Messages) /\ Len(r) \in 0 .. MaxLen
<1>1. PICK n \in 0 .. MaxLen : r \in [1 .. n -> Messages]
  BY DEF Requests
<1>2. n \in Nat
  BY TrackerAssumption
<1>3. r \in Seq(Messages)
  BY <1>1, <1>2
<1>4. Len(r) = n
  BY <1>1, <1>2, <1>3
<1> QED BY <1>3, <1>4

(* What one prefix of another is, for the proofs. *)
LEMMA StrictPrefixLen ==
  ASSUME NEW s \in Requests, NEW t \in Requests, IsStrictPrefix(s, t)
  PROVE  Len(s) < Len(t)
<1>1. s \in Seq(Messages) /\ t \in Seq(Messages) /\ Len(s) \in Nat /\ Len(t) \in Nat
  BY RequestsAreSeqs, TrackerAssumption
<1>2. Len(s) <= Len(t) /\ SubSeq(s, 1, Len(s)) = SubSeq(t, 1, Len(s)) /\ s # t
  BY DEF IsStrictPrefix, IsPrefix
<1>3. ASSUME Len(s) = Len(t) PROVE FALSE
  <2>1. SubSeq(s, 1, Len(s)) = s /\ SubSeq(t, 1, Len(t)) = t
    BY <1>1
  <2> QED BY <2>1, <1>2, <1>3
<1> QED BY <1>1, <1>2, <1>3

LEMMA PrefixTransitive ==
  ASSUME NEW r \in Requests, NEW s \in Requests, NEW t \in Requests,
         IsStrictPrefix(r, s), IsStrictPrefix(s, t)
  PROVE  IsStrictPrefix(r, t)
<1>1. /\ r \in Seq(Messages) /\ s \in Seq(Messages) /\ t \in Seq(Messages)
      /\ Len(r) \in Nat /\ Len(s) \in Nat /\ Len(t) \in Nat
      /\ Len(r) < Len(s) /\ Len(s) < Len(t)
  BY RequestsAreSeqs, StrictPrefixLen, TrackerAssumption
<1>2. /\ SubSeq(r, 1, Len(r)) = SubSeq(s, 1, Len(r))
      /\ SubSeq(s, 1, Len(s)) = SubSeq(t, 1, Len(s))
  BY DEF IsStrictPrefix, IsPrefix
<1>3. \A i \in 1 .. Len(r) : r[i] = s[i]
  <2> SUFFICES ASSUME NEW i \in 1 .. Len(r) PROVE r[i] = s[i]
    OBVIOUS
  <2>1. SubSeq(r, 1, Len(r))[i] = r[i] /\ SubSeq(s, 1, Len(r))[i] = s[i]
    BY <1>1
  <2> QED BY <2>1, <1>2
<1>4. \A i \in 1 .. Len(s) : s[i] = t[i]
  <2> SUFFICES ASSUME NEW i \in 1 .. Len(s) PROVE s[i] = t[i]
    OBVIOUS
  <2>1. SubSeq(s, 1, Len(s))[i] = s[i] /\ SubSeq(t, 1, Len(s))[i] = t[i]
    BY <1>1
  <2> QED BY <2>1, <1>2
<1>5. SubSeq(r, 1, Len(r)) = SubSeq(t, 1, Len(r))
  <2>1. \A i \in 1 .. Len(r) : r[i] = t[i]
    BY <1>1, <1>3, <1>4
  <2> QED BY <2>1, <1>1
<1> QED BY <1>1, <1>5 DEF IsStrictPrefix, IsPrefix

(* The least of some numbers is one of them: the order of the naturals is     *)
(* well-founded.                                                             *)
LEMMA NatOrder ==
  \E R : IsWellFoundedOn(R, Nat) /\ \A x, y \in Nat : x < y => <<x, y>> \in R
<1>1. IsWellFoundedOn(OpToRel(<, Nat), Nat)
  BY NatLessThanWellFounded
<1>2. \A x, y \in Nat : x < y => <<x, y>> \in OpToRel(<, Nat)
  BY DEF OpToRel
<1> QED BY <1>1, <1>2, Zenon

LEMMA MinIsMember ==
  ASSUME NEW S, S \subseteq Nat, S # {}
  PROVE  Min(S) \in S
<1>1. PICK R : IsWellFoundedOn(R, Nat) /\ \A x, y \in Nat : x < y => <<x, y>> \in R
  BY NatOrder
<1>2. \E m \in S : \A k \in S : ~ (<<k, m>> \in R)
  <2>1. IsWellFoundedOn(R, Nat)
    BY <1>1
  <2> QED BY <2>1, WFMin, Zenon
<1>3. PICK m \in S : \A k \in S : ~ (<<k, m>> \in R)
  BY <1>2
<1>4. ASSUME NEW k \in S PROVE m <= k
  <2>1. k \in Nat /\ m \in Nat
    OBVIOUS
  <2>2. ~ (k < m)
    BY <1>1, <1>3, <2>1, Zenon
  <2> QED BY <2>1, <2>2
<1> QED BY <1>3, <1>4 DEF Min

---------------------------------------------------------------------------
(* The tracker *)

(* A session that is continued moves to the front, in its next turn; the      *)
(* others keep their order.                                                  *)
LEMMA ContinueEffect ==
  ASSUME TypeOK, NEW messages \in Requests, Continue(messages)
  PROVE  \E i \in DOMAIN sessions :
           LET next == [id |-> sessions[i].id, tip |-> messages, turn |-> sessions[i].turn + 1]
           IN  /\ Continues(sessions[i].tip, messages)
               /\ sessions' = <<next>> \o RemoveAt(sessions, i)
               /\ log' = log \cup {next} /\ started' = started
<1> DEFINE i == Min(Candidates(messages))
<1>0. sessions \in Seq(States)
  BY DEF TypeOK
<1>1. i \in Candidates(messages)
  <2>1. Candidates(messages) \subseteq Nat /\ Candidates(messages) # {}
    BY <1>0 DEF Continue, Candidates
  <2> QED BY <2>1, MinIsMember
<1>2. sessions' = <<Extended(sessions[i], messages)>> \o RemoveAt(sessions, i)
      /\ log' = log \cup {Extended(sessions[i], messages)} /\ started' = started
  BY DEF Continue, Without
<1> HIDE DEF i
<1>3. i \in DOMAIN sessions /\ Continues(sessions[i].tip, messages)
  BY <1>1 DEF Candidates
<1> QED BY <1>2, <1>3 DEF Extended

LEMMA RemoveAtIndices ==
  ASSUME NEW T, NEW s \in Seq(T), NEW i \in DOMAIN s
  PROVE  /\ RemoveAt(s, i) \in Seq(T)
         /\ Len(RemoveAt(s, i)) = Len(s) - 1
         /\ \A j \in 1 .. Len(s) - 1 :
              RemoveAt(s, i)[j] = s[IF j < i THEN j ELSE j + 1]
<1>0. Len(s) \in Nat /\ i \in 1 .. Len(s)
  OBVIOUS
<1>1. /\ SubSeq(s, 1, i - 1) \in Seq(T) /\ Len(SubSeq(s, 1, i - 1)) = i - 1
      /\ \A j \in 1 .. i - 1 : SubSeq(s, 1, i - 1)[j] = s[j]
  BY <1>0
<1>2. /\ SubSeq(s, i + 1, Len(s)) \in Seq(T) /\ Len(SubSeq(s, i + 1, Len(s))) = Len(s) - i
      /\ \A j \in 1 .. Len(s) - i : SubSeq(s, i + 1, Len(s))[j] = s[i + j]
  BY <1>0
<1> DEFINE a == SubSeq(s, 1, i - 1)
           b == SubSeq(s, i + 1, Len(s))
<1>3. RemoveAt(s, i) = a \o b
  BY DEF RemoveAt
<1>4. /\ a \in Seq(T) /\ Len(a) = i - 1 /\ \A j \in 1 .. i - 1 : a[j] = s[j]
      /\ b \in Seq(T) /\ Len(b) = Len(s) - i /\ \A j \in 1 .. Len(s) - i : b[j] = s[i + j]
  BY <1>1, <1>2
<1> HIDE DEF a, b
<1>5. a \o b \in Seq(T) /\ Len(a \o b) = Len(s) - 1
  BY <1>0, <1>4
<1>6. \A j \in 1 .. Len(s) - 1 : (a \o b)[j] = IF j < i THEN a[j] ELSE b[j - (i - 1)]
  BY <1>0, <1>4
<1>7. \A j \in 1 .. Len(s) - 1 : (a \o b)[j] = s[IF j < i THEN j ELSE j + 1]
  <2> SUFFICES ASSUME NEW j \in 1 .. Len(s) - 1
               PROVE  (a \o b)[j] = s[IF j < i THEN j ELSE j + 1]
    OBVIOUS
  <2>1. CASE j < i
    BY <2>1, <1>0, <1>4, <1>6
  <2>2. CASE ~ (j < i)
    <3>1. j - (i - 1) \in 1 .. Len(s) - i /\ i + (j - (i - 1)) = j + 1
      BY <2>2, <1>0
    <3> QED BY <3>1, <2>2, <1>4, <1>6
  <2> QED BY <2>1, <2>2
<1> QED BY <1>3, <1>5, <1>7

(* Where the tracked sessions of the next state come from: the first one is   *)
(* new, the others were tracked before, each at a place of its own.          *)
Moved(next) ==
  /\ sessions' \in Seq(States) /\ Len(sessions') \in 1 .. Capacity
  /\ sessions'[1] = next
  /\ \E from \in [2 .. Len(sessions') -> DOMAIN sessions] :
       /\ \A j \in 2 .. Len(sessions') : sessions'[j] = sessions[from[j]]
       /\ \A j, k \in 2 .. Len(sessions') : from[j] = from[k] => j = k
       /\ \A j \in 2 .. Len(sessions') : next.id # sessions[from[j]].id

(* An element put before a sequence. *)
LEMMA PutBefore ==
  ASSUME NEW T, NEW next \in T, NEW kept \in Seq(T)
  PROVE  LET s == <<next>> \o kept
         IN  /\ s \in Seq(T) /\ Len(s) = Len(kept) + 1 /\ s[1] = next
             /\ \A j \in 2 .. Len(s) : s[j] = kept[j - 1]
OBVIOUS

LEMMA Pushed ==
  ASSUME NEW next \in States, NEW kept \in Seq(States), sessions' = <<next>> \o kept
  PROVE  /\ sessions' \in Seq(States) /\ Len(sessions') = Len(kept) + 1
         /\ sessions'[1] = next
         /\ \A j \in 2 .. Len(sessions') : sessions'[j] = kept[j - 1]
BY PutBefore

(* A tracked state is typed. *)
LEMMA ContinueMoves ==
  ASSUME TrackerInv, NEW i \in DOMAIN sessions, NEW next \in States,
         next.id = sessions[i].id,
         sessions' = <<next>> \o RemoveAt(sessions, i)
  PROVE  Moved(next)
<1>0. sessions \in Seq(States) /\ Len(sessions) \in Nat /\ Len(sessions) <= Capacity
      /\ Capacity \in Nat /\ i \in 1 .. Len(sessions)
  BY TrackerAssumption DEF TrackerInv, TypeOK
<1> DEFINE kept == RemoveAt(sessions, i)
           from == [j \in 2 .. Len(sessions') |-> IF j - 1 < i THEN j - 1 ELSE j]
<1>1. /\ kept \in Seq(States) /\ Len(kept) = Len(sessions) - 1
      /\ \A j \in 1 .. Len(sessions) - 1 : kept[j] = sessions[IF j < i THEN j ELSE j + 1]
  BY <1>0, RemoveAtIndices
<1>k. sessions' = <<next>> \o kept
  OBVIOUS
<1> HIDE DEF kept
<1>p. kept \in Seq(States) /\ Len(kept) \in Nat /\ Len(kept) + 1 = Len(sessions)
  BY <1>0, <1>1
<1>2. /\ sessions' \in Seq(States) /\ Len(sessions') = Len(sessions)
      /\ sessions'[1] = next
      /\ \A j \in 2 .. Len(sessions') : sessions'[j] = kept[j - 1]
  BY <1>p, <1>k, Pushed
<1>3. from \in [2 .. Len(sessions') -> DOMAIN sessions]
  BY <1>0, <1>2
<1>4. \A j \in 2 .. Len(sessions') : from[j] # i /\ sessions'[j] = sessions[from[j]]
  <2> SUFFICES ASSUME NEW j \in 2 .. Len(sessions')
               PROVE  from[j] # i /\ sessions'[j] = sessions[from[j]]
    OBVIOUS
  <2>1. j - 1 \in 1 .. Len(sessions) - 1 /\ j \in Nat
    BY <1>0, <1>2
  <2>2. sessions'[j] = sessions[IF j - 1 < i THEN j - 1 ELSE (j - 1) + 1]
    BY <2>1, <1>1, <1>2
  <2>3. from[j] = IF j - 1 < i THEN j - 1 ELSE j
    OBVIOUS
  <2> QED BY <2>1, <2>2, <2>3, <1>0
<1>5. \A j, k \in 2 .. Len(sessions') : from[j] = from[k] => j = k
  BY <1>0, <1>2
<1> HIDE DEF from
<1>6. \A j \in 2 .. Len(sessions') : next.id # sessions[from[j]].id
  BY <1>3, <1>4 DEF TrackerInv, Tracked
<1>7. Len(sessions') \in 1 .. Capacity
  BY <1>0, <1>2
<1> QED BY <1>2, <1>3, <1>4, <1>5, <1>6, <1>7 DEF Moved

LEMMA StartMoves ==
  ASSUME TrackerInv, NEW next \in States, next.id = started + 1,
         sessions' = <<next>> \o
           (IF Len(sessions) >= Capacity THEN EvictOldest(sessions) ELSE sessions)
  PROVE  Moved(next)
<1>0. /\ sessions \in Seq(States) /\ Len(sessions) \in Nat /\ Len(sessions) <= Capacity
      /\ Capacity \in Nat \ {0} /\ started \in Nat
  BY TrackerAssumption DEF TrackerInv, TypeOK
<1> DEFINE kept == IF Len(sessions) >= Capacity THEN EvictOldest(sessions) ELSE sessions
           from == [j \in 2 .. Len(sessions') |-> j - 1]
<1>1. /\ kept \in Seq(States) /\ Len(kept) < Capacity /\ Len(kept) <= Len(sessions)
      /\ Len(kept) \in Nat
      /\ \A j \in 1 .. Len(kept) : kept[j] = sessions[j]
  BY <1>0 DEF EvictOldest, Front
<1>k. sessions' = <<next>> \o kept
  OBVIOUS
<1> HIDE DEF kept
<1>2. /\ sessions' \in Seq(States) /\ Len(sessions') = Len(kept) + 1
      /\ sessions'[1] = next
      /\ \A j \in 2 .. Len(sessions') : sessions'[j] = kept[j - 1]
  BY <1>1, <1>k, Pushed
<1>3. from \in [2 .. Len(sessions') -> DOMAIN sessions]
  BY <1>0, <1>1, <1>2
<1>4. \A j \in 2 .. Len(sessions') : sessions'[j] = sessions[from[j]]
  BY <1>0, <1>1, <1>2
<1>5. \A j, k \in 2 .. Len(sessions') : from[j] = from[k] => j = k
  BY <1>0, <1>1, <1>2
<1> HIDE DEF from
<1>6. \A j \in 2 .. Len(sessions') : next.id # sessions[from[j]].id
  <2> SUFFICES ASSUME NEW j \in 2 .. Len(sessions') PROVE next.id # sessions[from[j]].id
    OBVIOUS
  <2>1. sessions[from[j]] \in log
    BY <1>3 DEF TrackerInv, Tracked
  <2>2. sessions[from[j]].id <= started
    BY <2>1 DEF TrackerInv, Logged
  <2>3. sessions[from[j]].id \in Nat
    BY <2>1 DEF TrackerInv, TypeOK, States
  <2> QED BY <2>2, <2>3, <1>0
<1>7. Len(sessions') \in 1 .. Capacity
  BY <1>0, <1>1, <1>2
<1> QED BY <1>2, <1>3, <1>4, <1>5, <1>6, <1>7 DEF Moved

(* What classify gives a request: a turn of a session that comes right after  *)
(* all that the session has had, and whose messages extend all of it.         *)
Gives(next, messages) ==
  /\ next \in States /\ next.tip = messages
  /\ next = sessions'[1] /\ Moved(next)
  /\ log' = log \cup {next}
  /\ started' \in Nat /\ started <= started' /\ started' <= MaxSessions /\ next.id <= started'
  /\ next.turn = 1 \/ next.turn <= Len(messages)
  /\ \A x \in log : x.id = next.id => x.turn < next.turn /\ IsStrictPrefix(x.tip, messages)
  /\ next.turn > 1 => \E y \in log : y.id = next.id /\ y.turn = next.turn - 1

LEMMA ClassifyGives ==
  ASSUME TrackerInv, NEW messages \in Requests, Classify(messages)
  PROVE  \E next \in States : Gives(next, messages)
<1>0. /\ MaxLen \in Nat \ {0} /\ MaxSessions \in Nat /\ started \in 0 .. MaxSessions
      /\ sessions \in Seq(States) /\ log \subseteq States
      /\ Len(messages) \in 0 .. MaxLen
  BY TrackerAssumption, RequestsAreSeqs DEF TrackerInv, TypeOK
<1>1. CASE Continue(messages)
  <2>1. PICK i \in DOMAIN sessions :
          /\ Continues(sessions[i].tip, messages)
          /\ sessions' = <<[id |-> sessions[i].id, tip |-> messages,
                            turn |-> sessions[i].turn + 1]>> \o RemoveAt(sessions, i)
          /\ log' = log \cup {[id |-> sessions[i].id, tip |-> messages,
                               turn |-> sessions[i].turn + 1]}
          /\ started' = started
    BY <1>1, ContinueEffect DEF TrackerInv
  <2> DEFINE last == sessions[i]
             next == [id |-> last.id, tip |-> messages, turn |-> last.turn + 1]
  <2>2. /\ last \in log /\ last \in States
        /\ \A x \in log : x.id = last.id => x.turn <= last.turn
    BY <1>0 DEF TrackerInv, Tracked
  <2>3. last.tip \in Requests /\ last.tip # <<>> /\ IsStrictPrefix(last.tip, messages)
    BY <2>1, <2>2 DEF Continues, States
  <2>4. Len(last.tip) \in Nat /\ Len(last.tip) < Len(messages) /\ Len(last.tip) # 0
    <3>1. last.tip \in Seq(Messages)
      BY <2>3, RequestsAreSeqs
    <3> QED BY <3>1, <2>3, StrictPrefixLen
  <2>5. last.turn \in Nat /\ last.turn >= 1 /\ last.turn <= Len(last.tip)
    BY <2>2, <2>4 DEF TrackerInv, Logged, States
  <2>6. next.turn <= Len(messages) /\ next.turn \in 1 .. MaxLen /\ next.turn > 1
    BY <1>0, <2>4, <2>5
  <2>7. next \in States
    BY <2>2, <2>6 DEF States
  <2>8. ASSUME NEW x \in log, x.id = next.id
        PROVE  x.turn < next.turn /\ IsStrictPrefix(x.tip, messages)
    <3>1. x \in States /\ x.turn \in Nat /\ x.tip \in Requests
      BY <1>0 DEF States
    <3>2. x.turn <= last.turn
      BY <2>2, <2>8
    <3>3. CASE x.turn = last.turn
      <4>1. x = last
        BY <3>3, <2>2, <2>8 DEF TrackerInv, TurnsAreDistinct
      <4> QED BY <4>1, <2>3, <2>5
    <3>4. CASE x.turn < last.turn
      <4>1. IsStrictPrefix(x.tip, last.tip)
        BY <3>4, <2>2, <2>8 DEF TrackerInv, LaterTurnsExtend
      <4> QED BY <4>1, <3>1, <3>4, <2>3, <2>5, PrefixTransitive
    <3> QED BY <3>1, <3>2, <3>3, <3>4, <2>5
  <2>9. Moved(next)
    BY <2>1, <2>7, ContinueMoves
  <2>10. next = sessions'[1]
    BY <2>9 DEF Moved
  <2>11. last.id <= started
    BY <2>2 DEF TrackerInv, Logged
  <2>12. \E y \in log : y.id = next.id /\ y.turn = next.turn - 1
    BY <2>2, <2>5
  <2>13. next.tip = messages /\ next.id = last.id /\ log' = log \cup {next} /\ started' = started
    BY <2>1
  <2> HIDE DEF next
  <2> QED BY <1>0, <2>6, <2>7, <2>8, <2>9, <2>10, <2>11, <2>12, <2>13 DEF Gives
<1>2. CASE Start(messages)
  <2> DEFINE next == [id |-> started + 1, tip |-> messages, turn |-> 1]
  <2>1. /\ started < MaxSessions /\ started' = started + 1
        /\ sessions' = <<next>> \o
             (IF Len(sessions) >= Capacity THEN EvictOldest(sessions) ELSE sessions)
        /\ log' = log \cup {next}
    BY <1>2 DEF Start
  <2>2. next \in States
    BY <1>0, <2>1 DEF States
  <2>3. next.id = started + 1 /\ next.tip = messages /\ next.turn = 1
    OBVIOUS
  <2> HIDE DEF next
  <2>4. Moved(next)
    BY <2>1, <2>2, <2>3, StartMoves
  <2>5. next = sessions'[1]
    BY <2>4 DEF Moved
  <2>6. \A x \in log : x.id # next.id
    <3> SUFFICES ASSUME NEW x \in log PROVE x.id # next.id
      OBVIOUS
    <3>1. x.id <= started /\ x.id \in Nat
      BY <1>0 DEF TrackerInv, Logged, States
    <3> QED BY <3>1, <2>3, <1>0
  <2> QED BY <1>0, <2>1, <2>2, <2>3, <2>4, <2>5, <2>6 DEF Gives
<1> QED BY <1>1, <1>2 DEF Classify

LEMMA GivenKeepsInv ==
  ASSUME TrackerInv, NEW messages \in Requests, NEW next \in States, Gives(next, messages)
  PROVE  TrackerInv'
<1>0. /\ log \subseteq States /\ started \in Nat /\ sessions \in Seq(States)
      /\ next.turn \in Nat /\ next.turn >= 1 /\ next.id \in Nat /\ next.tip = messages
  BY TrackerAssumption DEF TrackerInv, TypeOK, States, Gives
<1>l. log' = log \cup {next}
  BY DEF Gives
<1>x. \A x \in log : /\ x.turn \in Nat /\ x.id \in Nat /\ x.id <= started
                     /\ x.turn = 1 \/ x.turn <= Len(x.tip)
  BY <1>0 DEF States, TrackerInv, Logged
<1>g. \A x \in log : x.id = next.id => x.turn < next.turn /\ IsStrictPrefix(x.tip, next.tip)
  BY <1>0 DEF Gives
<1>1. TypeOK'
  <2>1. started' \in 0 .. MaxSessions
    BY TrackerAssumption DEF Gives
  <2>2. sessions' \in Seq(States) /\ Len(sessions') <= Capacity
    BY TrackerAssumption DEF Gives, Moved
  <2> QED BY <2>1, <2>2, <1>0, <1>l DEF TypeOK
<1>2. Logged'
  <2>1. started <= started' /\ started' \in Nat /\ next.id <= started'
    BY DEF Gives
  <2>2. next.turn = 1 \/ next.turn <= Len(next.tip)
    BY <1>0 DEF Gives
  <2>3. \A x \in log : x.id <= started'
    BY <2>1, <1>x, <1>0
  <2> QED BY <2>1, <2>2, <2>3, <1>x, <1>l DEF Logged
<1>3. LaterTurnsExtend'
  <2> SUFFICES ASSUME NEW x \in log', NEW y \in log', x.id = y.id, x.turn < y.turn
               PROVE  IsStrictPrefix(x.tip, y.tip)
    BY DEF LaterTurnsExtend
  <2>1. CASE x \in log /\ y \in log
    BY <2>1 DEF TrackerInv, LaterTurnsExtend
  <2>2. CASE x \in log /\ y = next
    BY <2>2, <1>g
  <2>3. CASE x = next /\ y \in log
    BY <2>3, <1>g, <1>x, <1>0
  <2>4. CASE x = next /\ y = next
    BY <2>4, <1>0
  <2> QED BY <2>1, <2>2, <2>3, <2>4, <1>l
<1>4. TurnsAreDistinct'
  <2>1. ASSUME NEW x \in log', NEW y \in log', x.id = y.id, x.turn = y.turn PROVE x = y
    <3>1. CASE x \in log /\ y \in log
      BY <3>1, <2>1 DEF TrackerInv, TurnsAreDistinct
    <3>2. CASE x = next /\ y \in log
      BY <3>2, <2>1, <1>g, <1>0, <1>x
    <3>3. CASE x \in log /\ y = next
      BY <3>3, <2>1, <1>g, <1>0, <1>x
    <3> QED BY <3>1, <3>2, <3>3, <1>l
  <2>2. ASSUME NEW x \in log', x.turn > 1 PROVE \E y \in log' : y.id = x.id /\ y.turn = x.turn - 1
    <3>1. CASE x \in log
      BY <3>1, <2>2, <1>l DEF TrackerInv, TurnsAreDistinct
    <3>2. CASE x = next
      BY <3>2, <2>2, <1>l DEF Gives
    <3> QED BY <3>1, <3>2, <1>l
  <2> QED BY <2>1, <2>2 DEF TurnsAreDistinct
<1>5. Tracked'
  <2> DEFINE n == Len(sessions')
  <2>1. /\ sessions' \in Seq(States) /\ n \in Nat /\ sessions'[1] = next
        /\ DOMAIN sessions' = 1 .. n
    <3>1. sessions' \in Seq(States) /\ sessions'[1] = next
      BY DEF Gives, Moved
    <3> QED BY <3>1
  <2>2. PICK from \in [2 .. n -> DOMAIN sessions] :
          /\ \A j \in 2 .. n : sessions'[j] = sessions[from[j]]
          /\ \A j, k \in 2 .. n : from[j] = from[k] => j = k
          /\ \A j \in 2 .. n : next.id # sessions[from[j]].id
    BY DEF Gives, Moved
  <2> HIDE DEF n
  <2>3. ASSUME NEW j \in 1 .. n, NEW k \in 1 .. n, sessions'[j].id = sessions'[k].id
        PROVE  j = k
    <3>1. CASE j \in 2 .. n /\ k \in 2 .. n
      BY <3>1, <2>2, <2>3 DEF TrackerInv, Tracked
    <3>2. CASE j = 1 /\ k \in 2 .. n
      BY <3>2, <2>1, <2>2, <2>3
    <3>3. CASE j \in 2 .. n /\ k = 1
      BY <3>3, <2>1, <2>2, <2>3
    <3>4. j \in {1} \cup (2 .. n) /\ k \in {1} \cup (2 .. n)
      BY <2>1
    <3> QED BY <3>1, <3>2, <3>3, <3>4
  <2>4. ASSUME NEW j \in 1 .. n
        PROVE  /\ sessions'[j] \in log'
               /\ \A x \in log' : x.id = sessions'[j].id => x.turn <= sessions'[j].turn
    <3>1. CASE j = 1
      BY <3>1, <2>1, <1>l, <1>g, <1>x, <1>0
    <3>2. CASE j \in 2 .. n
      <4>1. /\ sessions'[j] = sessions[from[j]] /\ from[j] \in DOMAIN sessions
            /\ next.id # sessions'[j].id
        BY <3>2, <2>2
      <4>2. /\ sessions'[j] \in log
            /\ \A x \in log : x.id = sessions'[j].id => x.turn <= sessions'[j].turn
        BY <4>1 DEF TrackerInv, Tracked
      <4> QED BY <4>1, <4>2, <1>l
    <3>3. j \in {1} \cup (2 .. n)
      BY <2>1
    <3> QED BY <3>1, <3>2, <3>3
  <2> QED BY <2>1, <2>3, <2>4 DEF Tracked
<1> QED BY <1>1, <1>2, <1>3, <1>4, <1>5 DEF TrackerInv

LEMMA ForgetKeepsInv == TrackerInv /\ Forget => TrackerInv'
<1> SUFFICES ASSUME TrackerInv, Forget PROVE TrackerInv'
  OBVIOUS
<1>1. TypeOK' /\ Tracked'
  BY TrackerAssumption DEF Forget, TrackerInv, TypeOK, Tracked
<1>2. Logged' /\ LaterTurnsExtend' /\ TurnsAreDistinct'
  BY DEF Forget, TrackerInv, Logged, LaterTurnsExtend, TurnsAreDistinct
<1> QED BY <1>1, <1>2 DEF TrackerInv

LEMMA TrackerKept == TrackerInv /\ UNCHANGED vars => TrackerInv'
BY DEF vars, TrackerInv, TypeOK, Tracked, Logged, LaterTurnsExtend, TurnsAreDistinct

LEMMA TrackerInit == Init => TrackerInv
<1> SUFFICES ASSUME Init PROVE TrackerInv
  OBVIOUS
<1>1. TypeOK
  BY TrackerAssumption DEF Init, TypeOK
<1> QED BY <1>1 DEF Init, TrackerInv, Tracked, Logged, LaterTurnsExtend, TurnsAreDistinct

(* Within a session the messages of a later turn strictly extend those of an  *)
(* earlier one (session.ts 4-6), for any capacity and any requests.           *)
THEOREM TrackerLaterTurnsExtend == Spec => []LaterTurnsExtend
<1>1. TrackerInv /\ [Next]_vars => TrackerInv'
  <2>1. ASSUME TrackerInv, NEW messages \in Requests, Classify(messages) PROVE TrackerInv'
    BY <2>1, ClassifyGives, GivenKeepsInv
  <2> QED BY <2>1, ForgetKeepsInv, TrackerKept DEF Next
<1>2. TrackerInv => LaterTurnsExtend
  BY DEF TrackerInv
<1> QED BY TrackerInit, <1>1, <1>2, PTL DEF Spec

---------------------------------------------------------------------------
(* Recording *)

Early == {"none", "proxying", "streaming", "broken"}
Late  == {"writing", "renamed", "queued", "failed"}
Phases == Early \cup Late \cup {"cut"}

Pending(i) == {e \in Exchanges : Writing(e) /\ made[e].id = i}

(* What an exchange was given is in the history of the tracker, together with *)
(* what it asked; before its capture it has nothing.                          *)
Agree ==
  \A e \in Exchanges :
    /\ phase[e] \in Early => made[e] = Unclassified
    /\ phase[e] \in Late => made[e] # Unclassified
    /\ made[e] # Unclassified => made[e] \in log /\ asked[e] = made[e].tip

(* The file of a session holds a turn given to some exchange and, when the    *)
(* captures of a session do not overlap, no earlier one than those renamed    *)
(* into place.                                                               *)
Written ==
  /\ Serial => \A e \in Exchanges :
       phase[e] \in {"renamed", "queued"} => made[e].turn <= file[made[e].id]
  /\ \A i \in Ids : file[i] # 0 =>
       \E x \in Exchanges : made[x].id = i /\ made[x].turn = file[i]

(* When the captures of a session do not overlap, one that is being written   *)
(* has the latest turn of its session.                                        *)
Latest ==
  Serial => \A e \in Exchanges : Writing(e) =>
              \A y \in log : y.id = made[e].id => y.turn <= made[e].turn

Shape ==
  /\ router \in {"up", "stopping", "down"}
  /\ phase \in [Exchanges -> Phases]
  /\ asked \in [Exchanges -> Requests]
  /\ gone \subseteq Exchanges
  /\ made \in [Exchanges -> States \cup {Unclassified}]
  /\ file \in [Ids -> 0 .. MaxLen]

Counted == pending \in [Ids -> Nat] /\ PendingIsExact

RecordingInv == TrackerInv /\ Shape /\ Agree /\ Written /\ Latest /\ Counted

LEMMA PendingFinite ==
  ASSUME NEW i
  PROVE  IsFiniteSet(Pending(i)) /\ Cardinality(Pending(i)) \in 0 .. MaxExchanges
<1>1. /\ IsFiniteSet(Exchanges) /\ Cardinality(Exchanges) = MaxExchanges
  <2>1. MaxExchanges \in Nat
    BY RecordingAssumption
  <2> QED BY <2>1, FS_Interval DEF Exchanges
<1>2. Pending(i) \in SUBSET Exchanges
  BY DEF Pending
<1>3. IsFiniteSet(Pending(i)) /\ Cardinality(Pending(i)) <= MaxExchanges
  BY <1>1, <1>2, FS_Subset
<1>4. Cardinality(Pending(i)) \in Nat
  BY <1>3, FS_CardinalityType
<1> QED BY <1>3, <1>4, RecordingAssumption

LEMMA EmptyRequest == <<>> \in Requests
<1>1. <<>> \in [1 .. 0 -> Messages]
  OBVIOUS
<1> QED BY <1>1, TrackerAssumption DEF Requests

LEMMA RecordingInit == RInit => RecordingInv
<1> SUFFICES ASSUME RInit PROVE RecordingInv
  OBVIOUS
<1>1. TrackerInv
  BY TrackerInit DEF RInit
<1>2. Shape
  BY EmptyRequest, TrackerAssumption DEF RInit, Shape, Phases, Early, Ids
<1>3. Agree /\ Written /\ Latest
  BY DEF RInit, Agree, Written, Latest, Writing, Early, Late
<1>4. Counted
  <2>1. \A i \in Ids : Pending(i) = {}
    BY DEF RInit, Pending, Writing
  <2>2. \A i \in Ids : pending[i] = Cardinality(Pending(i))
    BY <2>1, FS_EmptySet DEF RInit
  <2> QED BY <2>2 DEF RInit, Counted, PendingIsExact, Pending
<1> QED BY <1>1, <1>2, <1>3, <1>4 DEF RecordingInv

(* A step before the capture of an exchange. *)
LEMMA EarlyKeeps ==
  ASSUME RecordingInv, NEW e \in Exchanges, NEW p \in Early, NEW r \in Requests,
         phase[e] \in Early, To(e, p), asked' = [asked EXCEPT ![e] = r],
         gone' \subseteq Exchanges,
         UNCHANGED <<vars, router, made, file, pending>>
  PROVE  RecordingInv'
<1>1. TrackerInv'
  BY TrackerKept DEF RecordingInv
<1>2. Shape'
  BY DEF RecordingInv, Shape, To, Phases
<1>3. /\ \A x \in Exchanges : Writing(x)' <=> Writing(x)
      /\ \A x \in Exchanges : phase'[x] = phase[x] \/ (x = e /\ phase'[x] \in Early)
  BY DEF RecordingInv, Shape, To, Writing, Early
<1>4. Agree'
  <2>1. made[e] = Unclassified
    BY DEF RecordingInv, Agree
  <2>2. \A x \in Exchanges \ {e} : asked'[x] = asked[x]
    BY DEF RecordingInv, Shape
  <2> QED BY <2>1, <2>2, <1>3 DEF RecordingInv, Agree, vars, Early, Late
<1>5. Written' /\ Latest'
  BY <1>3 DEF RecordingInv, Written, Latest, vars, Early
<1>6. Counted'
  <2>1. \A i \in Ids : Pending(i)' = Pending(i)
    BY <1>3 DEF Pending
  <2> QED BY <2>1 DEF RecordingInv, Counted, PendingIsExact, Pending
<1> QED BY <1>1, <1>2, <1>4, <1>5, <1>6 DEF RecordingInv

(* The end of a capture, with its row or without it. *)
LEMMA EndKeeps ==
  ASSUME RecordingInv, NEW e \in Exchanges, NEW p \in {"queued", "failed"},
         Writing(e), p = "queued" => phase[e] = "renamed",
         To(e, p), End(made[e].id),
         UNCHANGED <<vars, router, asked, gone, made, file>>
  PROVE  RecordingInv'
<1>1. TrackerInv'
  BY TrackerKept DEF RecordingInv
<1>2. Shape'
  BY DEF RecordingInv, Shape, To, Phases, Late
<1>3. \A x \in Exchanges :
        /\ Writing(x)' <=> (Writing(x) /\ x # e)
        /\ phase'[x] = IF x = e THEN p ELSE phase[x]
  BY DEF RecordingInv, Shape, To, Writing
<1>4. Agree' /\ Written' /\ Latest'
  BY <1>3 DEF RecordingInv, Agree, Written, Latest, Writing, vars, Early, Late
<1>5. made[e].id \in Ids
  BY DEF RecordingInv, Shape, Agree, Writing, Late, States, Ids
<1>6. Counted'
  <2> DEFINE i == made[e].id
  <2>1. e \in Pending(i) /\ pending[i] = Cardinality(Pending(i))
    BY <1>5 DEF Pending, RecordingInv, Counted, PendingIsExact
  <2>2. Cardinality(Pending(i) \ {e}) = Cardinality(Pending(i)) - 1
        /\ Cardinality(Pending(i) \ {e}) \in Nat
    BY <2>1, PendingFinite, FS_RemoveElement, FS_CardinalityType
  <2>3. \A j \in Ids : Pending(j)' = IF j = i THEN Pending(j) \ {e} ELSE Pending(j)
    BY <1>3 DEF Pending
  <2>4. \A j \in Ids : pending'[j] = IF j = i THEN pending[j] - 1 ELSE pending[j]
    BY <1>5 DEF RecordingInv, Counted, End
  <2>5. \A j \in Ids : pending'[j] = Cardinality(Pending(j)')
    <3> SUFFICES ASSUME NEW j \in Ids PROVE pending'[j] = Cardinality(Pending(j)')
      OBVIOUS
    <3>1. pending[j] = Cardinality(Pending(j))
      BY DEF RecordingInv, Counted, PendingIsExact, Pending
    <3>2. CASE j = i
      BY <3>2, <2>1, <2>2, <2>3, <2>4
    <3>3. CASE j # i
      BY <3>1, <3>3, <2>3, <2>4
    <3> QED BY <3>2, <3>3
  <2>6. pending' \in [Ids -> Nat]
    BY <1>5, <2>1, <2>2, <2>4 DEF RecordingInv, Counted, End
  <2> QED BY <2>5, <2>6 DEF Counted, PendingIsExact, Pending
<1> QED BY <1>1, <1>2, <1>4, <1>6 DEF RecordingInv

LEMMA RenameKeeps ==
  ASSUME RecordingInv, NEW e \in Exchanges, RenameLands(e)
  PROVE  RecordingInv'
<1> DEFINE i == made[e].id
<1>0. phase[e] = "writing" /\ Writing(e) /\ made[e] # Unclassified
  BY DEF RenameLands, Writing, RecordingInv, Agree, Late
<1>i. i \in Ids /\ made[e] \in log /\ made[e].turn \in 1 .. MaxLen
  BY <1>0 DEF RecordingInv, Agree, Shape, States, Ids
<1>1. TrackerInv'
  BY TrackerKept DEF RecordingInv, RenameLands
<1>2. Shape'
  BY <1>i, TrackerAssumption DEF RecordingInv, RenameLands, Shape, To, Phases, Late
<1>3. \A x \in Exchanges :
        /\ Writing(x)' <=> Writing(x)
        /\ phase'[x] = IF x = e THEN "renamed" ELSE phase[x]
  BY <1>0 DEF RecordingInv, RenameLands, Shape, To, Writing
<1>4. Agree' /\ Latest'
  BY <1>0, <1>3 DEF RecordingInv, RenameLands, Agree, Latest, vars, Early, Late
<1>5. Written'
  <2>1. \A j \in Ids : file'[j] = IF j = i THEN made[e].turn ELSE file[j]
    BY <1>i DEF RecordingInv, Shape, RenameLands
  <2>2. ASSUME Serial, NEW x \in Exchanges, phase'[x] \in {"renamed", "queued"}
        PROVE  made[x].turn <= file'[made[x].id]
    <3>1. CASE x = e
      BY <3>1, <2>1, <1>i
    <3>2. CASE x # e
      <4>1. phase[x] \in {"renamed", "queued"} /\ made[x] # Unclassified
        BY <3>2, <2>2, <1>3 DEF RecordingInv, Agree, Late
      <4>2. made[x] \in log /\ made[x].id \in Ids
        BY <4>1 DEF RecordingInv, Agree, Shape, States, Ids
      <4>3. CASE made[x].id = i
        BY <2>2, <4>2, <4>3, <2>1, <1>0 DEF RecordingInv, Latest
      <4>4. CASE made[x].id # i
        BY <2>2, <4>1, <4>2, <4>4, <2>1 DEF RecordingInv, Written
      <4> QED BY <4>3, <4>4
    <3> QED BY <3>1, <3>2
  <2>3. ASSUME NEW j \in Ids, file'[j] # 0
        PROVE  \E x \in Exchanges : made[x].id = j /\ made[x].turn = file'[j]
    <3>1. CASE j = i
      BY <3>1, <2>1
    <3>2. CASE j # i
      BY <3>2, <2>1, <2>3 DEF RecordingInv, Written
    <3> QED BY <3>1, <3>2
  <2> QED BY <2>2, <2>3 DEF Written, RenameLands
<1>6. Counted'
  <2>1. \A j \in Ids : Pending(j)' = Pending(j)
    BY <1>3 DEF Pending, RenameLands
  <2> QED BY <2>1 DEF RecordingInv, RenameLands, Counted, PendingIsExact, Pending
<1> QED BY <1>1, <1>2, <1>4, <1>5, <1>6 DEF RecordingInv

LEMMA CaptureKeeps ==
  ASSUME RecordingInv, NEW e \in Exchanges, Capture(e)
  PROVE  RecordingInv'
<1>0. asked[e] \in Requests /\ phase[e] = "streaming" /\ made[e] = Unclassified
  BY DEF RecordingInv, Shape, Agree, Early, Capture
<1>1. PICK next \in States : Gives(next, asked[e])
  BY <1>0, ClassifyGives DEF RecordingInv, Capture
<1>2. TrackerInv'
  BY <1>0, <1>1, GivenKeepsInv DEF RecordingInv
<1>3. Head(sessions') = next
  BY <1>1 DEF Gives, Moved
<1>4. /\ Serial => \A x \in Exchanges : Writing(x) => made[x].id # next.id
      /\ made' = [made EXCEPT ![e] = next]
      /\ pending' = [pending EXCEPT ![next.id] = pending[next.id] + 1]
      /\ To(e, "writing") /\ gone' = gone \ {e}
      /\ UNCHANGED <<router, asked, file>>
  BY <1>3 DEF Capture, Begin
<1>5. /\ next.id \in Ids /\ next.tip = asked[e] /\ log' = log \cup {next}
      /\ next # Unclassified
  BY <1>1 DEF Gives, States, Ids, Unclassified
<1>6. Shape'
  BY <1>4 DEF RecordingInv, Shape, To, Phases, Late
<1>7. \A x \in Exchanges :
        /\ phase'[x] = IF x = e THEN "writing" ELSE phase[x]
        /\ made'[x] = IF x = e THEN next ELSE made[x]
        /\ Writing(x)' <=> Writing(x) \/ x = e
  BY <1>4 DEF RecordingInv, Shape, To, Writing
<1>8. Agree'
  BY <1>0, <1>4, <1>5, <1>7 DEF RecordingInv, Agree, Early, Late
<1>9. Written'
  <2>1. ASSUME Serial, NEW x \in Exchanges, phase'[x] \in {"renamed", "queued"}
        PROVE  made'[x].turn <= file'[made'[x].id]
    BY <2>1, <1>4, <1>7 DEF RecordingInv, Written
  <2>2. ASSUME NEW j \in Ids, file'[j] # 0
        PROVE  \E x \in Exchanges : made'[x].id = j /\ made'[x].turn = file'[j]
    <3>1. PICK x \in Exchanges : made[x].id = j /\ made[x].turn = file[j]
      BY <2>2, <1>4 DEF RecordingInv, Written
    <3>2. x # e
      BY <3>1, <1>0 DEF Unclassified, Ids
    <3> QED BY <3>1, <3>2, <1>4, <1>7
  <2> QED BY <2>1, <2>2 DEF Written
<1>10. Latest'
  <2> SUFFICES ASSUME Serial, NEW x \in Exchanges, Writing(x)', NEW y \in log', y.id = made'[x].id
               PROVE  y.turn <= made'[x].turn
    BY DEF Latest
  <2>1. CASE x = e
    <3>1. next.turn \in Nat
      BY <1>1 DEF States
    <3>2. CASE y = next
      BY <3>1, <3>2, <2>1, <1>7
    <3>3. CASE y \in log
      <4>1. y.turn < next.turn /\ y.turn \in Nat
        BY <3>3, <2>1, <1>1, <1>7 DEF Gives, RecordingInv, TrackerInv, TypeOK, States
      <4> QED BY <4>1, <3>1, <2>1, <1>7
    <3> QED BY <3>2, <3>3, <1>5
  <2>2. CASE x # e
    <3>1. Writing(x) /\ made'[x] = made[x] /\ made[x].id # next.id
      BY <2>2, <1>4, <1>7
    <3>2. y \in log
      BY <3>1, <1>5
    <3> QED BY <3>1, <3>2 DEF RecordingInv, Latest
  <2> QED BY <2>1, <2>2
<1>11. Counted'
  <2> DEFINE i == next.id
  <2>0. pending \in [Ids -> Nat] /\ \A j \in Ids : pending[j] = Cardinality(Pending(j))
    BY DEF RecordingInv, Counted, PendingIsExact, Pending
  <2>1. e \notin Pending(i)
    BY <1>0 DEF Pending, Writing
  <2>2. Cardinality(Pending(i) \cup {e}) = Cardinality(Pending(i)) + 1
    BY <2>1, PendingFinite, FS_AddElement
  <2>3. ASSUME NEW j \in Ids
        PROVE  Pending(j)' = IF j = i THEN Pending(j) \cup {e} ELSE Pending(j)
    <3>1. e \notin Pending(j)
      BY <1>0 DEF Pending, Writing
    <3>2. \A x \in Exchanges : x # e => (x \in Pending(j)' <=> x \in Pending(j))
      BY <1>7 DEF Pending
    <3>3. e \in Pending(j)' <=> j = i
      BY <1>7 DEF Pending
    <3>4. Pending(j)' \subseteq Exchanges /\ Pending(j) \subseteq Exchanges
      BY DEF Pending
    <3> QED BY <3>1, <3>2, <3>3, <3>4
  <2>4. ASSUME NEW j \in Ids PROVE pending'[j] = Cardinality(Pending(j)')
    <3>1. CASE j = i
      BY <3>1, <2>0, <2>2, <2>3, <1>4
    <3>2. CASE j # i
      BY <3>2, <2>0, <2>3, <1>4
    <3> QED BY <3>1, <3>2
  <2>5. pending' \in [Ids -> Nat]
    BY <2>0, <1>4, <1>5
  <2> QED BY <2>4, <2>5 DEF Counted, PendingIsExact, Pending
<1> QED BY <1>2, <1>6, <1>8, <1>9, <1>10, <1>11 DEF RecordingInv

LEMMA DieKeeps ==
  ASSUME RecordingInv, Die
  PROVE  RecordingInv'
<1>1. TrackerInv'
  BY ForgetKeepsInv DEF RecordingInv, Die
<1>2. \A x \in Exchanges : phase'[x] = IF x \in InFlight THEN "cut" ELSE phase[x]
  BY DEF Die
<1>3. Shape'
  <2>1. \A x \in Exchanges : made[x].tip \in Requests
    BY EmptyRequest DEF RecordingInv, Shape, States, Unclassified
  <2>2. phase' \in [Exchanges -> Phases]
    BY DEF RecordingInv, Shape, Die, Phases
  <2> QED BY <2>1, <2>2 DEF RecordingInv, Shape, Die
<1>4. \A x \in Exchanges : ~ Writing(x)' /\ (phase'[x] = phase[x] \/ phase'[x] = "cut")
  BY <1>2 DEF Writing, InFlight
<1>5. Agree' /\ Written' /\ Latest'
  BY <1>4 DEF RecordingInv, Die, Forget, Agree, Written, Latest, Early, Late
<1>6. Counted'
  <2>1. \A i \in Ids : Pending(i)' = {}
    BY <1>4 DEF Pending
  <2>2. \A i \in Ids : pending'[i] = 0 /\ Cardinality(Pending(i)') = 0
    BY <2>1, FS_EmptySet DEF Die
  <2> QED BY <2>2 DEF Die, Counted, PendingIsExact, Pending
<1> QED BY <1>1, <1>3, <1>5, <1>6 DEF RecordingInv

LEMMA RecordingNext ==
  ASSUME RecordingInv, [RNext]_rvars
  PROVE  RecordingInv'
<1>t. /\ asked \in [Exchanges -> Requests] /\ gone \subseteq Exchanges
      /\ <<>> \in Requests
  BY EmptyRequest DEF RecordingInv, Shape
<1>1. ASSUME NEW e \in Exchanges, NEW messages \in Asked, Accept(e, messages)
      PROVE  RecordingInv'
  BY <1>1, <1>t, EarlyKeeps, RecordingAssumption DEF Accept, Early
<1>2. ASSUME NEW e \in Exchanges, ProxyFails(e) \/ Break(e) PROVE RecordingInv'
  BY <1>2, <1>t, EarlyKeeps DEF ProxyFails, Break, Early
<1>3. ASSUME NEW e \in Exchanges, Respond(e) \/ Abort(e) PROVE RecordingInv'
  <2>1. asked' = [asked EXCEPT ![e] = asked[e]] /\ asked[e] \in Requests
    BY <1>3, <1>t DEF Respond, Abort
  <2>2. CASE Respond(e)
    BY <2>1, <2>2, <1>t, EarlyKeeps DEF Respond, Early
  <2>3. CASE Abort(e)
    <3>1. To(e, "streaming")
      BY <2>3 DEF Abort, To, RecordingInv, Shape
    <3> QED BY <3>1, <2>1, <2>3, <1>t, EarlyKeeps DEF Abort, Early
  <2> QED BY <1>3, <2>2, <2>3
<1>4. ASSUME NEW e \in Exchanges, WriteFails(e) \/ Conclude(e) PROVE RecordingInv'
  BY <1>4, EndKeeps DEF WriteFails, Conclude, Queue, EnqueueFails, Writing
<1>5. CASE Shutdown \/ Restart \/ UNCHANGED rvars
  <2>1. /\ UNCHANGED <<vars, phase, asked, made, file, pending>>
        /\ router' \in {"up", "stopping", "down"} /\ gone' \subseteq Exchanges
    BY <1>5, <1>t DEF Shutdown, Restart, rvars, RecordingInv, Shape
  <2>2. TrackerInv' /\ Shape'
    BY <2>1, TrackerKept DEF RecordingInv, Shape
  <2>3. Agree' /\ Written' /\ Latest' /\ Counted'
    BY <2>1 DEF RecordingInv, Agree, Written, Latest, Counted, PendingIsExact, Writing, vars
  <2> QED BY <2>2, <2>3 DEF RecordingInv
<1> QED BY <1>1, <1>2, <1>3, <1>4, <1>5, RenameKeeps, CaptureKeeps, DieKeeps
        DEF RNext, Upstream, Response, Write

LEMMA RecordingInvIs ==
  ASSUME RecordingInv
  PROVE  RTypeOK /\ PendingIsExact /\ LaterTurnsExtend /\ (Serial => FileHoldsEveryTurn)
<1>1. RTypeOK
  <2>1. \A i \in Ids : pending[i] \in 0 .. MaxExchanges
    BY PendingFinite DEF RecordingInv, Counted, PendingIsExact, Pending
  <2>2. pending \in [Ids -> 0 .. MaxExchanges]
    BY <2>1 DEF RecordingInv, Counted
  <2> QED BY <2>2 DEF RecordingInv, TrackerInv, Shape, Phases, Early, Late, RTypeOK
<1>2. ASSUME Serial, NEW e \in Exchanges, phase[e] = "queued"
      PROVE  \E x \in Exchanges : /\ made[x].id = made[e].id
                                  /\ made[x].turn = file[made[e].id]
                                  /\ IsPrefix(asked[e], asked[x])
  <2>1. made[e] \in log /\ asked[e] = made[e].tip /\ made[e] \in States
    BY <1>2 DEF RecordingInv, Agree, Late, Shape
  <2>2. /\ made[e].id \in Ids /\ made[e].turn \in Nat /\ made[e].turn >= 1
        /\ made[e].turn <= file[made[e].id] /\ file[made[e].id] \in Nat
    BY <1>2, <2>1, TrackerAssumption DEF RecordingInv, Written, Shape, States, Ids
  <2>3. PICK x \in Exchanges : made[x].id = made[e].id /\ made[x].turn = file[made[e].id]
    BY <2>2 DEF RecordingInv, Written
  <2>4. made[x] # Unclassified
    BY <2>2, <2>3 DEF Unclassified, Ids
  <2>5. made[x] \in log /\ asked[x] = made[x].tip
    BY <2>4 DEF RecordingInv, Agree
  <2>6. CASE made[x].turn = made[e].turn
    <3>1. made[x] = made[e]
      BY <2>1, <2>3, <2>5, <2>6 DEF RecordingInv, TrackerInv, TurnsAreDistinct
    <3>2. IsPrefix(asked[e], asked[x])
      <4>1. asked[e] \in Seq(Messages) /\ asked[x] = asked[e]
        BY <3>1, <2>1, <2>5, RequestsAreSeqs DEF States
      <4> QED BY <4>1 DEF IsPrefix
    <3> QED BY <3>2, <2>3
  <2>7. CASE made[e].turn < made[x].turn
    <3>1. IsStrictPrefix(made[e].tip, made[x].tip)
      BY <2>1, <2>3, <2>5, <2>7 DEF RecordingInv, TrackerInv, LaterTurnsExtend
    <3> QED BY <3>1, <2>1, <2>3, <2>5 DEF IsStrictPrefix
  <2> QED BY <2>2, <2>3, <2>6, <2>7
<1> QED BY <1>1, <1>2 DEF FileHoldsEveryTurn, RecordingInv, Counted, TrackerInv

(* The tracker keeps to its capacity, and everything about an exchange has    *)
(* the shape the code gives it.                                              *)
THEOREM RecordingTypeCorrect == RFairSpec => []RTypeOK
<1>1. RecordingInv => RTypeOK
  BY RecordingInvIs
<1>2. RecordingInv /\ [RNext]_rvars => RecordingInv'
  BY RecordingNext
<1> QED BY RecordingInit, <1>1, <1>2, PTL DEF RFairSpec

(* Whatever order the responses end in, and however often the router starts   *)
(* again, a later turn of a session strictly extends the earlier ones.        *)
THEOREM RecordedTurnsExtend == RFairSpec => []LaterTurnsExtend
<1>1. RecordingInv => LaterTurnsExtend
  BY RecordingInvIs
<1>2. RecordingInv /\ [RNext]_rvars => RecordingInv'
  BY RecordingNext
<1> QED BY RecordingInit, <1>1, <1>2, PTL DEF RFairSpec

(* The router never gives the same turn of a session twice, and counts the    *)
(* turns without a gap (models.py 95-97).                                     *)
THEOREM RecordedTurnsDistinct == RFairSpec => []TurnsAreDistinct
<1>1. RecordingInv => TurnsAreDistinct
  BY DEF RecordingInv, TrackerInv
<1>2. RecordingInv /\ [RNext]_rvars => RecordingInv'
  BY RecordingNext
<1> QED BY RecordingInit, <1>1, <1>2, PTL DEF RFairSpec

(* As long as the captures of a session do not overlap, every row of the      *)
(* queue stands for a file that holds all its request said.                   *)
THEOREM SerialFilesHoldTurns == ASSUME Serial PROVE RFairSpec => []FileHoldsEveryTurn
<1>1. RecordingInv => FileHoldsEveryTurn
  BY RecordingInvIs
<1>2. RecordingInv /\ [RNext]_rvars => RecordingInv'
  BY RecordingNext
<1> QED BY RecordingInit, <1>1, <1>2, PTL DEF RFairSpec

(* The counters of PendingSessionWrites are exact, however captures overlap   *)
(* and fail: the cleanups spare the files being written, and only those.      *)
THEOREM PendingExact == RFairSpec => []PendingIsExact
<1>1. RecordingInv => PendingIsExact
  BY RecordingInvIs
<1>2. RecordingInv /\ [RNext]_rvars => RecordingInv'
  BY RecordingNext
<1> QED BY RecordingInit, <1>1, <1>2, PTL DEF RFairSpec

---------------------------------------------------------------------------
(* The exchanges use the tracker as it is meant to be used. *)

LEMMA RecordingStepsTracker ==
  ASSUME RecordingInv, [RNext]_rvars
  PROVE  [Next]_vars
<1>1. ASSUME NEW e \in Exchanges, Capture(e) PROVE Next
  <2>1. asked[e] \in Requests
    BY DEF RecordingInv, Shape
  <2> QED BY <2>1, <1>1 DEF Capture, Next
<1>2. CASE Die
  BY <1>2 DEF Die, Next
<1>3. ASSUME NEW e \in Exchanges,
             \/ \E messages \in Asked : Accept(e, messages)
             \/ Upstream(e) \/ Abort(e) \/ Break(e) \/ Write(e) \/ Conclude(e)
      PROVE  UNCHANGED vars
  BY <1>3 DEF Accept, Upstream, Respond, ProxyFails, Abort, Break, Write, RenameLands, WriteFails,
     Conclude, Queue, EnqueueFails
<1>4. CASE Shutdown \/ Restart \/ UNCHANGED rvars
  BY <1>4 DEF Shutdown, Restart, rvars
<1> QED BY <1>1, <1>2, <1>3, <1>4 DEF RNext, Response

(* Seen from the tracker, recording is a sequence of classifications and       *)
(* restarts: every behaviour of Recording is one of SessionTracker.            *)
THEOREM RecordingImplementsTracker == RFairSpec => Spec
<1>1. RInit => Init
  BY DEF RInit
<1>2. RecordingInv /\ [RNext]_rvars => RecordingInv'
  BY RecordingNext
<1>3. RecordingInv /\ [RNext]_rvars => [Next]_vars
  BY RecordingStepsTracker
<1> QED BY RecordingInit, <1>1, <1>2, <1>3, PTL DEF RFairSpec, Spec

(* What ForgetsOldest says of one step. *)
Forgets(i) == \A j \in DOMAIN sessions' : sessions'[j].id # sessions[i].id

LEMMA ContinueForgetsNone ==
  ASSUME TypeOK, NEW messages \in Requests, Continue(messages), NEW k \in DOMAIN sessions
  PROVE  ~ Forgets(k)
<1>1. PICK i \in DOMAIN sessions :
        sessions' = <<[id |-> sessions[i].id, tip |-> messages, turn |-> sessions[i].turn + 1]>>
                      \o RemoveAt(sessions, i)
  BY ContinueEffect
<1> DEFINE next == [id |-> sessions[i].id, tip |-> messages, turn |-> sessions[i].turn + 1]
           kept == RemoveAt(sessions, i)
           n == Len(sessions)
<1>2. sessions \in Seq(States) /\ n \in Nat /\ i \in 1 .. n /\ k \in 1 .. n
  BY DEF TypeOK
<1>3. /\ kept \in Seq(States) /\ Len(kept) = n - 1
      /\ \A j \in 1 .. n - 1 : kept[j] = sessions[IF j < i THEN j ELSE j + 1]
  BY <1>2, RemoveAtIndices
<1>4. sessions' = <<next>> \o kept /\ next.id = sessions[i].id
  BY <1>1
<1> HIDE DEF next, kept
<1> DEFINE s == <<next>> \o kept
           T == {next} \cup States
<1>n. /\ s \in Seq(T) /\ Len(s) = Len(kept) + 1 /\ s[1] = next
      /\ \A j \in 2 .. Len(s) : s[j] = kept[j - 1]
  <2>1. next \in T /\ kept \in Seq(T)
    BY <1>3
  <2> HIDE DEF T
  <2> QED BY <2>1, PutBefore
<1>s. sessions' = s
  BY <1>4
<1> HIDE DEF s, T
<1>5. /\ sessions'[1] = next /\ DOMAIN sessions' = 1 .. n
      /\ \A j \in 2 .. n : sessions'[j] = kept[j - 1]
  BY <1>2, <1>3, <1>n, <1>s
<1>6. CASE k = i
  <2>1. 1 \in DOMAIN sessions'
    BY <1>2, <1>5
  <2>2. sessions'[1].id = sessions[k].id
    BY <1>4, <1>5, <1>6
  <2> QED BY <2>1, <2>2 DEF Forgets
<1>7. CASE k < i
  <2>1. k \in 1 .. n - 1 /\ k + 1 \in 2 .. n /\ (k + 1) - 1 = k
    BY <1>7, <1>2
  <2>2. sessions'[k + 1] = sessions[k]
    BY <2>1, <1>3, <1>5, <1>7
  <2> QED BY <2>1, <2>2, <1>2, <1>5 DEF Forgets
<1>8. CASE k > i
  <2>1. k - 1 \in 1 .. n - 1 /\ k \in 2 .. n /\ ~ (k - 1 < i) /\ (k - 1) + 1 = k
    BY <1>8, <1>2
  <2>2. sessions'[k] = sessions[k]
    BY <2>1, <1>3, <1>5
  <2> QED BY <2>1, <2>2, <1>2, <1>5 DEF Forgets
<1> QED BY <1>2, <1>6, <1>7, <1>8

LEMMA StartForgetsOldest ==
  ASSUME TypeOK, NEW messages \in Requests, Start(messages), NEW k \in DOMAIN sessions,
         Forgets(k)
  PROVE  k = Len(sessions) /\ k = Capacity /\ started' = started + 1
<1> DEFINE next == [id |-> started', tip |-> messages, turn |-> 1]
           kept == IF Len(sessions) >= Capacity THEN EvictOldest(sessions) ELSE sessions
           n == Len(sessions)
<1>1. /\ sessions \in Seq(States) /\ n \in Nat /\ k \in 1 .. n /\ n <= Capacity
      /\ Capacity \in Nat \ {0}
  BY TrackerAssumption DEF TypeOK
<1>2. sessions' = <<next>> \o kept /\ started' = started + 1
  BY DEF Start
<1>3. /\ kept \in Seq(States)
      /\ Len(kept) = IF n >= Capacity THEN n - 1 ELSE n
      /\ \A j \in 1 .. Len(kept) : kept[j] = sessions[j]
  BY <1>1 DEF EvictOldest, Front
<1> HIDE DEF kept, next
<1> DEFINE s == <<next>> \o kept
           T == {next} \cup States
<1>n. /\ s \in Seq(T) /\ Len(s) = Len(kept) + 1 /\ Len(kept) \in Nat
      /\ \A j \in 2 .. Len(s) : s[j] = kept[j - 1]
  <2>1. next \in T /\ kept \in Seq(T)
    BY <1>3
  <2> HIDE DEF T
  <2> QED BY <2>1, PutBefore
<1>s. sessions' = s
  BY <1>2
<1> HIDE DEF s, T
<1>4. /\ DOMAIN sessions' = 1 .. Len(kept) + 1
      /\ \A j \in 1 .. Len(kept) : sessions'[j + 1] = kept[j]
  <2>1. DOMAIN sessions' = 1 .. Len(kept) + 1
    BY <1>n, <1>s
  <2>2. ASSUME NEW j \in 1 .. Len(kept) PROVE sessions'[j + 1] = kept[j]
    <3>1. j + 1 \in 2 .. Len(kept) + 1 /\ (j + 1) - 1 = j
      BY <1>n
    <3> QED BY <3>1, <1>n, <1>s
  <2> QED BY <2>1, <2>2
<1>5. k \notin 1 .. Len(kept)
  <2> SUFFICES ASSUME k \in 1 .. Len(kept) PROVE FALSE
    OBVIOUS
  <2>1. k + 1 \in DOMAIN sessions'
    BY <1>4, <1>n
  <2>2. sessions'[k + 1].id = sessions[k].id
    BY <1>3, <1>4
  <2> QED BY <2>1, <2>2 DEF Forgets
<1> QED BY <1>1, <1>2, <1>3, <1>5

(* A router that goes on running forgets only the session it used least       *)
(* recently, and only for a request that starts a new one.                   *)
THEOREM TrackerForgetsOldest == Spec => ForgetsOldest
<1>1. TypeOK /\ [Next]_vars =>
        [sessions' # <<>> =>
           \A i \in DOMAIN sessions :
             (\A j \in DOMAIN sessions' : sessions'[j].id # sessions[i].id)
               => i = Len(sessions) /\ i = Capacity /\ started' = started + 1]_vars
  <2>1. ASSUME TypeOK, NEW messages \in Requests, Classify(messages),
               NEW i \in DOMAIN sessions, Forgets(i)
        PROVE  i = Len(sessions) /\ i = Capacity /\ started' = started + 1
    BY <2>1, ContinueForgetsNone, StartForgetsOldest DEF Classify
  <2> QED BY <2>1 DEF Next, Forget, Forgets
<1>2. TrackerInv /\ [Next]_vars => TrackerInv'
  <2>1. ASSUME TrackerInv, NEW messages \in Requests, Classify(messages) PROVE TrackerInv'
    BY <2>1, ClassifyGives, GivenKeepsInv
  <2> QED BY <2>1, ForgetKeepsInv, TrackerKept DEF Next
<1>3. TrackerInv => TypeOK
  BY DEF TrackerInv
<1> QED BY TrackerInit, <1>1, <1>2, <1>3, PTL DEF Spec, ForgetsOldest

---------------------------------------------------------------------------
(* The captures of the exchanges are as Captures promises.                     *)

(* Every turn counted was given to one exchange, and no turn was skipped.       *)
Given ==
  /\ \A x \in log : \E e \in Exchanges : made[e] = x
  /\ \A e, f \in Exchanges :
       made[e] # Unclassified /\ made[e].id = made[f].id /\ made[e].turn = made[f].turn => e = f
  /\ \A x \in log : \A u \in 1 .. x.turn - 1 : \E y \in log : y.id = x.id /\ y.turn = u

LEMMA LogTyped ==
  ASSUME RecordingInv
  PROVE  /\ \A x \in log : x \in States /\ x.id \in Ids /\ x.turn \in Nat /\ x.turn \in 1 .. MaxLen
         /\ \A e \in Exchanges : made[e] # Unclassified => made[e] \in log
         /\ MaxLen \in Nat /\ MaxSessions \in Nat /\ started \in Nat
BY TrackerAssumption DEF RecordingInv, TrackerInv, TypeOK, States, Ids, Agree

LEMMA GivenNext ==
  ASSUME RecordingInv, Given, [RNext]_rvars
  PROVE  Given'
<1>1. ASSUME NEW e \in Exchanges, Capture(e) PROVE Given'
  <2>0. asked[e] \in Requests /\ made[e] = Unclassified
    BY <1>1 DEF RecordingInv, Shape, Agree, Early, Capture
  <2>1. PICK next \in States : Gives(next, asked[e])
    BY <1>1, <2>0, ClassifyGives DEF RecordingInv, Capture
  <2>2. Head(sessions') = next
    BY <2>1 DEF Gives, Moved
  <2>3. made' = [made EXCEPT ![e] = next] /\ made \in [Exchanges -> States \cup {Unclassified}]
    BY <1>1, <2>2 DEF Capture, RecordingInv, Shape
  <2>4. \A x \in Exchanges : made'[x] = IF x = e THEN next ELSE made[x]
    BY <2>3
  <2>5. /\ log' = log \cup {next} /\ next.turn \in Nat /\ next # Unclassified
        /\ \A x \in log : x.id = next.id => x.turn < next.turn
        /\ next.turn > 1 => \E y \in log : y.id = next.id /\ y.turn = next.turn - 1
        /\ Unclassified \notin log
    BY <2>1, TrackerAssumption DEF Gives, States, Unclassified, RecordingInv, TrackerInv, TypeOK
  <2>6. \A x \in log' : \E f \in Exchanges : made'[f] = x
    <3>1. ASSUME NEW x \in log PROVE \E f \in Exchanges : made'[f] = x
      <4>1. PICK f \in Exchanges : made[f] = x
        BY DEF Given
      <4> QED BY <4>1, <2>0, <2>4, <2>5
    <3> QED BY <3>1, <2>4, <2>5
  <2>7. ASSUME NEW d \in Exchanges, NEW f \in Exchanges, made'[d] # Unclassified,
               made'[d].id = made'[f].id, made'[d].turn = made'[f].turn
        PROVE  d = f
    <3>1. made'[f] # Unclassified
      BY <2>3, <2>4, <2>5, <2>7 DEF Unclassified, States
    <3>2. CASE d = e \/ f = e
      BY <3>1, <3>2, <2>4, <2>5, <2>7, LogTyped
    <3>3. CASE d # e /\ f # e
      BY <3>3, <2>4, <2>7 DEF Given
    <3> QED BY <3>2, <3>3
  <2>8. ASSUME NEW x \in log', NEW u \in 1 .. x.turn - 1
        PROVE  \E y \in log' : y.id = x.id /\ y.turn = u
    <3>1. CASE x \in log
      BY <3>1, <2>5 DEF Given
    <3>2. CASE x = next
      <4>1. PICK y \in log : y.id = next.id /\ y.turn = next.turn - 1
        BY <3>2, <2>5
      <4>2. u = y.turn \/ u \in 1 .. y.turn - 1
        BY <4>1, <3>2, <2>5
      <4> QED BY <4>1, <4>2, <3>2, <2>5 DEF Given
    <3> QED BY <3>1, <3>2, <2>5
  <2> QED BY <2>6, <2>7, <2>8 DEF Given
<1>2. CASE UNCHANGED <<made, log>>
  BY <1>2 DEF Given
<1>3. ASSUME NEW e \in Exchanges,
             \/ \E messages \in Asked : Accept(e, messages)
             \/ Upstream(e) \/ Abort(e) \/ Break(e) \/ Write(e) \/ Conclude(e)
      PROVE  UNCHANGED <<made, log>>
  BY <1>3 DEF Accept, Upstream, Respond, ProxyFails, Abort, Break, Write, RenameLands, WriteFails,
     Conclude, Queue, EnqueueFails, vars
<1>4. CASE Shutdown \/ Restart \/ Die \/ UNCHANGED rvars
  BY <1>4, <1>2 DEF Shutdown, Restart, Die, Forget, rvars, vars
<1> QED BY <1>1, <1>2, <1>3, <1>4 DEF RNext, Response

(* What Stage is: an exchange at a turn tells how far its capture is.           *)
Places == Ids \X (1 .. MaxLen)

StageIs ==
  \A p \in Places :
    /\ \A e \in Exchanges : Gave(e, p) => Stage[p] = Outcome(e)
    /\ (\A e \in Exchanges : ~ Gave(e, p)) => Stage[p] = "no"

LEMMA StageRead == RecordingInv /\ Given => StageIs
<1> SUFFICES ASSUME RecordingInv, Given, NEW p \in Places
             PROVE  /\ \A e \in Exchanges : Gave(e, p) => Stage[p] = Outcome(e)
                    /\ (\A e \in Exchanges : ~ Gave(e, p)) => Stage[p] = "no"
  BY DEF StageIs
<1>1. Stage[p] = IF \E e \in Exchanges : Gave(e, p)
                   THEN Outcome(CHOOSE e \in Exchanges : Gave(e, p)) ELSE "no"
  BY DEF Stage, Places
<1>2. ASSUME NEW e \in Exchanges, NEW f \in Exchanges, Gave(e, p), Gave(f, p) PROVE e = f
  <2>1. p[1] \in Ids
    BY DEF Places
  <2>2. made[e] # Unclassified
    BY <1>2, <2>1 DEF Gave, Unclassified, Ids
  <2> QED BY <1>2, <2>2 DEF Gave, Given
<1>3. ASSUME NEW e \in Exchanges, Gave(e, p) PROVE Stage[p] = Outcome(e)
  <2> DEFINE x == CHOOSE x \in Exchanges : Gave(x, p)
  <2>1. x \in Exchanges /\ Gave(x, p)
    BY <1>3
  <2>2. x = e
    BY <2>1, <1>2, <1>3
  <2>3. Stage[p] = Outcome(x)
    BY <1>1, <1>3
  <2> QED BY <2>2, <2>3
<1>4. ASSUME \A e \in Exchanges : ~ Gave(e, p) PROVE Stage[p] = "no"
  BY <1>1, <1>4
<1> QED BY <1>3, <1>4

LEMMA StageTable ==
  /\ Stage = [p \in Places |-> Stage[p]]
  /\ Stage' = [p \in Places |-> Stage'[p]]
BY DEF Stage, Places

(* One exchange's capture moves on, the others stay where they are.             *)
LEMMA StageMoves ==
  ASSUME RecordingInv, StageIs, StageIs', UNCHANGED made, NEW e \in Exchanges,
         NEW i \in Ids, NEW t \in 1 .. MaxLen, Gave(e, <<i, t>>),
         \A x \in Exchanges \ {e} : phase'[x] = phase[x],
         NEW g, Outcome(e)' = g
  PROVE  Staging!To(i, t, g)
<1> DEFINE p == <<i, t>>
<1>0. p \in Places /\ p[1] = i /\ p[2] = t
  BY DEF Places
<1>1. \A q \in Places : Stage'[q] = IF q = p THEN g ELSE Stage[q]
  <2> SUFFICES ASSUME NEW q \in Places PROVE Stage'[q] = IF q = p THEN g ELSE Stage[q]
    OBVIOUS
  <2>1. CASE q = p
    <3>1. Gave(e, q)'
      BY <2>1 DEF Gave
    <3>2. Stage'[q] = Outcome(e)'
      BY <3>1 DEF StageIs
    <3> QED BY <2>1, <3>2
  <2>2. CASE q # p /\ \E x \in Exchanges : Gave(x, q)
    <3>1. PICK x \in Exchanges : Gave(x, q)
      BY <2>2
    <3>2. x # e
      BY <2>2, <3>1, <1>0 DEF Gave, Places
    <3>3. Gave(x, q)' /\ Outcome(x)' = Outcome(x)
      BY <3>1, <3>2 DEF Gave, Outcome
    <3>4. Stage[q] = Outcome(x) /\ Stage'[q] = Outcome(x)'
      BY <3>1, <3>3 DEF StageIs
    <3> QED BY <2>2, <3>3, <3>4
  <2>3. CASE q # p /\ \A x \in Exchanges : ~ Gave(x, q)
    <3>1. \A x \in Exchanges : ~ Gave(x, q)'
      BY <2>3 DEF Gave
    <3> QED BY <2>3, <3>1 DEF StageIs
  <2> QED BY <2>1, <2>2, <2>3
<1> HIDE DEF p
<1>2. Stage' = [Stage EXCEPT ![p] = g]
  BY <1>0, <1>1, StageTable
<1> QED BY <1>2 DEF Staging!To, p

(* A step of exchanges that have not been captured changes no stage.            *)
LEMMA StageStays ==
  ASSUME RecordingInv, StageIs, StageIs', UNCHANGED made,
         \A x \in Exchanges : made[x] # Unclassified => phase'[x] = phase[x]
  PROVE  Stage' = Stage
<1>1. ASSUME NEW q \in Places PROVE Stage'[q] = Stage[q]
  <2>1. CASE \E x \in Exchanges : Gave(x, q)
    <3>1. PICK x \in Exchanges : Gave(x, q)
      BY <2>1
    <3>2. made[x] # Unclassified
      BY <3>1 DEF Gave, Places, Unclassified, Ids
    <3>3. Gave(x, q)' /\ Outcome(x)' = Outcome(x)
      BY <3>1, <3>2 DEF Gave, Outcome
    <3> QED BY <3>1, <3>3 DEF StageIs
  <2>2. CASE \A x \in Exchanges : ~ Gave(x, q)
    <3>1. \A x \in Exchanges : ~ Gave(x, q)'
      BY <2>2 DEF Gave
    <3> QED BY <2>2, <3>1 DEF StageIs
  <2> QED BY <2>1, <2>2
<1> QED BY <1>1, StageTable

(* A session that classify gives was known, and stays so; the others are        *)
(* forgotten only for a first turn.                                            *)
LEMMA KnownSteps ==
  ASSUME RecordingInv, NEW messages \in Requests, Classify(messages), NEW next \in States,
         Gives(next, messages)
  PROVE  /\ next.id \in Known /\ next.id \in Known' /\ Known' \subseteq Known
         /\ next.turn > 1 => Known' = Known
<1>0. /\ sessions \in Seq(States) /\ started \in Nat /\ next.id \in Ids
      /\ sessions' \in Seq(States) /\ Len(sessions') \in 1 .. Capacity /\ Capacity \in Nat
      /\ sessions'[1] = next /\ next.turn \in Nat
  BY TrackerAssumption DEF RecordingInv, TrackerInv, TypeOK, Gives, Moved, States, Ids
<1>1. PICK from \in [2 .. Len(sessions') -> DOMAIN sessions] :
        \A j \in 2 .. Len(sessions') : sessions'[j] = sessions[from[j]]
  BY DEF Gives, Moved
<1>2. ASSUME NEW j \in DOMAIN sessions'
      PROVE  sessions'[j].id = next.id \/ \E k \in DOMAIN sessions : sessions[k].id = sessions'[j].id
  <2>1. j = 1 \/ j \in 2 .. Len(sessions')
    BY <1>0
  <2> QED BY <2>1, <1>0, <1>1
<1>3. next.id \in Known'
  <2>1. 1 \in DOMAIN sessions'
    BY <1>0
  <2> QED BY <2>1, <1>0 DEF Known
<1>4. CASE Continue(messages)
  <2>1. PICK i \in DOMAIN sessions :
          /\ sessions' = <<[id |-> sessions[i].id, tip |-> messages,
                            turn |-> sessions[i].turn + 1]>> \o RemoveAt(sessions, i)
          /\ started' = started
    BY <1>4, ContinueEffect DEF RecordingInv, TrackerInv
  <2>2. next.id = sessions[i].id
    <3> DEFINE new == [id |-> sessions[i].id, tip |-> messages, turn |-> sessions[i].turn + 1]
               kept == RemoveAt(sessions, i)
               T == {new} \cup States
    <3>1. new \in T /\ kept \in Seq(States) /\ new.id = sessions[i].id
      BY <1>0, RemoveAtIndices
    <3>2. sessions' = <<new>> \o kept
      BY <2>1
    <3> HIDE DEF new, kept
    <3>3. kept \in Seq(T)
      BY <3>1
    <3> HIDE DEF T
    <3>4. sessions'[1] = new
      BY <3>1, <3>2, <3>3, PutBefore
    <3> QED BY <3>1, <3>4, <1>0
  <2>3. next.id \in Known
    BY <2>2, <1>0 DEF Known
  <2>4. \A k \in DOMAIN sessions : \E j \in DOMAIN sessions' : sessions'[j].id = sessions[k].id
    BY <1>4, ContinueForgetsNone DEF Forgets, RecordingInv, TrackerInv
  <2>5. ASSUME NEW n \in Ids PROVE n \in Known' <=> n \in Known
    <3>1. started' = started
      BY <2>1
    <3>2. ASSUME NEW k \in DOMAIN sessions, sessions[k].id = n PROVE n \in Known'
      BY <3>2, <2>4 DEF Known
    <3>3. ASSUME NEW j \in DOMAIN sessions', sessions'[j].id = n PROVE n \in Known
      <4>1. CASE n = next.id
        BY <4>1, <2>3
      <4>2. CASE n # next.id
        BY <4>2, <3>3, <1>2 DEF Known
      <4> QED BY <4>1, <4>2
    <3> QED BY <3>1, <3>2, <3>3 DEF Known
  <2>6. Known' = Known
    BY <2>5 DEF Known
  <2> QED BY <2>3, <2>6, <1>3
<1>5. CASE Start(messages)
  <2>1. next = [id |-> started + 1, tip |-> messages, turn |-> 1] /\ started' = started + 1
    <3> DEFINE new == [id |-> started', tip |-> messages, turn |-> 1]
               kept == IF Len(sessions) >= Capacity THEN EvictOldest(sessions) ELSE sessions
    <3>1. kept \in Seq(States)
      BY <1>0 DEF EvictOldest, Front
    <3>2. sessions' = <<new>> \o kept /\ started' = started + 1
      BY <1>5 DEF Start
    <3> HIDE DEF new, kept
    <3>3. sessions'[1] = new
      <4> DEFINE T == {new} \cup States
      <4>1. new \in T /\ kept \in Seq(T)
        BY <3>1
      <4> HIDE DEF T
      <4> QED BY <4>1, <3>2, PutBefore
    <3> QED BY <3>2, <3>3, <1>0 DEF new
  <2>2. next.id \in Known /\ next.turn = 1
    BY <2>1, <1>0 DEF Known
  <2>3. ASSUME NEW n \in Known' PROVE n \in Known
    BY <2>1, <2>2, <1>0, <1>2 DEF Known, Ids
  <2> QED BY <2>2, <2>3, <1>3
<1> QED BY <1>4, <1>5 DEF Classify

(* An exchange that is given a turn starts the capture of that turn.            *)
LEMMA CaptureStarts ==
  ASSUME RecordingInv, Given, StageIs, StageIs', NEW e \in Exchanges, Capture(e)
  PROVE  Staging!Next
<1>0. asked[e] \in Requests /\ made[e] = Unclassified
  BY DEF RecordingInv, Shape, Agree, Early, Capture
<1>1. PICK next \in States : Gives(next, asked[e])
  BY <1>0, ClassifyGives DEF RecordingInv, Capture
<1>2. Head(sessions') = next
  BY <1>1 DEF Gives, Moved
<1>3. /\ Serial => \A x \in Exchanges : Writing(x) => made[x].id # next.id
      /\ \A x \in Exchanges : made'[x] = IF x = e THEN next ELSE made[x]
      /\ \A x \in Exchanges : phase'[x] = IF x = e THEN "writing" ELSE phase[x]
      /\ file' = file
  BY <1>2 DEF Capture, To, RecordingInv, Shape
<1> DEFINE i == next.id
           t == next.turn
           p == <<i, t>>
<1>4. i \in Ids /\ t \in 1 .. MaxLen /\ p \in Places /\ t \in Nat
  BY <1>1, TrackerAssumption DEF States, Ids, Places
<1>5. \A x \in Exchanges : ~ Gave(x, p)
  <2> SUFFICES ASSUME NEW x \in Exchanges, made[x].id = i, made[x].turn = t PROVE FALSE
    BY DEF Gave
  <2>1. made[x] \in log
    BY <1>4, LogTyped DEF Unclassified, Ids
  <2> QED BY <2>1, <1>1, <1>4 DEF Gives
<1>6. Stage[p] = "no"
  BY <1>4, <1>5 DEF StageIs
<1>7. \A u \in 1 .. t - 1 : Stage[<<i, u>>] # "no"
  <2> SUFFICES ASSUME NEW u \in 1 .. t - 1 PROVE Stage[<<i, u>>] # "no"
    OBVIOUS
  <2>1. \E y \in log : y.id = i /\ y.turn = u
    <3>1. PICK y \in log : y.id = i /\ y.turn = t - 1
      BY <1>1, <1>4 DEF Gives
    <3>2. u = y.turn \/ u \in 1 .. y.turn - 1
      BY <3>1, <1>4
    <3> QED BY <3>1, <3>2 DEF Given
  <2>2. PICK x \in Exchanges : made[x] \in log /\ made[x].id = i /\ made[x].turn = u
    BY <2>1 DEF Given
  <2>3. <<i, u>> \in Places /\ Gave(x, <<i, u>>)
    BY <1>4, <2>2, TrackerAssumption DEF Places, Gave
  <2>4. phase[x] \notin Early /\ phase[x] \in Phases
    BY <2>2, <1>4 DEF RecordingInv, Agree, Shape, Unclassified, Ids
  <2>5. Outcome(x) # "no"
    BY <2>4 DEF Outcome, Phases, Early, Late
  <2> QED BY <2>3, <2>5 DEF StageIs
<1>8. Serial => ~ Staging!UnderWay(i)
  <2> SUFFICES ASSUME Serial, NEW u \in 1 .. MaxLen, Stage[<<i, u>>] \in {"writing", "renamed"}
               PROVE  FALSE
    BY DEF Staging!UnderWay, Staging!Turns
  <2>1. <<i, u>> \in Places
    BY <1>4 DEF Places
  <2>2. PICK x \in Exchanges : Gave(x, <<i, u>>)
    BY <2>1 DEF StageIs
  <2>3. Outcome(x) \in {"writing", "renamed"}
    BY <2>1, <2>2 DEF StageIs
  <2>4. Writing(x) /\ made[x].id = i
    BY <2>2, <2>3 DEF Outcome, Writing, Gave
  <2> QED BY <2>4, <1>3
<1>9. Staging!To(i, t, "writing")
  <2>1. ASSUME NEW q \in Places PROVE Stage'[q] = IF q = p THEN "writing" ELSE Stage[q]
    <3>1. CASE q = p
      <4>1. Gave(e, q)' /\ Outcome(e)' = "writing"
        BY <3>1, <1>3 DEF Gave, Outcome
      <4> QED BY <3>1, <4>1 DEF StageIs
    <3>2. CASE q # p /\ \E x \in Exchanges : Gave(x, q)
      <4>1. PICK x \in Exchanges : Gave(x, q)
        BY <3>2
      <4>2. x # e
        BY <4>1, <1>0 DEF Gave, Places, Unclassified, Ids
      <4>3. Gave(x, q)' /\ Outcome(x)' = Outcome(x)
        BY <4>1, <4>2, <1>3 DEF Gave, Outcome
      <4> QED BY <3>2, <4>1, <4>3 DEF StageIs
    <3>3. CASE q # p /\ \A x \in Exchanges : ~ Gave(x, q)
      <4>1. ASSUME NEW x \in Exchanges PROVE ~ Gave(x, q)'
        <5>1. ~ (next.id = q[1] /\ next.turn = q[2])
          BY <3>3, <1>4 DEF Places
        <5> QED BY <5>1, <3>3, <1>3 DEF Gave
      <4> QED BY <3>3, <4>1 DEF StageIs
    <3> QED BY <3>1, <3>2, <3>3
  <2> HIDE DEF p
  <2>2. Stage' = [Stage EXCEPT ![p] = "writing"]
    BY <1>4, <2>1, StageTable
  <2> QED BY <2>2 DEF Staging!To, p
<1>10. /\ i \in Known /\ i \in Known' /\ Known' \subseteq Known
       /\ t > 1 => Known' = Known
  BY <1>0, <1>1, KnownSteps DEF Capture
<1>11. Staging!Start(i, t)
  BY <1>3, <1>6, <1>7, <1>8, <1>9, <1>10 DEF Staging!Start, Staging!MayStart
<1> HIDE DEF i, t
<1> QED BY <1>4, <1>11 DEF Staging!Next, Staging!Turns

(* A capture that has begun moves on.                                          *)
LEMMA CaptureMovesOn ==
  ASSUME RecordingInv, StageIs, StageIs', NEW e \in Exchanges, Write(e) \/ Conclude(e)
  PROVE  Staging!Next
<1> DEFINE i == made[e].id
           t == made[e].turn
<1>0. made[e] \in log /\ i \in Ids /\ t \in 1 .. MaxLen
  BY LogTyped DEF Write, RenameLands, WriteFails, Conclude, Queue, EnqueueFails, RecordingInv,
     Agree, Late
<1>1. /\ Gave(e, <<i, t>>) /\ <<i, t>> \in Places /\ UNCHANGED <<made, vars>>
      /\ Stage[<<i, t>>] = Outcome(e)
  <2>1. Gave(e, <<i, t>>) /\ <<i, t>> \in Places
    BY <1>0 DEF Gave, Places
  <2>2. UNCHANGED <<made, vars>>
    BY DEF Write, RenameLands, WriteFails, Conclude, Queue, EnqueueFails
  <2> QED BY <2>1, <2>2 DEF StageIs
<1>2. Known' = Known
  BY <1>1 DEF vars, Known
<1>3. PICK p \in {"renamed", "queued", "failed"} :
        /\ To(e, p)
        /\ \/ RenameLands(e) /\ p = "renamed" /\ phase[e] = "writing"
              /\ file' = [file EXCEPT ![i] = t]
           \/ Queue(e) /\ p = "queued" /\ phase[e] = "renamed" /\ file' = file
           \/ p = "failed" /\ phase[e] \in {"writing", "renamed"} /\ file' = file
  BY DEF Write, RenameLands, WriteFails, Conclude, Queue, EnqueueFails
<1>4. phase'[e] = p /\ \A x \in Exchanges \ {e} : phase'[x] = phase[x]
  BY <1>3 DEF To, RecordingInv, Shape
<1>5. Outcome(e)' = IF p = "failed" THEN "lost" ELSE p
  BY <1>4 DEF Outcome
<1>6. Staging!To(i, t, IF p = "failed" THEN "lost" ELSE p)
  <2>1. UNCHANGED made
    BY <1>1
  <2> HIDE DEF i, t
  <2> QED BY <2>1, <1>0, <1>1, <1>4, <1>5, StageMoves
<1>7. Stage[<<i, t>>] = phase[e]
  BY <1>1, <1>3 DEF Outcome
<1>8. Staging!Land(i, t) \/ Staging!Queue(i, t) \/ Staging!Lose(i, t)
  BY <1>2, <1>3, <1>6, <1>7 DEF Staging!Land, Staging!Queue, Staging!Lose
<1> HIDE DEF i, t
<1> QED BY <1>0, <1>8 DEF Staging!Next, Staging!Turns

(* A router that dies takes the captures under way with it, and its sessions.    *)
LEMMA DeathEnds ==
  ASSUME RecordingInv, StageIs, StageIs', Die
  PROVE  Staging!Next
<1> DEFINE S == {i \in Ids : i <= started}
<1>1. /\ UNCHANGED <<made, file, started>> /\ sessions' = <<>>
      /\ \A x \in Exchanges : phase'[x] = IF x \in InFlight THEN "cut" ELSE phase[x]
  BY DEF Die, Forget
<1>2. Known' = Known \ S
  <2>1. Known' = {i \in Ids : i > started}
    BY <1>1 DEF Known
  <2>2. started \in Nat /\ \A i \in Ids : i \in Nat
    BY LogTyped DEF Ids
  <2> QED BY <2>1, <2>2 DEF Known
<1>3. ASSUME NEW q \in Places
      PROVE  Stage'[q] = IF q[1] \in S /\ Stage[q] \in {"writing", "renamed"} THEN "lost"
                                                                            ELSE Stage[q]
  <2>1. CASE \E x \in Exchanges : Gave(x, q)
    <3>1. PICK x \in Exchanges : Gave(x, q)
      BY <2>1
    <3>2. made[x] # Unclassified
      BY <3>1 DEF Gave, Places, Unclassified, Ids
    <3>3. q[1] \in S
      BY <3>1, <3>2, LogTyped DEF Gave, RecordingInv, TrackerInv, Logged
    <3>4. Stage[q] = Outcome(x) /\ Stage'[q] = Outcome(x)'
      <4>1. Gave(x, q)'
        BY <3>1, <1>1 DEF Gave
      <4> QED BY <3>1, <4>1 DEF StageIs
    <3>5. Outcome(x)' = IF Outcome(x) \in {"writing", "renamed"} THEN "lost" ELSE Outcome(x)
      <4>1. phase[x] \in Phases /\ phase[x] \notin Early
        BY <3>2 DEF RecordingInv, Shape, Agree
      <4> QED BY <4>1, <1>1 DEF Outcome, InFlight, Phases, Early, Late
    <3> QED BY <3>3, <3>4, <3>5
  <2>2. CASE \A x \in Exchanges : ~ Gave(x, q)
    <3>1. \A x \in Exchanges : ~ Gave(x, q)'
      BY <2>2, <1>1 DEF Gave
    <3> QED BY <2>2, <3>1 DEF StageIs
  <2> QED BY <2>1, <2>2
<1> HIDE DEF S
<1>4. Stage' = [q \in Places |-> IF q[1] \in S /\ Stage[q] \in {"writing", "renamed"} THEN "lost"
                                                                                ELSE Stage[q]]
  BY <1>3, StageTable
<1>5. Staging!Die(S)
  BY <1>1, <1>2, <1>4 DEF Staging!Die, Staging!Slots, Staging!Turns, Places
<1>6. S \in SUBSET Ids
  BY DEF S
<1> QED BY <1>5, <1>6 DEF Staging!Next

LEMMA RecordingStepsCaptures ==
  ASSUME RecordingInv, Given, StageIs, StageIs', [RNext]_rvars
  PROVE  [Staging!Next]_Staging!cvars
<1>1. ASSUME NEW e \in Exchanges, Capture(e) \/ Write(e) \/ Conclude(e) PROVE Staging!Next
  BY <1>1, CaptureStarts, CaptureMovesOn
<1>2. CASE Die
  BY <1>2, DeathEnds
<1>3. ASSUME NEW e \in Exchanges,
             \/ \E messages \in Asked : Accept(e, messages)
             \/ Upstream(e) \/ Abort(e) \/ Break(e)
      PROVE  UNCHANGED Staging!cvars
  <2>1. UNCHANGED <<made, file, vars>> /\ phase[e] \in Early
    BY <1>3 DEF Accept, Upstream, Respond, ProxyFails, Abort, Break, Early
  <2>2. made[e] = Unclassified /\ \A x \in Exchanges \ {e} : phase'[x] = phase[x]
    BY <1>3, <2>1 DEF Accept, Upstream, Respond, ProxyFails, Abort, Break, To, RecordingInv,
       Agree, Shape
  <2>3. Stage' = Stage
    BY <2>1, <2>2, StageStays
  <2>4. Known' = Known
    BY <2>1 DEF vars, Known
  <2> QED BY <2>1, <2>3, <2>4 DEF Staging!cvars
<1>4. CASE Shutdown \/ Restart \/ UNCHANGED rvars
  <2>1. UNCHANGED <<made, file, vars, phase>>
    BY <1>4 DEF Shutdown, Restart, rvars
  <2>2. Stage' = Stage
    BY <2>1, StageStays
  <2>3. Known' = Known
    BY <2>1 DEF vars, Known
  <2> QED BY <2>1, <2>2, <2>3 DEF Staging!cvars
<1> QED BY <1>1, <1>2, <1>3, <1>4 DEF RNext, Response

LEMMA RecordingInits ==
  ASSUME RInit
  PROVE  Given /\ Staging!Init
<1>1. /\ \A e \in Exchanges : made[e] = Unclassified
      /\ log = {} /\ sessions = <<>> /\ started = 0 /\ file = [i \in Ids |-> 0]
  BY DEF RInit, Init
<1>2. Given
  BY <1>1 DEF Given
<1>3. Stage = [p \in Places |-> "no"]
  <2>1. ASSUME NEW p \in Places PROVE Stage[p] = "no"
    <3>1. \A e \in Exchanges : ~ Gave(e, p)
      BY <1>1 DEF Gave, Unclassified, Places, Ids
    <3> QED BY <3>1 DEF Stage, Places
  <2> QED BY <2>1, StageTable
<1>4. Known = Ids
  BY <1>1 DEF Known, Ids
<1> QED BY <1>1, <1>2, <1>3, <1>4 DEF Staging!Init, Staging!Slots, Staging!Turns, Places

LEMMA GivenHolds == RFairSpec => [](RecordingInv /\ Given /\ StageIs)
<1>1. RInit => RecordingInv /\ Given
  BY RecordingInit, RecordingInits
<1>2. RecordingInv /\ Given /\ [RNext]_rvars => RecordingInv' /\ Given'
  BY RecordingNext, GivenNext
<1> QED BY <1>1, <1>2, StageRead, PTL DEF RFairSpec

(* Seen from the outbox, recording is a sequence of captures that keep to       *)
(* Captures: no order in which responses end, no failure and no death of the    *)
(* router makes a turn begin twice or be skipped, a row stand for a file that    *)
(* was not written, or a forgotten session go on.                              *)
THEOREM RecordingImplementsCaptures == RFairSpec => CapturesSpec
<1>1. RInit => Staging!Init
  BY RecordingInits
<1>2. /\ RecordingInv /\ Given /\ StageIs
      /\ (RecordingInv /\ Given /\ StageIs)'
      /\ [RNext]_rvars
      => [Staging!Next]_Staging!cvars
  BY RecordingStepsCaptures
<1> QED BY <1>1, <1>2, GivenHolds, PTL DEF RFairSpec, CapturesSpec, Staging!Spec

(* The file of a session holds a turn that was captured and, if its captures do  *)
(* not overlap, none earlier than any turn in the queue, as Captures has it for   *)
(* every implementation.                                                       *)
THEOREM RecordedFilesLatest == RFairSpec => []Staging!FileIsLatest
<1>1. Staging!Spec => []Staging!FileIsLatest
  BY Staging!FilesAreLatest, TrackerAssumption
<1> QED BY <1>1, RecordingImplementsCaptures DEF CapturesSpec
=============================================================================
