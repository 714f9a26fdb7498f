--------------------------- MODULE SessionTracker ---------------------------
(* How a router tells agent sessions apart (recording/session.ts): a chat      *)
(* request whose messages strictly extend the last ones seen in a session is   *)
(* that session's next turn; any other request starts a session.  Requests are *)
(* classified in the order in which their responses end, so that those of one  *)
(* conversation may come late or repeatedly.                                   *)
(*                                                                            *)
(* The Map with its last_seen_seq is kept as a sequence, the most recently     *)
(* used session first.  Messages are compared after canonicalize: two that     *)
(* differ in the order of their keys are one element of Messages here.         *)
EXTENDS Naturals, SequencesExt

CONSTANTS Messages, MaxLen,   \* requests have up to MaxLen messages
          Capacity,           \* capacity of the tracker
          MaxSessions         \* bound on the sessions started

ASSUME TrackerAssumption ==
  MaxLen \in Nat \ {0} /\ Capacity \in Nat \ {0} /\ MaxSessions \in Nat

VARIABLES sessions,    \* tracked sessions, the most recently used first
          started,     \* number of sessions started: their ids are 1 .. started
          log          \* every classification made (history)

vars == <<sessions, started, log>>

---------------------------------------------------------------------------
Requests == UNION {[1 .. n -> Messages] : n \in 0 .. MaxLen}

\* Mutant: equal messages count as a continuation.
ContinuesOrRepeats(tip, messages) == tip # <<>> /\ IsPrefix(tip, messages)

\* isPrefixOf; an empty tip is nobody's prefix.
Continues(tip, messages) == tip # <<>> /\ IsStrictPrefix(tip, messages)

\* The tracked sessions that the request may continue, as positions.
Candidates(messages) == {i \in DOMAIN sessions : Continues(sessions[i].tip, messages)}

Without(i) == RemoveAt(sessions, i)

\* Mutants: the most recently used session makes room, or none does.
EvictNewest(s) == Tail(s)
EvictNobody(s) == s

\* evictOldest.
EvictOldest(s) == Front(s)

\* Mutant: the turn is not counted.
ExtendedUncounted(s, messages) == [s EXCEPT !.tip = messages]

\* The session after its next turn.
Extended(s, messages) == [id |-> s.id, tip |-> messages, turn |-> s.turn + 1]

Init == sessions = <<>> /\ started = 0 /\ log = {}

\* classify continues the most recently used candidate.
Continue(messages) ==
  /\ Candidates(messages) # {}
  /\ LET i    == Min(Candidates(messages))
         next == Extended(sessions[i], messages)
     IN  /\ sessions' = <<next>> \o Without(i)
         /\ log' = log \cup {next}
  /\ UNCHANGED started

\* classify starts a session, in the place of the least recently used one when
\* the tracker is full.
Start(messages) ==
  /\ Candidates(messages) = {}
  /\ started < MaxSessions
  /\ started' = started + 1
  /\ LET new  == [id |-> started', tip |-> messages, turn |-> 1]
         kept == IF Len(sessions) >= Capacity THEN EvictOldest(sessions) ELSE sessions
     IN  /\ sessions' = <<new>> \o kept
         /\ log' = log \cup {new}

\* classify.
Classify(messages) == Continue(messages) \/ Start(messages)

\* The router restarts: identity is in memory only.
Forget == sessions' = <<>> /\ UNCHANGED <<started, log>>

Next == (\E messages \in Requests : Classify(messages)) \/ Forget

Spec == Init /\ [][Next]_vars

---------------------------------------------------------------------------
(* Properties *)

States == [id : 1 .. MaxSessions, tip : Requests, turn : 1 .. MaxLen]

\* The tracker and its history have the shape the code gives them, and the
\* tracker keeps to its capacity.
TypeOK == /\ sessions \in Seq(States) /\ Len(sessions) <= Capacity
          /\ started \in 0 .. MaxSessions
          /\ log \subseteq States

\* The blob of a session is overwritten on every turn (session.ts 4-6), so each
\* turn must hold all that the turns before it held: within a session the
\* messages of a later turn strictly extend those of an earlier one.
LaterTurnsExtend ==
  \A x, y \in log : x.id = y.id /\ x.turn < y.turn => IsStrictPrefix(x.tip, y.tip)

\* The backend keeps one record for each turn of a session (models.py 95-97):
\* the router never gives the same turn of a session to two requests, and
\* counts the turns without a gap.
TurnsAreDistinct ==
  \A x \in log : /\ \A y \in log : x.id = y.id /\ x.turn = y.turn => x = y
                 /\ x.turn > 1 => \E y \in log : y.id = x.id /\ y.turn = x.turn - 1

\* A router that goes on running forgets only the session it used least
\* recently, and only for a request that starts a new one.
ForgetsOldest ==
  [][sessions' # <<>> =>
       \A i \in DOMAIN sessions :
         (\A j \in DOMAIN sessions' : sessions'[j].id # sessions[i].id)
           => i = Len(sessions) /\ i = Capacity /\ started' = started + 1]_vars
=============================================================================
