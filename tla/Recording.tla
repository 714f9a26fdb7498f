------------------------------ MODULE Recording ------------------------------
(* How an exchange with the upstream becomes a row of the outbox: the handler  *)
(* proxies the request (http/handler.ts, http/proxy.ts) and splits the         *)
(* response in two (recording/capture.ts).  One branch streams to the client;  *)
(* the other is read to its end, and then onCapture (main.ts) classifies the   *)
(* request, writes the session's file and queues a row.  Several exchanges are *)
(* under way at a time, every await is a step of its own, and the router may   *)
(* be shut down, die and start again between any two of them.                  *)
EXTENDS SessionTracker, FiniteSets

CONSTANTS MaxExchanges,   \* bound on the exchanges
          Asked,          \* the requests that clients may send
          Serial          \* TRUE: the captures of a session do not overlap

ASSUME RecordingAssumption ==
  /\ MaxExchanges \in Nat /\ MaxExchanges <= MaxSessions
  /\ Asked \subseteq Requests
  /\ Serial \in BOOLEAN

VARIABLES router,    \* "up", "stopping" (in shutdown) or "down"
          phase,     \* phase[e]: how far exchange e has come
          asked,     \* asked[e]: the messages of its request, while they are kept
          gone,      \* exchanges under way whose client has disconnected
          made,      \* made[e]: the session and turn that classify gave it
          file,      \* file[i]: the turn whose bytes session i's file holds, or 0
          pending    \* pending[i]: the counter of PendingSessionWrites

rvars == <<vars, router, phase, asked, gone, made, file, pending>>

---------------------------------------------------------------------------
Ids       == 1 .. MaxSessions
Exchanges == 1 .. MaxExchanges
Unclassified == [id |-> 0, tip |-> <<>>, turn |-> 0]

Running == router # "down"

\* The exchanges that live in the memory of the router only.
InFlight == {e \in Exchanges : phase[e] \in {"proxying", "streaming", "writing", "renamed"}}

\* A capture between begin and end of its session.
Writing(e) == phase[e] \in {"writing", "renamed"}

\* The rows of the queue.
Queued == {made[e] : e \in {x \in Exchanges : phase[x] = "queued"}}

To(e, p) == phase' = [phase EXCEPT ![e] = p]
Begin(i) == pending' = [pending EXCEPT ![i] = @ + 1]
End(i)   == pending' = [pending EXCEPT ![i] = @ - 1]

RInit == /\ Init
         /\ router = "up"
         /\ phase = [e \in Exchanges |-> "none"]
         /\ asked = [e \in Exchanges |-> <<>>]
         /\ gone = {}
         /\ made = [e \in Exchanges |-> Unclassified]
         /\ file = [i \in Ids |-> 0]
         /\ pending = [i \in Ids |-> 0]

---------------------------------------------------------------------------
(* The handler *)

\* A request arrives; handleCaptured has read it and forwards it upstream.
\* Exchanges are numbered as they come.
Accept(e, messages) ==
  /\ router = "up"
  /\ phase[e] = "none" /\ \A x \in 1 .. e - 1 : phase[x] # "none"
  /\ To(e, "proxying")
  /\ asked' = [asked EXCEPT ![e] = messages]
  /\ UNCHANGED <<vars, router, gone, made, file, pending>>

\* The provider refuses the request or the upstream cannot be reached: the
\* client is told, and it is as if the request had not been made.
ProxyFails(e) ==
  /\ Running /\ phase[e] = "proxying"
  /\ To(e, "none")
  /\ asked' = [asked EXCEPT ![e] = <<>>]
  /\ UNCHANGED <<vars, router, gone, made, file, pending>>

\* The upstream answers, with whatever status: captureChat splits the body.
Respond(e) ==
  /\ Running /\ phase[e] = "proxying"
  /\ To(e, "streaming")
  /\ UNCHANGED <<vars, router, asked, gone, made, file, pending>>

\* Mutant: a client that disconnects cancels the upstream body and the capture.
AbortCancels(e) ==
  /\ Running /\ phase[e] = "streaming" /\ e \notin gone
  /\ gone' = gone \cup {e}
  /\ To(e, "lost")
  /\ UNCHANGED <<vars, router, asked, made, file, pending>>

\* The client disconnects (before the answer begins or after, which comes to the
\* same): its branch is cancelled, the other is still read.
Abort(e) ==
  /\ Running /\ phase[e] = "streaming" /\ e \notin gone
  /\ gone' = gone \cup {e}
  /\ UNCHANGED <<vars, router, phase, asked, made, file, pending>>

\* The upstream breaks off: captureP is rejected, handleCaptured only logs it.
Break(e) ==
  /\ Running /\ phase[e] = "streaming"
  /\ To(e, "broken")
  /\ asked' = [asked EXCEPT ![e] = <<>>]
  /\ gone' = gone \ {e}
  /\ UNCHANGED <<vars, router, made, file, pending>>

---------------------------------------------------------------------------
(* onCapture *)

\* The response has ended: onCapture up to its first await, the write.
Capture(e) ==
  /\ Running /\ phase[e] = "streaming"
  /\ Classify(asked[e])
  /\ LET s == Head(sessions') IN
       /\ Serial => \A x \in Exchanges : Writing(x) => made[x].id # s.id
       /\ made' = [made EXCEPT ![e] = s]
       /\ Begin(s.id)
  /\ To(e, "writing")
  /\ gone' = gone \ {e}
  /\ UNCHANGED <<router, asked, file>>

\* writeAtomic has renamed the temporary file.
RenameLands(e) ==
  /\ Running /\ phase[e] = "writing"
  /\ file' = [file EXCEPT ![made[e].id] = made[e].turn]
  /\ To(e, "renamed")
  /\ UNCHANGED <<vars, router, asked, gone, made, pending>>

\* Mutants: a failed write does not keep the row from the queue; it skips the
\* finally block.
WriteFailsYetQueues(e) ==
  /\ Running /\ phase[e] = "writing"
  /\ End(made[e].id)
  /\ To(e, "queued")
  /\ UNCHANGED <<vars, router, asked, gone, made, file>>
WriteFailsAtOnce(e) ==
  /\ Running /\ phase[e] = "writing"
  /\ To(e, "failed")
  /\ UNCHANGED <<vars, router, asked, gone, made, file, pending>>

\* writeAtomic throws: no row, and the turn is spent.
WriteFails(e) ==
  /\ Running /\ phase[e] = "writing"
  /\ End(made[e].id)
  /\ To(e, "failed")
  /\ UNCHANGED <<vars, router, asked, gone, made, file>>

\* enqueue, then the finally block.
Queue(e) ==
  /\ Running /\ phase[e] = "renamed"
  /\ End(made[e].id)
  /\ To(e, "queued")
  /\ UNCHANGED <<vars, router, asked, gone, made, file>>

\* enqueue throws: the finally block runs, the file stays without a row.
EnqueueFails(e) ==
  /\ Running /\ phase[e] = "renamed"
  /\ End(made[e].id)
  /\ To(e, "failed")
  /\ UNCHANGED <<vars, router, asked, gone, made, file>>

---------------------------------------------------------------------------
(* The process *)

\* shutdown: server.stop(true) closes every connection.  The captures go on
\* while it waits for the worker and the eviction loop.
Shutdown ==
  /\ router = "up"
  /\ router' = "stopping"
  /\ gone' = gone \cup {e \in Exchanges : phase[e] = "streaming"}
  /\ UNCHANGED <<vars, phase, asked, made, file, pending>>

\* The end of shutdown (queue.close and process.exit, with no await between
\* them), or a crash at any time: what was in flight is cut off.
Die ==
  /\ Running
  /\ router' = "down"
  /\ phase' = [e \in Exchanges |-> IF e \in InFlight THEN "cut" ELSE phase[e]]
  /\ pending' = [i \in Ids |-> 0]
  /\ asked' = [e \in Exchanges |-> made[e].tip]
  /\ gone' = {}
  /\ Forget
  /\ UNCHANGED <<made, file>>

\* main starts again with the files and the queue that it finds.
Restart ==
  /\ ~ Running
  /\ router' = "up"
  /\ UNCHANGED <<vars, phase, asked, gone, made, file, pending>>

---------------------------------------------------------------------------
Upstream(e)  == Respond(e) \/ ProxyFails(e)
Response(e)  == Capture(e) \/ Break(e)
Write(e)     == RenameLands(e) \/ WriteFails(e)
Conclude(e)  == Queue(e) \/ EnqueueFails(e)

RNext == \/ \E e \in Exchanges :
              \/ \E messages \in Asked : Accept(e, messages)
              \/ Upstream(e) \/ Abort(e) \/ Response(e)
              \/ Write(e) \/ Conclude(e)
         \/ Shutdown \/ Die \/ Restart

\* The upstream answers or fails and ends or breaks its responses; the event
\* loop gets round to every capture.  Clients and the process owe nothing.
RFairSpec ==
  /\ RInit /\ [][RNext]_rvars
  /\ \A e \in Exchanges : WF_rvars(Upstream(e)) /\ WF_rvars(Response(e))
                          /\ WF_rvars(Write(e)) /\ WF_rvars(Conclude(e))

---------------------------------------------------------------------------
(* Properties *)

\* The tracker, the exchanges and the counters have the shape the code gives them.
RTypeOK ==
  /\ TypeOK
  /\ router \in {"up", "stopping", "down"}
  /\ phase \in [Exchanges -> {"none", "proxying", "streaming", "writing", "renamed",
                             "queued", "broken", "failed", "cut"}]
  /\ asked \in [Exchanges -> Requests]
  /\ gone \subseteq Exchanges
  /\ made \in [Exchanges -> States \cup {Unclassified}]
  /\ file \in [Ids -> 0 .. MaxLen]
  /\ pending \in [Ids -> 0 .. MaxExchanges]

\* A row stands for a blob that holds its turn: the file of its session always
\* holds a turn whose request begins with all that the row's request said.  The
\* file is overwritten by every capture of the session, written by some whose
\* row is lost, and left behind by a router that died in between.
FileHoldsEveryTurn ==
  \A e \in Exchanges : phase[e] = "queued" =>
    \E x \in Exchanges : /\ made[x].id = made[e].id
                         /\ made[x].turn = file[made[e].id]
                         /\ IsPrefix(asked[e], asked[x])

\* isSessionPending, by which the cleanups spare a file, is true of exactly the
\* sessions with a capture between begin and end: no failure of a write or of
\* the queue leaves a session pending for ever, and no capture that ends clears
\* the mark of another.
PendingIsExact ==
  \A i \in Ids : pending[i] = Cardinality({e \in Exchanges : Writing(e) /\ made[e].id = i})

\* A response that has begun is recorded in the end, unless the upstream breaks
\* it off, the disk or the queue refuses it, or the router dies with it in
\* memory.  What its client does makes no difference, and neither does a
\* shutdown that waits long enough (handler.ts 22-27: a record must not
\* silently disappear from the audit trail).
AllRecorded ==
  \A e \in Exchanges :
    phase[e] = "streaming" ~> phase[e] \in {"queued", "broken", "failed", "cut"}

\* Whatever becomes of the exchanges, the outbox and the cleanups are given what
\* Captures promises: turns that are counted without a gap across failures,
\* a file that only a capture replaces, a row only for a file that was replaced,
\* and no further turn of a session that the router has forgotten.
Gave(e, p)  == made[e].id = p[1] /\ made[e].turn = p[2]
Outcome(e)  == IF phase[e] \in {"failed", "cut"} THEN "lost" ELSE phase[e]
Stage == [p \in Ids \X (1 .. MaxLen) |->
            IF \E e \in Exchanges : Gave(e, p)
              THEN Outcome(CHOOSE e \in Exchanges : Gave(e, p)) ELSE "no"]
Known == {i \in Ids : i > started \/ \E j \in DOMAIN sessions : sessions[j].id = i}
Staging == INSTANCE Captures
             WITH Sessions <- Ids, MaxTurns <- MaxLen, stage <- Stage, known <- Known
CapturesSpec == Staging!Spec
=============================================================================
