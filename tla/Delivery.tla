------------------------------ MODULE Delivery ------------------------------
(* The outbox together with what its stages read and write: captures that   *)
(* stage a session's blob on disk (main.ts onCapture), the three stage       *)
(* handlers (main.ts buildStages), jbox, the rows of the backend, and the     *)
(* two paths that delete the staged blob (outbox/eviction.ts).               *)
(*                                                                          *)
(* All turns of a session share one file, records/<session>.json, and one    *)
(* blob on jbox.  The bytes of a blob are told apart by the turn that built   *)
(* them; 0 stands for no file or no blob.  Every await is a step of its own.  *)
EXTENDS Outbox

CONSTANTS Sessions,
          SessionOf,   \* SessionOf[r]: the session record r is a turn of
          Owner,       \* Owner[s]: the router whose SessionTracker made s
          Serial,      \* TRUE: the captures of a session do not overlap
          Spaced,      \* TRUE: no capture starts while its file is being deleted,
                       \* and the TTL pass lists no session with a capture under way
          Refusals,    \* TRUE: the backend and jbox may answer with a 4xx
          DiskErrors   \* TRUE: writing a file or a row may throw

ASSUME DeliveryAssumption ==
  /\ SessionOf \in [Records -> Sessions]
  /\ Owner \in [Sessions -> Routers]
  /\ {Serial, Spaced, Refusals, DiskErrors} \subseteq BOOLEAN
  /\ IsFiniteSet(Records) /\ Records \cap Sessions = {}

VARIABLES file,      \* file[s]: the turn whose bytes records/<s>.json holds
          jbox,      \* jbox[s]: the turn whose bytes jbox holds
          puts,      \* puts[s]: the turns whose bytes jbox ever held (history)
          ingested,  \* records the backend has a row of
          uploaded,  \* records whose row has blob_status = uploaded
          capture,   \* capture[r]: how far onCapture is with record r
          turn,      \* turn[r]: turn_count that classify gave record r
          known,     \* sessions still in their owner's SessionTracker
          bytes,     \* bytes[w][r]: what the sync handler read, Unread before
          landed,    \* landed[w][r]: w's call for r has taken effect at the server
          gc,        \* gc[w][l]: deletion under way in lane l of router w
          evicted    \* records with cache_evicted = 1

worldVars   == <<jbox, puts, ingested, uploaded>>
captureVars == <<capture, turn, known>>
callVars    == <<bytes, landed>>
gcVars      == <<gc, evicted>>
dvars == <<vars, file, worldVars, captureVars, callVars, gcVars>>

---------------------------------------------------------------------------
Turns(s) == {r \in Records : SessionOf[r] = s}
MaxTurn  == Cardinality(Records)
Unread   == -1

\* Where a router may be deleting files: in the lane of a record whose PUT has
\* succeeded, and for each session its TTL pass has listed.
GcLanes == Records \cup Sessions
NoGc    == [phase |-> "none", ids |-> {}]
Deleting(s) == \E w \in Routers, l \in GcLanes :
                 /\ gc[w][l].phase \in {"listed", "unlinking"}
                 /\ \E r \in gc[w][l].ids : SessionOf[r] = s

\* PendingSessionWrites.has: a capture between begin and end.  The counter
\* lives in the memory of the router that runs the capture.
Writing(s)    == \E r \in Turns(s) : capture[r] \in {"writing", "renamed"}

\* Mutant: the cleanups do not ask for pending writes.
PendingNever(w, s) == FALSE

Pending(w, s) == w = Owner[s] /\ Writing(s)

\* The HAVING clause of findReclaimableSession and findEvictableSessions over
\* the given rows, and the record_ids it returns.
RowsOf(table, s) == {r \in Turns(s) : table[r].state # "absent"}

\* Mutants: the HAVING clause without its first condition, and one that waits
\* for every row to be done.
ReclaimableWhileNeeded(table, s) ==
  \E r \in RowsOf(table, s) : r \notin evicted
ReclaimableAllDone(table, s) ==
  /\ \A r \in RowsOf(table, s) : table[r].state = "done"
  /\ \E r \in RowsOf(table, s) : r \notin evicted

Reclaimable(table, s) ==
  /\ \A r \in RowsOf(table, s) : table[r].state \notin {"captured", "ingested"}
  /\ \E r \in RowsOf(table, s) : r \notin evicted

---------------------------------------------------------------------------
DInit == /\ Init
         /\ file = [s \in Sessions |-> 0]
         /\ jbox = [s \in Sessions |-> 0]
         /\ puts = [s \in Sessions |-> {}]
         /\ ingested = {} /\ uploaded = {} /\ evicted = {}
         /\ capture = [r \in Records |-> "no"]
         /\ turn = [r \in Records |-> 0]
         /\ known = Sessions
         /\ bytes = [w \in Routers |-> [r \in Records |-> Unread]]
         /\ landed = [w \in Routers |-> [r \in Records |-> FALSE]]
         /\ gc = [w \in Routers |-> [l \in GcLanes |-> NoGc]]

---------------------------------------------------------------------------
(* Captures *)

\* The turns of session s that classify has counted so far.
Counted(s) == Cardinality({q \in Turns(s) : turn[q] > 0})

\* Mutants: turn_count is incremented twice, or not at all.
NextTurnSkips(s) == Counted(s) + 2
NextTurnStays(s) == 1

\* turn_count is 1 for the first turn of a session and one more for each other.
NextTurn(s) == Counted(s) + 1

\* onCapture up to its first await: classify gives the next turn_count of the
\* session, begin registers the write.
StartCapture(r) ==
  LET s == SessionOf[r] IN
  /\ capture[r] = "no"
  /\ s \in known
  /\ Serial => ~ Writing(s)
  /\ Spaced => ~ Deleting(s)
  /\ turn' = [turn EXCEPT ![r] = NextTurn(s)]
  /\ capture' = [capture EXCEPT ![r] = "writing"]
  /\ UNCHANGED <<vars, file, worldVars, known, callVars, gcVars>>

\* The rename of writeAtomic replaces the session's file.
RenameLands(r) ==
  /\ capture[r] = "writing"
  /\ capture' = [capture EXCEPT ![r] = "renamed"]
  /\ file' = [file EXCEPT ![SessionOf[r]] = turn[r]]
  /\ UNCHANGED <<vars, worldVars, turn, known, callVars, gcVars>>

\* writeAtomic throws: onCapture returns without a record, the turn is spent.
WriteFails(r) ==
  /\ DiskErrors
  /\ capture[r] = "writing"
  /\ capture' = [capture EXCEPT ![r] = "lost"]
  /\ UNCHANGED <<vars, file, worldVars, turn, known, callVars, gcVars>>

\* onCapture after the write: enqueue, and end in the finally block.
FinishCapture(r) ==
  /\ capture[r] = "renamed"
  /\ Enqueue(r)
  /\ capture' = [capture EXCEPT ![r] = "queued"]
  /\ UNCHANGED <<file, worldVars, turn, known, callVars, gcVars>>

\* enqueue throws: handleCaptured logs it, the new file stays without a row.
EnqueueFails(r) ==
  /\ DiskErrors
  /\ capture[r] = "renamed"
  /\ capture' = [capture EXCEPT ![r] = "lost"]
  /\ UNCHANGED <<vars, file, worldVars, turn, known, callVars, gcVars>>

---------------------------------------------------------------------------
(* Stage handlers *)

Calling(w, r, s) == slot[w][r].phase = "calling" /\ slot[w][r].state = s

DClaim(w)   == Claim(w) /\ UNCHANGED <<file, worldVars, captureVars, callVars, gcVars>>
DCall(w, r) == Call(w, r) /\ UNCHANGED <<file, worldVars, captureVars, callVars, gcVars>>
DTick       == Tick /\ UNCHANGED <<file, worldVars, captureVars, callVars, gcVars>>

\* The ingest call takes effect: the backend has a row of the record.
PostLands(w, r) ==
  /\ Calling(w, r, "captured") /\ ~ landed[w][r]
  /\ ingested' = ingested \cup {r}
  /\ landed' = [landed EXCEPT ![w][r] = TRUE]
  /\ UNCHANGED <<vars, file, jbox, puts, uploaded, captureVars, bytes, gcVars>>

\* buildSyncStage reads whatever the session's file holds now.
ReadFile(w, r) ==
  /\ Calling(w, r, "ingested") /\ bytes[w][r] = Unread
  /\ bytes' = [bytes EXCEPT ![w][r] = file[SessionOf[r]]]
  /\ UNCHANGED <<vars, file, worldVars, captureVars, landed, gcVars>>

\* Mutant: without overwrite the first blob of the session stays.
PutKeepsFirst(w, r) ==
  LET s == SessionOf[r] IN
  /\ Calling(w, r, "ingested") /\ bytes[w][r] > 0 /\ ~ landed[w][r]
  /\ jbox' = [jbox EXCEPT ![s] = IF @ = 0 THEN bytes[w][r] ELSE @]
  /\ puts' = [puts EXCEPT ![s] = @ \cup {jbox'[s]}]
  /\ landed' = [landed EXCEPT ![w][r] = TRUE]
  /\ UNCHANGED <<vars, file, ingested, uploaded, captureVars, bytes, gcVars>>

\* The PUT takes effect: jbox holds the bytes that were read.
PutLands(w, r) ==
  LET s == SessionOf[r] IN
  /\ Calling(w, r, "ingested") /\ bytes[w][r] > 0 /\ ~ landed[w][r]
  /\ jbox' = [jbox EXCEPT ![s] = bytes[w][r]]
  /\ puts' = [puts EXCEPT ![s] = @ \cup {bytes[w][r]}]
  /\ landed' = [landed EXCEPT ![w][r] = TRUE]
  /\ UNCHANGED <<vars, file, ingested, uploaded, captureVars, bytes, gcVars>>

\* The confirm call takes effect: mark_uploaded, which knows the record.
ConfirmLands(w, r) ==
  /\ Calling(w, r, "synced") /\ ~ landed[w][r]
  /\ r \in ingested
  /\ uploaded' = uploaded \cup {r}
  /\ landed' = [landed EXCEPT ![w][r] = TRUE]
  /\ UNCHANGED <<vars, file, jbox, puts, ingested, captureVars, bytes, gcVars>>

EndCall(w, r) == /\ bytes' = [bytes EXCEPT ![w][r] = Unread]
                 /\ landed' = [landed EXCEPT ![w][r] = FALSE]

\* Mutant: a call that failed counts as one that succeeded.
AdvanceUnanswered(w, r) ==
  /\ Advance(w, r)
  /\ EndCall(w, r)
  /\ UNCHANGED <<file, worldVars, captureVars, gcVars>>

\* A 2xx.  After a PUT, afterAdvance goes on without an await as far as the
\* unlink: it looks for reclaimable rows and asks isSessionPending.
DAdvance(w, r) ==
  LET s == SessionOf[r]
      cleanup == /\ slot[w][r].state = "ingested"
                 /\ Reclaimable(row', s)
                 /\ ~ Pending(w, s)
  IN
  /\ landed[w][r]
  /\ Advance(w, r)
  /\ EndCall(w, r)
  /\ gc' = IF cleanup
             THEN [gc EXCEPT ![w][r] = [phase |-> "unlinking", ids |-> RowsOf(row', s)]]
             ELSE gc
  /\ UNCHANGED <<file, worldVars, captureVars, evicted>>

\* afterAdvance has nothing to delete, or is done with it.
DAfterAdvance(w, r) ==
  /\ gc[w][r] = NoGc
  /\ AfterAdvance(w, r)
  /\ UNCHANGED <<file, worldVars, captureVars, callVars, gcVars>>

\* A 5xx, 429 or broken connection: the call may have taken effect or not.
DRetry(w, r) ==
  /\ bytes[w][r] # 0
  /\ Retry(w, r)
  /\ EndCall(w, r)
  /\ UNCHANGED <<file, worldVars, captureVars, gcVars>>

\* The sync handler found no file, or a server refused the call.
DTerminal(w, r) ==
  /\ \/ bytes[w][r] = 0
     \/ Refusals /\ ~ landed[w][r]
  /\ Terminal(w, r)
  /\ EndCall(w, r)
  /\ UNCHANGED <<file, worldVars, captureVars, gcVars>>

\* The result of a call cannot be written.  (What becomes of the other lanes
\* then is WriteThrowsAmong of Outbox, no action of this module.)
DWriteThrows(w, r) ==
  /\ WriteThrows(w, r)
  /\ completed' # completed => landed[w][r]
  /\ EndCall(w, r)
  /\ UNCHANGED <<file, worldVars, captureVars, gcVars>>

---------------------------------------------------------------------------
(* Deleting the staged file *)

\* evictSessions at a listed session: skip it while a write is pending here.
Checked(w, s, ids) == IF Pending(w, s) THEN NoGc
                      ELSE [phase |-> "unlinking", ids |-> ids]

\* runEvictionOnce lists the evictable sessions and goes on to the first one;
\* any session may be past its TTL.
TtlPass(w) ==
  LET L == {s \in Sessions : Reclaimable(row, s)} IN
  /\ \A s \in Sessions : gc[w][s] = NoGc
  /\ Spaced => \A s \in L : ~ Writing(s)
  /\ \E s \in L :
       gc' = [gc EXCEPT ![w] = [l \in GcLanes |->
                CASE l = s       -> Checked(w, s, RowsOf(row, s))
                  [] l \in L \ {s} -> [phase |-> "listed", ids |-> RowsOf(row, l)]
                  [] OTHER       -> gc[w][l]]]
  /\ UNCHANGED <<vars, file, worldVars, captureVars, callVars, evicted>>

\* evictSessions reaches another listed session, after awaiting the unlinks of
\* those before it.
TtlCheck(w, s) ==
  /\ gc[w][s].phase = "listed"
  /\ \A t \in Sessions : gc[w][t].phase \in {"none", "listed"}
  /\ gc' = [gc EXCEPT ![w][s] = Checked(w, s, @.ids)]
  /\ UNCHANGED <<vars, file, worldVars, captureVars, callVars, evicted>>

\* The unlink takes effect; a file that is gone already is as good.
UnlinkLands(w, l) ==
  /\ gc[w][l].phase = "unlinking"
  /\ file' = [s \in Sessions |->
                IF \E r \in gc[w][l].ids : SessionOf[r] = s THEN 0 ELSE file[s]]
  /\ gc' = [gc EXCEPT ![w][l].phase = "unlinked"]
  /\ UNCHANGED <<vars, worldVars, captureVars, callVars, evicted>>

\* Mutant: a failed unlink does not keep the rows from being marked.
UnlinkFailsUnseen(w, l) ==
  /\ gc[w][l].phase = "unlinking"
  /\ gc' = [gc EXCEPT ![w][l].phase = "unlinked"]
  /\ UNCHANGED <<vars, file, worldVars, captureVars, callVars, evicted>>

\* Any other error of unlink leaves file and rows as they are.
UnlinkFails(w, l) ==
  /\ gc[w][l].phase = "unlinking"
  /\ gc' = [gc EXCEPT ![w][l] = NoGc]
  /\ UNCHANGED <<vars, file, worldVars, captureVars, callVars, evicted>>

\* markEvicted for the record_ids the query returned.
MarkEvicted(w, l) ==
  /\ gc[w][l].phase = "unlinked"
  /\ evicted' = evicted \cup gc[w][l].ids
  /\ gc' = [gc EXCEPT ![w][l] = NoGc]
  /\ UNCHANGED <<vars, file, worldVars, captureVars, callVars>>

---------------------------------------------------------------------------
\* A router dies: its captures, calls and deletions stop where they are, and
\* its SessionTracker starts empty, so its sessions get no further turn.
DCrash(w) ==
  /\ Crash(w)
  /\ capture' = [r \in Records |->
       IF Owner[SessionOf[r]] = w /\ capture[r] \in {"writing", "renamed"}
         THEN "lost" ELSE capture[r]]
  /\ known' = {s \in known : Owner[s] # w}
  /\ bytes' = [bytes EXCEPT ![w] = [r \in Records |-> Unread]]
  /\ landed' = [landed EXCEPT ![w] = [r \in Records |-> FALSE]]
  /\ gc' = [gc EXCEPT ![w] = [l \in GcLanes |-> NoGc]]
  /\ UNCHANGED <<file, worldVars, turn, evicted>>

CaptureStep(r) == \/ StartCapture(r) \/ RenameLands(r)
                  \/ WriteFails(r) \/ FinishCapture(r) \/ EnqueueFails(r)

CallStep(w, r) == \/ DCall(w, r) \/ PostLands(w, r) \/ ReadFile(w, r)
                  \/ PutLands(w, r) \/ ConfirmLands(w, r)
                  \/ DAdvance(w, r) \/ DRetry(w, r) \/ DTerminal(w, r)
                  \/ DAfterAdvance(w, r) \/ DWriteThrows(w, r)

GcStep(w, l) == UnlinkLands(w, l) \/ UnlinkFails(w, l) \/ MarkEvicted(w, l)

DNext == \/ DTick
         \/ \E r \in Records : CaptureStep(r)
         \/ \E w \in Routers : \/ DClaim(w) \/ DCrash(w) \/ TtlPass(w)
                               \/ \E r \in Records : CallStep(w, r)
                               \/ \E s \in Sessions : TtlCheck(w, s)
                               \/ \E l \in GcLanes : GcStep(w, l)

DSpec == DInit /\ [][DNext]_dvars

\* The TTL loop keeps running, and an unlink does not fail for ever.
DFairness ==
  /\ WF_dvars(DTick)
  /\ \A r \in Records : WF_dvars(RenameLands(r)) /\ WF_dvars(FinishCapture(r))
  /\ \A w \in Routers :
       /\ WF_dvars(DClaim(w)) /\ WF_dvars(TtlPass(w))
       /\ \A s \in Sessions : WF_dvars(TtlCheck(w, s))
       /\ \A l \in GcLanes : SF_dvars(UnlinkLands(w, l)) /\ WF_dvars(MarkEvicted(w, l))
       /\ \A r \in Records :
            /\ WF_dvars(DCall(w, r)) /\ WF_dvars(DAfterAdvance(w, r))
            /\ WF_dvars(PostLands(w, r)) /\ WF_dvars(ReadFile(w, r))
            /\ WF_dvars(PutLands(w, r)) /\ WF_dvars(ConfirmLands(w, r))
            /\ SF_dvars(DAdvance(w, r) \/ DTerminal(w, r))

DFairSpec == DSpec /\ DFairness

---------------------------------------------------------------------------
(* Properties *)

\* The composition adds these shapes to those of the outbox.
DTypeOK ==
  /\ TypeOK
  /\ file \in [Sessions -> 0 .. MaxTurn] /\ jbox \in [Sessions -> 0 .. MaxTurn]
  /\ puts \in [Sessions -> SUBSET (1 .. MaxTurn)]
  /\ {ingested, uploaded, evicted} \subseteq SUBSET Records
  /\ capture \in [Records -> {"no", "writing", "renamed", "queued", "lost"}]
  /\ turn \in [Records -> 0 .. MaxTurn]
  /\ known \subseteq Sessions
  /\ bytes \in [Routers -> [Records -> Unread .. MaxTurn]]
  /\ landed \in [Routers -> [Records -> BOOLEAN]]
  /\ gc \in [Routers -> [GcLanes ->
       [phase : {"none", "listed", "unlinking", "unlinked"}, ids : SUBSET Records]]]

\* What a row says has happened has happened outside too, whatever overlaps,
\* crashes and lost answers came in between: done means that the backend has
\* the record, that jbox has a blob of its session, and that the backend was
\* told so; a blob is confirmed only after a PUT of its session took effect.
RowsTellTheTruth ==
  \A r \in Records :
    /\ row[r].state \in {"ingested", "synced", "done"} => r \in ingested
    /\ row[r].state \in {"synced", "done"} => jbox[SessionOf[r]] # 0
    /\ row[r].state = "done" => r \in uploaded
    /\ r \in uploaded => jbox[SessionOf[r]] # 0 /\ r \in ingested

\* A cached file is "safe to delete" only when "no turn still needs to read and
\* upload the file" (queue.ts 238-242, eviction.ts 78-79): a row that is still
\* to be uploaded has its session's file on disk.
NeededFileExists ==
  \A r \in Records :
    row[r].state \in {"captured", "ingested"} => file[SessionOf[r]] # 0

\* "If a same-session capture is currently writing the local blob, both cleanup
\* paths skip that session and try again later" (wiki/llm-client.md 248-250).
CleanupSparesWriters ==
  [][\A s \in Sessions : file[s] # 0 /\ file'[s] = 0 => ~ Writing(s)]_dvars

\* uploaded means "the router successfully PUT a snapshot for this turn at the
\* time" (models.py 27-28): bytes of that turn or of a later one were on jbox.
UploadedWasPut ==
  \A r \in uploaded : \E t \in puts[SessionOf[r]] : t >= turn[r]

\* "Only the latest turn's hash matches at any given moment" (wiki/backend.md
\* 142): once every row of a session is done and no capture is under way, jbox
\* holds the bytes whose hash the session's latest turn recorded.
LatestOnJbox ==
  \A s \in Sessions :
    LET R == RowsOf(row, s) IN
    R # {} /\ ~ Writing(s) /\ (\A r \in R : row[r].state = "done")
      => \E r \in R : jbox[s] = turn[r] /\ \A q \in R : turn[q] <= turn[r]

\* No record ever asks the backend for a row that its constraints refuse, one of
\* a turn that is taken: turn_counts are given without knowledge of the backend,
\* by routers that crash, lose turns and share the outbox, and posted in any
\* order and again.  This is why the ingest call can be a single step here: the
\* table grows as that of IngestService does, both implement RecordStore.
Posts       == {<<r, turn[r]>> : r \in ingested}
PostId(p)   == p[1]
PostTurn(p) == <<SessionOf[p[1]], p[2]>>
Backend == INSTANCE RecordStore
             WITH Rows <- Records \X (1 .. MaxTurn), IdOf <- PostId, TurnOf <- PostTurn,
                  store <- Posts
BackendSpec == Backend!Spec

\* The captures keep to Captures, as those of Recording do: turns are counted
\* without a gap by routers that crash and lose some, a file is replaced by a
\* capture only, and the other actions of this module only ever delete files.
Gave(r, p) == SessionOf[r] = p[1] /\ turn[r] = p[2]
Stage == [p \in Sessions \X (1 .. MaxTurn) |->
            IF \E r \in Records : Gave(r, p)
              THEN capture[CHOOSE r \in Records : Gave(r, p)] ELSE "no"]
Staging == INSTANCE Captures WITH MaxTurns <- MaxTurn, stage <- Stage
CapturesSpec == Staging!Spec

\* No staged file is forgotten by the cleanups: as long as one row of its session
\* has cache_evicted = 0, the session is not taken for one that "has already been
\* processed" (queue.ts 243-244).  A file that no row needs and no capture is
\* writing is one the queries find, unless it is what a capture left that lost its
\* row after the rename, in a crash or by an enqueue that failed.
NoFileForgotten ==
  \A s \in Sessions : file[s] # 0 =>
    \/ Writing(s) \/ Reclaimable(row, s)
    \/ \E r \in Turns(s) : row[r].state \in {"captured", "ingested"}
    \/ \E r \in Turns(s) : capture[r] = "lost" /\ turn[r] = file[s]

\* The staged file of a session whose rows need it no more is deleted in the
\* end, by the cleanup after a PUT or by the TTL pass (wiki/llm-client.md
\* 243-248), unless a further turn comes.
FileReclaimed ==
  \A s \in Sessions :
    (\A r \in RowsOf(row, s) : row[r].state \notin {"captured", "ingested"})
    /\ RowsOf(row, s) # {} /\ file[s] # 0
      ~> file[s] = 0 \/ Writing(s) \/ \E r \in Turns(s) : row[r].state = "captured"
=============================================================================
