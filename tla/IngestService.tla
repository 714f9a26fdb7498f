--------------------------- MODULE IngestService ---------------------------
(* The backend's ingest API (routes/ingest.py with auth.py): handlers of     *)
(* concurrent requests over one table of context records.  Each statement    *)
(* reads what is committed at that time; only the commit of an insert checks *)
(* the table's constraints.                                                 *)
(*                                                                          *)
(* A body stands for everything post_context compares, so two bodies of one  *)
(* record_id that differ in any such field are different bodies.  Bodies     *)
(* outside WellFormed name a blob_uri that does not match them.              *)
CONSTANTS Ids,           \* record_ids
          Sessions,      \* session_ids
          Turns,         \* turn_counts
          Bodies, BodyId, BodySession, BodyTurn,
          WellFormed,    \* bodies with the blob_uri that belongs to them
          Users, Enrolled,
          Calls          \* request handlers that run at the same time

ASSUME IngestAssumption ==
  /\ BodyId \in [Bodies -> Ids]
  /\ BodySession \in [Bodies -> Sessions]
  /\ BodyTurn \in [Bodies -> Turns]
  /\ WellFormed \subseteq Bodies
  /\ Enrolled \subseteq Users

VARIABLES table,      \* context_records: [body, user] rows
          uploaded,   \* record_ids whose blob_status is uploaded
          valid,      \* users whose token is active
          call,       \* call[c]: the request that handler c works on
          acked,      \* [body, user] pairs answered 200 or 202 (history)
          refused     \* [body, user] pairs answered 409 (history)

vars == <<table, uploaded, valid, call, acked, refused>>

---------------------------------------------------------------------------
Entries == [body : Bodies, user : Users]

EntryId(e)   == BodyId[e.body]
EntryTurn(e) == <<BodySession[e.body], BodyTurn[e.body]>>

\* session.get(ContextRecord, id): at most one row.
Found(id) == {e \in table : EntryId(e) = id}

\* What handler c would write.
Mine(c) == [body |-> call[c].body, user |-> call[c].user]
IdIn(c) == BodyId[call[c].body]

NoCode == 0
NoCall == [step |-> "idle"]
At(c, step) == call[c].step = step
Answer(c, code) == call' = [call EXCEPT ![c] = [@ EXCEPT !.step = "answered", !.code = code]]
Proceed(c, step) == call' = [call EXCEPT ![c].step = step]

\* Mutants: the comparison with the existing row leaves out the user_id, or
\* compares the stored naive ts with the aware one of the request.
MatchesAnyUser(e, c) == e.body = call[c].body
MatchesNever(e, c) == FALSE

\* The existing row has no mismatch with the request.
Matches(e, c) == e = Mine(c)

---------------------------------------------------------------------------
Init == /\ table = {}
        /\ uploaded = {}
        /\ valid = Users
        /\ call = [c \in Calls |-> NoCall]
        /\ acked = {} /\ refused = {}

\* A request arrives.  known tells whether this user has been told, before,
\* that this very body is stored.
Send(c) ==
  /\ At(c, "idle")
  /\ \E op \in {"post", "confirm"}, b \in Bodies, u \in Users :
       call' = [call EXCEPT ![c] =
         [step |-> "sent", op |-> op, body |-> b, user |-> u,
          known |-> [body |-> b, user |-> u] \in acked, code |-> NoCode]]
  /\ UNCHANGED <<table, uploaded, valid, acked, refused>>

\* authenticate_student finds no active token, there is no such course or the
\* user is no student of it, or the blob_uri does not belong to the body.
Reject(c) ==
  /\ At(c, "sent")
  /\ \/ call[c].user \notin valid /\ Answer(c, 401)
     \/ /\ call[c].user \in valid /\ call[c].op = "post"
        /\ \/ call[c].user \notin Enrolled /\ \E code \in {403, 404} : Answer(c, code)
           \/ /\ call[c].user \in Enrolled
              /\ call[c].body \notin WellFormed /\ Answer(c, 422)
  /\ UNCHANGED <<table, uploaded, valid, acked, refused>>

Admit(c) ==
  /\ At(c, "sent")
  /\ call[c].user \in valid
  /\ call[c].op = "post" => call[c].user \in Enrolled /\ call[c].body \in WellFormed
  /\ Proceed(c, "admitted")
  /\ UNCHANGED <<table, uploaded, valid, acked, refused>>

\* post_context finds a row of the record_id: 200 if it is the same, else 409.
Replay(c) ==
  /\ At(c, "admitted") /\ call[c].op = "post"
  /\ \E e \in Found(IdIn(c)) :
       IF Matches(e, c)
         THEN Answer(c, 200) /\ acked' = acked \cup {Mine(c)} /\ UNCHANGED refused
         ELSE Answer(c, 409) /\ refused' = refused \cup {Mine(c)} /\ UNCHANGED acked
  /\ UNCHANGED <<table, uploaded, valid>>

\* post_context finds none and goes on to the insert.
Miss(c) ==
  /\ At(c, "admitted") /\ call[c].op = "post"
  /\ Found(IdIn(c)) = {}
  /\ Proceed(c, "inserting")
  /\ UNCHANGED <<table, uploaded, valid, acked, refused>>

\* Mutant: the table has no UNIQUE(session_id, turn_count).
CommitsById(c) == Found(IdIn(c)) = {}

\* The primary key and UNIQUE(session_id, turn_count).
Commits(c) == \A e \in table : /\ EntryId(e) # IdIn(c)
                               /\ EntryTurn(e) # EntryTurn(Mine(c))

\* The commit succeeds, or fails with an IntegrityError.
Insert(c) ==
  /\ At(c, "inserting")
  /\ Commits(c)
  /\ table' = table \cup {Mine(c)}
  /\ acked' = acked \cup {Mine(c)}
  /\ Answer(c, 202)
  /\ UNCHANGED <<uploaded, valid, refused>>

Collide(c) ==
  /\ At(c, "inserting")
  /\ ~ Commits(c)
  /\ refused' = refused \cup {Mine(c)}
  /\ Answer(c, 409)
  /\ UNCHANGED <<table, uploaded, valid, acked>>

\* mark_uploaded is scoped to the caller's own records.
Owned(e, c) == e.user = call[c].user

\* mark_uploaded.  The row it has read is not changed by anybody else but to
\* the same end, so that its read and its commit are one step here.
Confirm(c) ==
  /\ At(c, "admitted") /\ call[c].op = "confirm"
  /\ IF \E e \in Found(IdIn(c)) : Owned(e, c)
       THEN uploaded' = uploaded \cup {IdIn(c)} /\ Answer(c, 200)
       ELSE UNCHANGED uploaded /\ Answer(c, 404)
  /\ UNCHANGED <<table, valid, acked, refused>>

\* The answer arrives or is lost; nothing on the server depends on that.
Done(c) ==
  /\ At(c, "answered")
  /\ call' = [call EXCEPT ![c] = NoCall]
  /\ UNCHANGED <<table, uploaded, valid, acked, refused>>

\* The token in the router's config is revoked (admin_cli.py); a new token
\* reaches the router only with a new config and a restart.
Revoke(u) ==
  /\ u \in valid
  /\ valid' = valid \ {u}
  /\ UNCHANGED <<table, uploaded, call, acked, refused>>

Next == \/ \E c \in Calls : \/ Send(c) \/ Reject(c) \/ Admit(c) \/ Replay(c) \/ Miss(c)
                            \/ Insert(c) \/ Collide(c) \/ Confirm(c) \/ Done(c)
        \/ \E u \in Users : Revoke(u)

Spec == Init /\ [][Next]_vars

---------------------------------------------------------------------------
(* Properties *)

Requests == [step : {"sent", "admitted", "inserting", "answered"},
             op : {"post", "confirm"}, body : Bodies, user : Users, known : BOOLEAN,
             code : {NoCode, 200, 202, 401, 403, 404, 409, 422}]

\* Every request and every history has the shape the code gives it.
TypeOK == /\ table \subseteq Entries
          /\ uploaded \subseteq Ids
          /\ valid \subseteq Users
          /\ call \in [Calls -> Requests \cup {NoCall}]
          /\ acked \subseteq Entries /\ refused \subseteq Entries

\* An answer of 200 or 202 is a promise: from then on the table holds the very
\* body that was posted under the poster's name, whatever other requests ran
\* at the same time (post_context's docstring).
AckMeansStored == acked \subseteq table

\* "matching id with different body returns 409" (ingest.py 107-108): a router
\* that is told 409 gives the record up, so the answer must not be given for a
\* body that is stored just as it was posted.
ConflictIsReal == refused \cap table = {}

\* What holds of it under any interleaving: once a router has been told that a
\* body is stored, no later repetition of the request is answered 409.
ReplayIsAccepted ==
  \A c \in Calls : At(c, "answered") /\ call[c].code = 409 => ~ call[c].known

\* A record whose router has been told that it is stored is never answered 404
\* when that router confirms the upload.
ConfirmFindsAcked ==
  \A c \in Calls :
    At(c, "answered") /\ call[c].op = "confirm" /\ call[c].code = 404 => ~ call[c].known

\* The table as a whole: rows are only added, and never two of one record_id or
\* of one turn of a session ("the DB will reject the duplicate", models.py 95-97).
Store == INSTANCE RecordStore
           WITH Rows <- Entries, IdOf <- EntryId, TurnOf <- EntryTurn, store <- table
StoreSpec == Store!Spec
=============================================================================
