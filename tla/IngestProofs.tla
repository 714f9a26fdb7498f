---------------------------- MODULE IngestProofs ----------------------------
(* Proofs about the ingest API, for any bodies, any users and any number of   *)
(* requests at the same time.                                                *)
EXTENDS IngestService, TLAPS

---------------------------------------------------------------------------
(* A request that has arrived has all its fields, and what it would write is  *)
(* an entry.                                                                 *)
LEMMA RequestTyped ==
  ASSUME TypeOK, NEW c \in Calls, call[c].step # "idle"
  PROVE  call[c] \in Requests /\ Mine(c) \in Entries
<1>1. call[c] \in Requests
  BY DEF TypeOK, NoCall
<1> QED BY <1>1 DEF Requests, Mine, Entries

(* Moving on to another step leaves the rest of a request as it is, and the   *)
(* other requests as they are.                                               *)
LEMMA ProceedEffect ==
  ASSUME TypeOK, NEW c \in Calls, call[c].step # "idle",
         NEW s \in {"admitted", "inserting"}, Proceed(c, s)
  PROVE  /\ call' \in [Calls -> Requests \cup {NoCall}]
         /\ \A d \in Calls \ {c} : call'[d] = call[d]
         /\ call'[c].step = s /\ call'[c].op = call[c].op
         /\ call'[c].body = call[c].body /\ call'[c].user = call[c].user
         /\ call'[c].known = call[c].known /\ call'[c].code = call[c].code
<1>1. call[c] \in Requests
  BY RequestTyped
<1>2. [call[c] EXCEPT !.step = s] \in Requests
  BY <1>1 DEF Requests
<1>3. call' = [call EXCEPT ![c] = [call[c] EXCEPT !.step = s]]
  BY DEF Proceed, TypeOK
<1>4. call'[c] = [call[c] EXCEPT !.step = s]
  BY <1>3 DEF TypeOK
<1>5. call' \in [Calls -> Requests \cup {NoCall}] /\ \A d \in Calls \ {c} : call'[d] = call[d]
  BY <1>2, <1>3 DEF TypeOK
<1> QED BY <1>1, <1>4, <1>5 DEF Requests

(* Answering sets the step and the code of a request (HTTPException and the   *)
(* return of post_context and mark_uploaded), nothing else of any request.   *)
LEMMA AnswerEffect ==
  ASSUME TypeOK, NEW c \in Calls, call[c].step # "idle",
         NEW n \in {200, 202, 401, 403, 404, 409, 422}, Answer(c, n)
  PROVE  /\ call' \in [Calls -> Requests \cup {NoCall}]
         /\ \A d \in Calls \ {c} : call'[d] = call[d]
         /\ call'[c].step = "answered" /\ call'[c].code = n
         /\ call'[c].op = call[c].op
         /\ call'[c].body = call[c].body /\ call'[c].user = call[c].user
         /\ call'[c].known = call[c].known
<1>1. call[c] \in Requests
  BY RequestTyped
<1> DEFINE m == [call[c] EXCEPT !.step = "answered"]
<1>2. m \in Requests
  BY <1>1 DEF Requests
<1>3. m.op = call[c].op /\ m.body = call[c].body /\ m.user = call[c].user
      /\ m.known = call[c].known /\ m.step = "answered"
  BY <1>1 DEF Requests
<1>4. call' = [call EXCEPT ![c] = [m EXCEPT !.code = n]]
  BY DEF Answer
<1> HIDE DEF m
<1>5. [m EXCEPT !.code = n] \in Requests
  BY <1>2 DEF Requests
<1>6. call'[c] = [m EXCEPT !.code = n]
  BY <1>4 DEF TypeOK
<1>7. call' \in [Calls -> Requests \cup {NoCall}] /\ \A d \in Calls \ {c} : call'[d] = call[d]
  BY <1>4, <1>5 DEF TypeOK
<1> QED BY <1>2, <1>3, <1>6, <1>7 DEF Requests

(* A request that arrives has all its fields.                                 *)
LEMMA SendEffect ==
  ASSUME TypeOK, NEW c \in Calls, Send(c)
  PROVE  /\ call' \in [Calls -> Requests \cup {NoCall}]
         /\ \A d \in Calls \ {c} : call'[d] = call[d]
         /\ call'[c].step = "sent"
         /\ call'[c].known => [body |-> call'[c].body, user |-> call'[c].user] \in acked
<1>1. PICK op \in {"post", "confirm"}, b \in Bodies, u \in Users :
        call' = [call EXCEPT ![c] =
          [step |-> "sent", op |-> op, body |-> b, user |-> u,
           known |-> [body |-> b, user |-> u] \in acked, code |-> NoCode]]
  BY DEF Send
<1> DEFINE k == [body |-> b, user |-> u] \in acked
           m == [step |-> "sent", op |-> op, body |-> b, user |-> u,
                 known |-> k, code |-> NoCode]
<1>2. k \in BOOLEAN
  OBVIOUS
<1>3. call' = [call EXCEPT ![c] = m]
  BY <1>1
<1>4. m.known = k
  OBVIOUS
<1> HIDE DEF k
<1>5. m \in Requests /\ m.step = "sent" /\ m.body = b /\ m.user = u
  BY <1>2 DEF Requests
<1> HIDE DEF m
<1>6. call'[c] = m /\ \A d \in Calls \ {c} : call'[d] = call[d]
  BY <1>3 DEF TypeOK
<1>7. call' \in [Calls -> Requests \cup {NoCall}]
  BY <1>3, <1>5 DEF TypeOK
<1>8. call'[c].known => [body |-> call'[c].body, user |-> call'[c].user] \in acked
  BY <1>4, <1>5, <1>6 DEF k
<1> QED BY <1>5, <1>6, <1>7, <1>8

---------------------------------------------------------------------------
(* Every request keeps its shape, and the table and the histories hold        *)
(* entries only (post_context, mark_uploaded).                               *)
THEOREM IngestTypeCorrect == Spec => []TypeOK
<1>1. Init => TypeOK
  BY DEF Init, TypeOK
<1>2. TypeOK /\ [Next]_vars => TypeOK'
  <2> SUFFICES ASSUME TypeOK, [Next]_vars PROVE TypeOK'
    OBVIOUS
  <2>1. ASSUME NEW c \in Calls, Send(c) PROVE TypeOK'
    BY <2>1, SendEffect DEF Send, TypeOK
  <2>2. ASSUME NEW c \in Calls, Reject(c) PROVE TypeOK'
    <3>1. PICK n \in {401, 403, 404, 422} : Answer(c, n)
      BY <2>2 DEF Reject
    <3>2. call' \in [Calls -> Requests \cup {NoCall}]
      BY <2>2, <3>1, AnswerEffect DEF Reject, At
    <3> QED BY <2>2, <3>2 DEF Reject, TypeOK
  <2>3. ASSUME NEW c \in Calls, Admit(c) PROVE TypeOK'
    <3>1. call' \in [Calls -> Requests \cup {NoCall}]
      BY <2>3, ProceedEffect DEF Admit, At
    <3> QED BY <2>3, <3>1 DEF Admit, TypeOK
  <2>4. ASSUME NEW c \in Calls, Replay(c) PROVE TypeOK'
    <3>1. PICK n \in {200, 409} : Answer(c, n)
      BY <2>4 DEF Replay
    <3>2. call[c].step # "idle"
      BY <2>4 DEF Replay, At
    <3>3. call' \in [Calls -> Requests \cup {NoCall}] /\ Mine(c) \in Entries
      BY <3>1, <3>2, AnswerEffect, RequestTyped
    <3> QED BY <2>4, <3>3 DEF Replay, TypeOK
  <2>5. ASSUME NEW c \in Calls, Miss(c) PROVE TypeOK'
    <3>1. call' \in [Calls -> Requests \cup {NoCall}]
      BY <2>5, ProceedEffect DEF Miss, At
    <3> QED BY <2>5, <3>1 DEF Miss, TypeOK
  <2>6. ASSUME NEW c \in Calls, Insert(c) \/ Collide(c) PROVE TypeOK'
    <3>1. PICK n \in {202, 409} : Answer(c, n)
      BY <2>6 DEF Insert, Collide
    <3>2. call[c].step # "idle"
      BY <2>6 DEF Insert, Collide, At
    <3>3. call' \in [Calls -> Requests \cup {NoCall}] /\ Mine(c) \in Entries
      BY <3>1, <3>2, AnswerEffect, RequestTyped
    <3> QED BY <2>6, <3>3 DEF Insert, Collide, TypeOK
  <2>7. ASSUME NEW c \in Calls, Confirm(c) PROVE TypeOK'
    <3>1. PICK n \in {200, 404} : Answer(c, n)
      BY <2>7 DEF Confirm
    <3>2. call[c].step # "idle"
      BY <2>7 DEF Confirm, At
    <3>3. call' \in [Calls -> Requests \cup {NoCall}] /\ IdIn(c) \in Ids
      BY <3>1, <3>2, AnswerEffect, RequestTyped, IngestAssumption DEF IdIn, Requests
    <3> QED BY <2>7, <3>3 DEF Confirm, TypeOK
  <2>8. ASSUME NEW c \in Calls, Done(c) PROVE TypeOK'
    BY <2>8 DEF Done, TypeOK
  <2>9. ASSUME NEW u \in Users, Revoke(u) PROVE TypeOK'
    BY <2>9 DEF Revoke, TypeOK
  <2>10. CASE UNCHANGED vars
    BY <2>10 DEF vars, TypeOK
  <2> QED BY <2>1, <2>2, <2>3, <2>4, <2>5, <2>6, <2>7, <2>8, <2>9, <2>10 DEF Next
<1> QED BY <1>1, <1>2, PTL DEF Spec
---------------------------------------------------------------------------
(* The strengthening that makes the promises inductive.  What a router has    *)
(* been told is stored is in the table; a request that repeats it therefore   *)
(* never gets as far as an insert, and is not answered 409 or, when it        *)
(* confirms, 404.  The lookup may take any row of the record_id, so that       *)
(* there must be only one.                                                   *)
OneRowPerId == \A e, f \in table : EntryId(e) = EntryId(f) => e = f

Denied(c) == call[c].code = 409 \/ (call[c].op = "confirm" /\ call[c].code = 404)

CallKept(c) == (call[c].step # "idle" /\ call[c].known) =>
                 /\ Mine(c) \in table
                 /\ call[c].step # "inserting"
                 /\ call[c].step = "answered" => ~ Denied(c)

Kept == AckMeansStored /\ OneRowPerId /\ \A c \in Calls : CallKept(c)

(* A request is not affected by a step of another one that only adds rows to  *)
(* the table (the handlers of ingest.py share nothing but the database).      *)
LEMMA OthersKept ==
  ASSUME NEW c \in Calls, CallKept(c), call'[c] = call[c], table \subseteq table'
  PROVE  CallKept(c)'
BY DEF CallKept, Denied, Mine

(* No handler's step breaks the strengthening.                                *)
LEMMA StepKeeps ==
  ASSUME TypeOK, Kept, [Next]_vars
  PROVE  Kept'
<1>1. ASSUME NEW c \in Calls, Send(c) PROVE Kept'
  <2>1. UNCHANGED <<table, acked>>
    BY <1>1 DEF Send
  <2>2. CallKept(c)'
    BY <1>1, <2>1, SendEffect DEF CallKept, Denied, Mine, Kept, AckMeansStored
  <2>3. \A d \in Calls \ {c} : CallKept(d)'
    BY <1>1, <2>1, SendEffect, OthersKept DEF Kept
  <2> QED BY <2>1, <2>2, <2>3 DEF Kept, AckMeansStored, OneRowPerId, EntryId
<1>2. ASSUME NEW c \in Calls, Reject(c) PROVE Kept'
  <2>1. UNCHANGED <<table, acked>> /\ call[c].step # "idle" /\ call[c].step # "answered"
    BY <1>2 DEF Reject, At
  <2>2. PICK n \in {401, 403, 404, 422} : Answer(c, n) /\ (n = 404 => call[c].op = "post")
    BY <1>2 DEF Reject
  <2>3. CallKept(c)'
    BY <2>1, <2>2, AnswerEffect DEF CallKept, Denied, Mine, Kept
  <2>4. \A d \in Calls \ {c} : CallKept(d)'
    BY <2>1, <2>2, AnswerEffect, OthersKept DEF Kept
  <2> QED BY <2>1, <2>3, <2>4 DEF Kept, AckMeansStored, OneRowPerId, EntryId
<1>3. ASSUME NEW c \in Calls, Admit(c) PROVE Kept'
  <2>1. UNCHANGED <<table, acked>> /\ call[c].step # "idle" /\ Proceed(c, "admitted")
    BY <1>3 DEF Admit, At
  <2>2. CallKept(c)'
    BY <2>1, ProceedEffect DEF CallKept, Denied, Mine, Kept
  <2>3. \A d \in Calls \ {c} : CallKept(d)'
    BY <2>1, ProceedEffect, OthersKept DEF Kept
  <2> QED BY <2>1, <2>2, <2>3 DEF Kept, AckMeansStored, OneRowPerId, EntryId
<1>4. ASSUME NEW c \in Calls, Replay(c) PROVE Kept'
  <2>1. UNCHANGED table /\ call[c].step = "admitted" /\ call[c].op = "post"
    BY <1>4 DEF Replay, At
  <2>2. PICK e \in Found(IdIn(c)) :
          \/ e = Mine(c) /\ Answer(c, 200) /\ acked' = acked \cup {Mine(c)}
          \/ e # Mine(c) /\ Answer(c, 409) /\ UNCHANGED acked
    BY <1>4 DEF Replay, Matches
  <2>3. e \in table /\ EntryId(e) = EntryId(Mine(c))
    BY <2>2 DEF Found, IdIn, EntryId, Mine
  <2>4. PICK n \in {200, 409} : Answer(c, n) /\ (n = 409 => e # Mine(c))
    BY <2>2
  <2>5. call'[c].step = "answered" /\ call'[c].code = n /\ call'[c].op = "post"
        /\ call'[c].known = call[c].known /\ Mine(c)' = Mine(c)
        /\ \A d \in Calls \ {c} : call'[d] = call[d]
    BY <2>1, <2>4, AnswerEffect DEF Mine
  <2>6. call[c].known => Mine(c) \in table
    BY <2>1 DEF Kept, CallKept
  <2>7. CallKept(c)'
    BY <2>1, <2>3, <2>4, <2>5, <2>6 DEF CallKept, Denied, Kept, OneRowPerId
  <2>8. \A d \in Calls \ {c} : CallKept(d)'
    BY <2>1, <2>5, OthersKept DEF Kept
  <2>9. AckMeansStored'
    BY <2>1, <2>2, <2>3 DEF Kept, AckMeansStored
  <2> QED BY <2>1, <2>7, <2>8, <2>9 DEF Kept, OneRowPerId, EntryId
<1>5. ASSUME NEW c \in Calls, Miss(c) PROVE Kept'
  <2>1. UNCHANGED <<table, acked>> /\ call[c].step = "admitted" /\ Proceed(c, "inserting")
    BY <1>5 DEF Miss, At
  <2>2. Mine(c) \notin table
    BY <1>5 DEF Miss, Found, IdIn, EntryId, Mine
  <2>3. ~ call[c].known
    BY <2>1, <2>2 DEF Kept, CallKept
  <2>4. CallKept(c)'
    BY <2>1, <2>3, ProceedEffect DEF CallKept
  <2>5. \A d \in Calls \ {c} : CallKept(d)'
    BY <2>1, ProceedEffect, OthersKept DEF Kept
  <2> QED BY <2>1, <2>4, <2>5 DEF Kept, AckMeansStored, OneRowPerId, EntryId
<1>6. ASSUME NEW c \in Calls, Insert(c) PROVE Kept'
  <2>1. call[c].step = "inserting" /\ Answer(c, 202)
        /\ table' = table \cup {Mine(c)} /\ acked' = acked \cup {Mine(c)}
    BY <1>6 DEF Insert, At
  <2>2. ~ call[c].known
    BY <2>1 DEF Kept, CallKept
  <2>3. CallKept(c)'
    BY <2>1, <2>2, AnswerEffect DEF CallKept
  <2>4. \A d \in Calls \ {c} : CallKept(d)'
    BY <2>1, AnswerEffect, OthersKept DEF Kept
  <2>5. \A e \in table : EntryId(e) # EntryId(Mine(c))
    BY <1>6 DEF Insert, Commits, IdIn, EntryId, Mine
  <2>6. OneRowPerId'
    BY <2>1, <2>5 DEF Kept, OneRowPerId, EntryId
  <2> QED BY <2>1, <2>3, <2>4, <2>6 DEF Kept, AckMeansStored
<1>7. ASSUME NEW c \in Calls, Collide(c) PROVE Kept'
  <2>1. UNCHANGED <<table, acked>> /\ call[c].step = "inserting" /\ Answer(c, 409)
    BY <1>7 DEF Collide, At
  <2>2. ~ call[c].known
    BY <2>1 DEF Kept, CallKept
  <2>3. CallKept(c)'
    BY <2>1, <2>2, AnswerEffect DEF CallKept
  <2>4. \A d \in Calls \ {c} : CallKept(d)'
    BY <2>1, AnswerEffect, OthersKept DEF Kept
  <2> QED BY <2>1, <2>3, <2>4 DEF Kept, AckMeansStored, OneRowPerId, EntryId
<1>8. ASSUME NEW c \in Calls, Confirm(c) PROVE Kept'
  <2>1. UNCHANGED <<table, acked>> /\ call[c].step = "admitted"
    BY <1>8 DEF Confirm, At
  <2>2. call[c].known => Mine(c) \in Found(IdIn(c)) /\ Owned(Mine(c), c)
    BY <2>1 DEF Kept, CallKept, Found, IdIn, EntryId, Mine, Owned
  <2>3. PICK n \in {200, 404} : Answer(c, n) /\ (n = 404 => ~ call[c].known)
    BY <1>8, <2>2 DEF Confirm
  <2>4. CallKept(c)'
    BY <2>1, <2>3, AnswerEffect DEF CallKept, Denied, Mine, Kept
  <2>5. \A d \in Calls \ {c} : CallKept(d)'
    BY <2>1, <2>3, AnswerEffect, OthersKept DEF Kept
  <2> QED BY <2>1, <2>4, <2>5 DEF Kept, AckMeansStored, OneRowPerId, EntryId
<1>9. ASSUME NEW c \in Calls, Done(c) PROVE Kept'
  <2>1. UNCHANGED <<table, acked>> /\ call' = [call EXCEPT ![c] = NoCall]
    BY <1>9 DEF Done
  <2>2. CallKept(c)'
    BY <2>1 DEF CallKept, NoCall, TypeOK
  <2>3. \A d \in Calls \ {c} : CallKept(d)'
    BY <2>1, OthersKept DEF Kept, TypeOK
  <2> QED BY <2>1, <2>2, <2>3 DEF Kept, AckMeansStored, OneRowPerId, EntryId
<1>10. ASSUME UNCHANGED <<table, acked, call>> PROVE Kept'
  <2>1. \A d \in Calls : CallKept(d)'
    BY <1>10, OthersKept DEF Kept
  <2> QED BY <1>10, <2>1 DEF Kept, AckMeansStored, OneRowPerId, EntryId
<1> QED
  BY <1>1, <1>2, <1>3, <1>4, <1>5, <1>6, <1>7, <1>8, <1>9, <1>10 DEF Next, Revoke, vars

(* The strengthening holds of every reachable state.                          *)
LEMMA AlwaysKept == Spec => []Kept
<1>1. Init => Kept
  BY DEF Init, Kept, AckMeansStored, OneRowPerId, CallKept, NoCall
<1>2. Kept /\ TypeOK /\ [Next]_vars => Kept'
  BY StepKeeps
<1> QED BY <1>1, <1>2, IngestTypeCorrect, PTL DEF Spec

(* A body whose router was answered 200 or 202 is in the table, as it was      *)
(* posted and under the poster's name, whatever requests run at the same time *)
(* (post_context).                                                           *)
THEOREM AckedIsStored == Spec => []AckMeansStored
<1>1. Kept => AckMeansStored
  BY DEF Kept
<1> QED BY <1>1, AlwaysKept, PTL

(* Once a router has been told that a body is stored, the relay may repeat    *)
(* the POST as often as it likes: it is not answered 409 (post_context).      *)
THEOREM ReplaysAccepted == Spec => []ReplayIsAccepted
<1>1. Kept => ReplayIsAccepted
  BY DEF Kept, ReplayIsAccepted, CallKept, Denied, At
<1> QED BY <1>1, AlwaysKept, PTL

(* Nor is the confirmation of such a record answered 404 (mark_uploaded).     *)
THEOREM AckedIsConfirmed == Spec => []ConfirmFindsAcked
<1>1. Kept => ConfirmFindsAcked
  BY DEF Kept, ConfirmFindsAcked, CallKept, Denied, At
<1> QED BY <1>1, AlwaysKept, PTL

---------------------------------------------------------------------------
(* The ingest API implements RecordStore: a commit records one entry that     *)
(* fits, and nothing else touches the rows.                                  *)
THEOREM ServiceImplementsStore == Spec => StoreSpec
<1>1. Init => Store!Init
  BY DEF Init, Store!Init
<1>2. TypeOK /\ [Next]_vars => [Store!Next]_table
  <2> SUFFICES ASSUME TypeOK, [Next]_vars PROVE [Store!Next]_table
    OBVIOUS
  <2>1. ASSUME NEW c \in Calls, Insert(c) PROVE Store!Next
    <3>1. Mine(c) \in Entries
      BY <2>1, RequestTyped DEF Insert, At
    <3>2. Store!Fits(Mine(c))
      BY <2>1 DEF Insert, Commits, Store!Fits, IdIn, EntryId, EntryTurn, Mine
    <3>3. Store!Record(Mine(c))
      BY <2>1, <3>2 DEF Insert, Store!Record
    <3> QED BY <3>1, <3>3 DEF Store!Next
  <2>2. ASSUME NEW c \in Calls,
               \/ Send(c) \/ Reject(c) \/ Admit(c) \/ Replay(c) \/ Miss(c)
               \/ Collide(c) \/ Confirm(c) \/ Done(c)
        PROVE  UNCHANGED table
    BY <2>2 DEF Send, Reject, Admit, Replay, Miss, Collide, Confirm, Done
  <2> QED BY <2>1, <2>2 DEF Next, Revoke, vars
<1> QED BY <1>1, <1>2, IngestTypeCorrect, PTL DEF Spec, StoreSpec, Store!Spec
=============================================================================
