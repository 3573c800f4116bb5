--------------------------- MODULE RequestsProofs ---------------------------
(***************************************************************************)
(* What the HTTP API guarantees for any calls, wirings, limits and number  *)
(* of requests, whatever fails, is late, is killed or happens elsewhere:   *)
(* the collection changes as promised, the server has its index, every     *)
(* request is answered once, and the answer tells its effect.              *)
(***************************************************************************)
EXTENDS Requests, MessageStoreProofs, StartupProofs

(* A request that was sent has its call, and the ids that it names stand,  *)
(* or stood, for messages.                                                 *)
CallsInv ==
    /\ req \in [Requests -> Calls \cup {NoCall}]
    /\ \A r \in Requests :
          pc[r] # "new" => req[r] \in Calls /\ Range(req[r].ids) \subseteq drawn

-----------------------------------------------------------------------------
(* The collection.  A request writes what it may, as everybody else.       *)

LEMMA UpdateOnePromised ==
    ASSUME CollInv, CallsInv, NEW r \in Requests, UpdateOne(r)
    PROVE  CollInv' /\ AsPromised!CollectionNext
<1>1. req[r] \in Calls
    BY DEF UpdateOne, CallsInv, NoCall
<1>2. req[r].text \in Texts
    BY <1>1, RequestsAssumption DEF Call
<1>3. QED
    BY <1>2, UpdatePromised DEF UpdateOne

LEMMA DeleteOnePromised ==
    ASSUME CollInv, NEW r \in Requests, DeleteOne(r)
    PROVE  CollInv' /\ AsPromised!CollectionNext
BY DeletePromised DEF DeleteOne

(* Every step of the system is one the collection's promise allows.        *)
LEMMA RequestsPromised ==
    ASSUME CollInv, CallsInv, [RequestsNext]_apiVars
    PROVE  CollInv' /\ [AsPromised!CollectionNext]_(AsPromised!collectionVars)
<1> DEFINE Kept == CollInv' /\ [AsPromised!CollectionNext]_(AsPromised!collectionVars)
<1>1. ASSUME UNCHANGED storeVars PROVE Kept
    BY <1>1, QuietPromised DEF storeVars
<1>2. ASSUME NEW r \in Requests, Send(r) PROVE Kept
    BY <1>2, <1>1 DEF Send
<1>3. ASSUME NEW r \in Requests, RequestStep(r) PROVE Kept
    <2>1. CASE UpdateDone(r)
        BY <2>1, UpdateOnePromised DEF UpdateDone
    <2>2. CASE DeleteNext(r)
        BY <2>2, DeleteOnePromised DEF DeleteNext
    <2>3. CASE ListMessages(r) \/ SearchMessages(r)
        BY <2>3, <1>1 DEF ListMessages, SearchMessages, FindPage
    <2>4. CASE UpdateMissed(r) \/ DeleteDone(r) \/ StoreError(r)
        BY <2>4, <1>1 DEF UpdateMissed, DeleteDone, StoreError
    <2>5. CASE Handle(r) \/ Reply(r)
        BY <2>5, <1>1 DEF Handle, Reply
    <2>6. CASE RequestLogger(r) \/ ServeHTTP(r) \/ Recover(r)
        BY <2>6, <1>1 DEF RequestLogger, ServeHTTP, Recover
    <2>7. QED
        BY <1>3, <2>1, <2>2, <2>3, <2>4, <2>5, <2>6 DEF RequestStep, InStore
<1>4. ASSUME NEW r \in Requests, LateWrite(r) PROVE Kept
    BY <1>4, UpdateOnePromised, DeleteOnePromised DEF LateWrite
<1>5. ASSUME Elsewhere PROVE Kept
    BY <1>5, WritePromised, AgePromised DEF Elsewhere
<1>6. ASSUME Process \/ Kill PROVE Kept
    BY <1>6, <1>1 DEF Process, Kill
<1>7. ASSUME UNCHANGED apiVars PROVE Kept
    BY <1>7, <1>1 DEF apiVars, storeVars
<1>8. QED
    BY <1>2, <1>3, <1>4, <1>5, <1>6, <1>7 DEF RequestsNext

(* Messages stay in their chats, and those that are gone do not come back. *)
LEMMA PlacesKept ==
    ASSUME CollInv, CollInv', [AsPromised!CollectionNext]_(AsPromised!collectionVars)
    PROVE  /\ drawn \subseteq drawn'
           /\ \A id \in drawn \cap DOMAIN coll' :
                 id \in DOMAIN coll /\ coll'[id].chat = coll[id].chat
<1>1. /\ DOMAIN Promised = DOMAIN coll
      /\ \A id \in DOMAIN coll : Promised[id].chat = coll[id].chat
    BY DEF Promised
<1>2. /\ DOMAIN Promised' = DOMAIN coll'
      /\ \A id \in DOMAIN coll' : Promised'[id].chat = coll'[id].chat
    BY DEF Promised
<1> DEFINE Kept == /\ drawn \subseteq drawn'
                   /\ \A id \in drawn \cap DOMAIN Promised' :
                         /\ id \in DOMAIN Promised
                         /\ Promised'[id].chat = Promised[id].chat
<1>3. ASSUME NEW new, NEW ch, NEW u, NEW text, AsPromised!Add(new, ch, u, text)
      PROVE  Kept
    <2>1. /\ new \notin drawn /\ drawn' = drawn \cup {new}
          /\ Promised' = With(Promised, new,
                            [chat |-> ch, author |-> u, text |-> text, by |-> u])
        BY <1>3 DEF AsPromised!Add, Promised, With
    <2>2. QED
        BY <2>1 DEF With
<1>4. ASSUME NEW id, NEW text, AsPromised!Rewrite(id, text)
      PROVE  Kept
    <2>1. drawn' = drawn /\ Promised' = [Promised EXCEPT ![id].text = text]
        BY <1>4 DEF AsPromised!Rewrite, Promised
    <2> DEFINE P == Promised
               Q == Promised'
    <2>2. \A i \in DOMAIN P :
             P[i] = [chat |-> P[i].chat, author |-> P[i].author,
                     text |-> P[i].text, by |-> P[i].by]
        BY DEF Promised
    <2>3. Q = [P EXCEPT ![id].text = text]
        BY <2>1
    <2> HIDE DEF P, Q
    <2>4. DOMAIN Q = DOMAIN P
        BY <2>3
    <2>5. \A i \in DOMAIN P : Q[i].chat = P[i].chat
        BY <2>2, <2>3
    <2>6. QED
        BY <2>1, <2>4, <2>5 DEF P, Q
<1>5. ASSUME NEW id, AsPromised!Remove(id)
      PROVE  Kept
    <2>1. drawn' = drawn /\ Promised' = [i \in DOMAIN Promised \ {id} |-> Promised[i]]
        BY <1>5 DEF AsPromised!Remove, Promised
    <2>2. QED
        BY <2>1
<1>6. ASSUME UNCHANGED AsPromised!collectionVars PROVE Kept
    <2>1. drawn' = drawn /\ DOMAIN Promised' = DOMAIN Promised
        BY <1>1, <1>2, <1>6 DEF AsPromised!collectionVars, Promised
    <2>2. \A id \in DOMAIN Promised : Promised'[id] = Promised[id]
        BY <1>6 DEF AsPromised!collectionVars, Promised
    <2>3. QED
        BY <2>1, <2>2
<1> HIDE DEF Kept
<1>7. Kept
    BY <1>3, <1>4, <1>5, <1>6 DEF AsPromised!CollectionNext
<1>8. QED
    BY <1>1, <1>2, <1>7 DEF Kept

-----------------------------------------------------------------------------
(* The answers.  Nothing is sent before a request replies or fails, and    *)
(* whatever has passed the middleware has an answer.                       *)
AnswersInv ==
    /\ pc \in [Requests -> {"new", "arrived", "store", "reply", "fail", "echo",
                            "panic", "done", "lost"}]
    /\ DOMAIN sent = Requests
    /\ \A r \in Requests :
          /\ pc[r] \in {"new", "arrived", "store", "reply", "panic"} => sent[r] = <<>>
          /\ pc[r] \in {"echo", "done"} => sent[r] # <<>>
          /\ sent[r] # <<>> => sent[r] = <<sent[r][1]>>

LEMMA GiveErrorAnswers ==
    ASSUME AnswersInv, NEW r \in Requests, GiveError(r)
    PROVE  /\ DOMAIN sent' = Requests
           /\ sent'[r] # <<>> /\ sent'[r] = <<sent'[r][1]>>
           /\ sent[r] = <<>> => sent'[r] = <<ErrorResponse(err[r])>>
           /\ sent[r] # <<>> => sent'[r] = sent[r]
           /\ \A o \in Requests \ {r} : sent'[o] = sent[o]
BY DEF AnswersInv, GiveError, AfterError

LEMMA ReplyAnswers ==
    ASSUME AnswersInv, NEW r \in Requests, Reply(r)
    PROVE  /\ DOMAIN sent' = Requests
           /\ sent'[r] = <<SuccessOf(req[r])>>
           /\ \A o \in Requests \ {r} : sent'[o] = sent[o]
<1>1. sent[r] = <<>> /\ sent' = [sent EXCEPT ![r] = Append(sent[r], SuccessOf(req[r]))]
    BY DEF AnswersInv, Reply, Goes
<1>2. Append(<<>>, SuccessOf(req[r])) = <<SuccessOf(req[r])>>
    OBVIOUS
<1>3. QED
    BY <1>1, <1>2 DEF AnswersInv

LEMMA AnswersStep ==
    ASSUME AnswersInv, [RequestsNext]_apiVars
    PROVE  AnswersInv'
<1>1. ASSUME UNCHANGED <<pc, sent>> PROVE AnswersInv'
    BY <1>1 DEF AnswersInv
<1>2. ASSUME NEW r \in Requests, UNCHANGED sent, NEW from, NEW to, Goes(r, from, to),
             \/ from \in {"new", "arrived"} /\ to \in {"arrived", "store", "reply", "panic", "fail"}
             \/ from = "store" /\ to \in {"store", "reply", "fail"}
      PROVE  AnswersInv'
    BY <1>2 DEF AnswersInv, Goes
<1>3. ASSUME NEW r \in Requests, Send(r) PROVE AnswersInv'
    BY <1>3, <1>2 DEF Send
<1>4. ASSUME NEW r \in Requests, RequestStep(r) PROVE AnswersInv'
    <2>1. CASE Handle(r)
        BY <2>1, <1>2 DEF Handle
    <2>2. CASE InStore(r)
        BY <2>2, <1>2 DEF InStore, ListMessages, SearchMessages, FindPage, UpdateDone,
              UpdateMissed, DeleteNext, DeleteDone, StoreError
    <2>3. CASE Reply(r)
        <3>1. pc' = [pc EXCEPT ![r] = "done"] \/ pc' = [pc EXCEPT ![r] = "fail"]
            BY <2>3 DEF Reply, Goes
        <3>2. sent'[r] # <<>> /\ sent'[r] = <<sent'[r][1]>>
            BY <2>3, ReplyAnswers
        <3>3. QED
            BY <2>3, <3>1, <3>2, ReplyAnswers DEF AnswersInv
    <2>4. CASE RequestLogger(r) \/ ServeHTTP(r) \/ Recover(r)
        <3>1. /\ pc' = [pc EXCEPT ![r] = "echo"] \/ pc' = [pc EXCEPT ![r] = "done"]
              /\ GiveError(r)
            BY <2>4 DEF RequestLogger, ServeHTTP, Recover, Goes
        <3>2. QED
            BY <3>1, GiveErrorAnswers DEF AnswersInv
    <2>5. QED
        BY <1>4, <2>1, <2>2, <2>3, <2>4 DEF RequestStep
<1>5. ASSUME NEW r \in Requests, LateWrite(r) PROVE AnswersInv'
    BY <1>5, <1>1 DEF LateWrite
<1>6. ASSUME Elsewhere \/ Process PROVE AnswersInv'
    BY <1>6, <1>1 DEF Elsewhere, Process, requestVars
<1>7. ASSUME Kill PROVE AnswersInv'
    BY <1>7 DEF Kill, AnswersInv
<1>8. ASSUME UNCHANGED apiVars PROVE AnswersInv'
    BY <1>8, <1>1 DEF apiVars
<1>9. QED
    BY <1>3, <1>4, <1>5, <1>6, <1>7, <1>8 DEF RequestsNext

-----------------------------------------------------------------------------
(* The calls.                                                              *)
LEMMA CallsStep ==
    ASSUME CallsInv, AnswersInv, [RequestsNext]_apiVars, drawn \subseteq drawn'
    PROVE  CallsInv'
<1>1. ASSUME UNCHANGED req, \A r \in Requests : pc'[r] # "new" => pc[r] # "new"
      PROVE  CallsInv'
    BY <1>1 DEF CallsInv
<1>2. ASSUME NEW r \in Requests, UNCHANGED req, NEW from, NEW to, Goes(r, from, to),
             from # "new"
      PROVE  CallsInv'
    BY <1>2, <1>1 DEF AnswersInv, Goes
<1>3. ASSUME NEW r \in Requests, Send(r) PROVE CallsInv'
    <2>1. PICK q \in Calls : Range(q.ids) \subseteq drawn /\ req' = [req EXCEPT ![r] = q]
        BY <1>3 DEF Send
    <2>2. \A o \in Requests : o # r => pc'[o] = pc[o] /\ req'[o] = req[o]
        BY <1>3, <2>1 DEF Send, Goes, AnswersInv, CallsInv
    <2>3. req'[r] = q /\ req' \in [Requests -> Calls \cup {NoCall}]
        BY <2>1 DEF CallsInv
    <2>4. QED
        BY <2>1, <2>2, <2>3 DEF CallsInv
<1>4. ASSUME NEW r \in Requests, RequestStep(r) PROVE CallsInv'
    <2>1. CASE Handle(r)
        BY <2>1, <1>2 DEF Handle
    <2>2. CASE InStore(r)
        BY <2>2, <1>2 DEF InStore, ListMessages, SearchMessages, FindPage, UpdateDone,
              UpdateMissed, DeleteNext, DeleteDone, StoreError
    <2>3. CASE Reply(r)
        BY <2>3, <1>2 DEF Reply
    <2>4. CASE RequestLogger(r) \/ ServeHTTP(r) \/ Recover(r)
        BY <2>4, <1>2 DEF RequestLogger, ServeHTTP, Recover
    <2>5. QED
        BY <1>4, <2>1, <2>2, <2>3, <2>4 DEF RequestStep
<1>5. ASSUME NEW r \in Requests, LateWrite(r) PROVE CallsInv'
    BY <1>5, <1>1 DEF LateWrite
<1>6. ASSUME Elsewhere \/ Process PROVE CallsInv'
    BY <1>6, <1>1 DEF Elsewhere, Process, requestVars
<1>7. ASSUME Kill PROVE CallsInv'
    BY <1>7, <1>1 DEF Kill, InProcess
<1>8. ASSUME UNCHANGED apiVars PROVE CallsInv'
    BY <1>8, <1>1 DEF apiVars
<1>9. QED
    BY <1>3, <1>4, <1>5, <1>6, <1>7, <1>8 DEF RequestsNext

LEMMA RequestsInitInv ==
    RequestsInit => /\ CallsInv /\ AnswersInv /\ CollInv /\ StartupInv
                    /\ AsPromised!CollectionInit
<1> SUFFICES ASSUME RequestsInit
             PROVE  /\ CallsInv /\ AnswersInv /\ CollInv /\ StartupInv
                    /\ AsPromised!CollectionInit
    OBVIOUS
<1>1. CollInv /\ AsPromised!CollectionInit
    BY InitPromised DEF RequestsInit
<1>2. StartupInv
    BY StartupInvInit DEF RequestsInit
<1>3. CallsInv /\ AnswersInv
    BY DEF RequestsInit, CallsInv, AnswersInv
<1>4. QED
    BY <1>1, <1>2, <1>3

(* The process goes through its own steps, whatever the requests do.       *)
LEMMA RequestsStartup ==
    [RequestsNext]_apiVars => [StartupNext]_startupVars
BY DEF RequestsNext, RequestStep, InStore, Send, Handle, ListMessages, SearchMessages,
       FindPage, UpdateDone, UpdateMissed, DeleteNext, DeleteDone, StoreError, LateWrite,
       Reply, RequestLogger, ServeHTTP, Recover, Elsewhere, Process, Kill, StartupNext,
       apiVars, startupVars

LEMMA RequestsStepInv ==
    ASSUME CallsInv, AnswersInv, CollInv, StartupInv, [RequestsNext]_apiVars
    PROVE  /\ CallsInv' /\ AnswersInv' /\ CollInv' /\ StartupInv'
           /\ [AsPromised!CollectionNext]_(AsPromised!collectionVars)
<1>1. CollInv' /\ [AsPromised!CollectionNext]_(AsPromised!collectionVars)
    BY RequestsPromised
<1>2. drawn \subseteq drawn'
    BY <1>1, PlacesKept
<1>3. StartupInv'
    BY RequestsStartup, StartupInvStep
<1>4. QED
    BY <1>1, <1>2, <1>3, CallsStep, AnswersStep

(* The requests, with everything else that uses the collection, failures,  *)
(* late writes and restarts, change it only as Collection promises.        *)
THEOREM RequestsImplementCollection == RequestsSpec => ImplementsCollection
<1> DEFINE Inv == CallsInv /\ AnswersInv /\ CollInv /\ StartupInv
<1>1. RequestsInit => Inv /\ AsPromised!CollectionInit
    BY RequestsInitInv
<1>2. Inv /\ [RequestsNext]_apiVars
         => Inv' /\ [AsPromised!CollectionNext]_(AsPromised!collectionVars)
    BY RequestsStepInv
<1>3. QED
    BY <1>1, <1>2, PTL
       DEF RequestsSpec, ImplementsCollection, AsPromised!CollectionSpec

(* Every request gets one answer at most, whichever of the three ways its  *)
(* error takes, and has one when it is done.                               *)
THEOREM RequestsAnsweredOnce == RequestsSpec => []AnsweredOnce
<1>1. ASSUME AnswersInv PROVE AnsweredOnce
    <2>1. ASSUME NEW r \in Requests PROVE Len(sent[r]) <= 1
        <3>1. CASE sent[r] = <<>>
            BY <3>1
        <3>2. CASE sent[r] # <<>>
            <4>1. PICK a : sent[r] = <<a>>
                BY <1>1, <3>2 DEF AnswersInv
            <4>2. Len(<<a>>) = 1
                OBVIOUS
            <4>3. QED
                BY <4>1, <4>2
        <3>3. QED
            BY <3>1, <3>2
    <2>2. QED
        BY <1>1, <2>1 DEF AnswersInv, AnsweredOnce
<1>2. RequestsInit => AnswersInv
    BY RequestsInitInv
<1>3. AnswersInv /\ [RequestsNext]_apiVars => AnswersInv'
    BY AnswersStep
<1>4. QED
    BY <1>1, <1>2, <1>3, PTL DEF RequestsSpec

(* Requests are served only over an indexed collection.                    *)
THEOREM RequestsServedIndexed == RequestsSpec => []ServesIndexed
<1>1. RequestsInit => StartupInv
    BY StartupInvInit DEF RequestsInit
<1>2. StartupInv /\ [RequestsNext]_apiVars => StartupInv'
    BY RequestsStartup, StartupInvStep
<1>3. StartupInv => ServesIndexed
    BY DEF StartupInv, ServesIndexed
<1>4. QED
    BY <1>1, <1>2, <1>3, PTL DEF RequestsSpec

(* ... and the process keeps its types, requests or not.                   *)
THEOREM RequestsStartTyped == RequestsSpec => []StartupTypeOK
<1>1. RequestsInit => StartupInv /\ ExpiryInv
    BY StartupInvInit, ExpiryInit DEF RequestsInit
<1>2. StartupInv /\ ExpiryInv /\ [RequestsNext]_apiVars => (StartupInv /\ ExpiryInv)'
    BY RequestsStartup, StartupInvStep, ExpiryStep
<1>3. StartupInv /\ ExpiryInv => StartupTypeOK
    BY DEF StartupInv, ExpiryInv, StartupTypeOK
<1>4. QED
    BY <1>1, <1>2, <1>3, PTL DEF RequestsSpec

-----------------------------------------------------------------------------
(* What the answers tell.  None of a request's ids is left in its chat.    *)
Gone(r) == \A id \in Range(req[r].ids) \cap DOMAIN coll : coll[id].chat # req[r].chat

Unwritten(r) == r \notin wrote /\ r \notin late

(* What an answer says is true, and what one that is still to be given will*)
(* say is so far: a request that is in the store has left nothing behind to*)
(* be written late, an update in there has not been made, and an error is  *)
(* the client's fault only when nothing was written.                       *)
Effect(r) ==
    /\ pc[r] \in {"new", "arrived", "panic"} => Unwritten(r)
    /\ pc[r] \in {"store", "reply"} => r \notin late
    /\ pc[r] = "store" /\ req[r].op = "update" => r \notin wrote
    /\ pc[r] = "reply" /\ req[r].op = "update" => r \in wrote
    /\ pc[r] = "reply" /\ req[r].op = "delete" => Gone(r)
    /\ pc[r] \in {"fail", "panic"} /\ sent[r] = <<>> =>
          /\ err[r].status # 204
          /\ err[r].status \in 400..499 => Unwritten(r)
    /\ sent[r] # <<>> =>
          /\ StatusOf(r) \in 400..499 => Unwritten(r)
          /\ StatusOf(r) = 204 /\ req[r].op = "update" => r \in wrote
          /\ StatusOf(r) = 204 /\ req[r].op = "delete" => Gone(r)

EffectsInv == DOMAIN err = Requests /\ \A r \in Requests : Effect(r)

(* No check answers with success.                                          *)
LEMMA FirstFailed ==
    ASSUME NEW S \in SUBSET (1..5), S # {}
    PROVE  Min(S) \in S
<1>1. \E m \in S : \A i \in S : m <= i
    <2>1. CASE 1 \in S
        BY <2>1
    <2>2. CASE 1 \notin S /\ 2 \in S
        BY <2>2
    <2>3. CASE 1 \notin S /\ 2 \notin S /\ 3 \in S
        BY <2>3
    <2>4. CASE 1 \notin S /\ 2 \notin S /\ 3 \notin S /\ 4 \in S
        BY <2>4
    <2>5. CASE 1 \notin S /\ 2 \notin S /\ 3 \notin S /\ 4 \notin S
        <3>1. PICK i \in S : TRUE
            OBVIOUS
        <3>2. \A k \in S : k = 5
            BY <2>5
        <3>3. QED
            BY <3>1, <3>2
    <2>6. QED
        BY <2>1, <2>2, <2>3, <2>4, <2>5
<1>2. QED
    BY <1>1 DEF Min

(* The errors that are given to the error handler.                         *)
ErrorsGiven ==
    {AppError(401, "INVALID_REQUEST"), AppError(500, "INTERNAL_ERROR"), OtherError}
        \cup {HTTPError(code) : code \in {400, 401, 404, 422, 500, 503}}

LEMMA CodesOf ==
    ASSUME NEW n \in {400, 401, 404, 422, 500, 503}
    PROVE  CodeOf(n) \in Codes
<1>1. n # 403
    OBVIOUS
<1>2. CASE n = 400
    BY <1>2 DEF CodeOf, Codes
<1>3. CASE n = 401
    BY <1>3 DEF CodeOf, Codes
<1>4. CASE n = 404
    BY <1>4 DEF CodeOf, Codes
<1>5. CASE n \notin {400, 401, 404}
    BY <1>1, <1>5 DEF CodeOf, Codes
<1>6. QED
    BY <1>2, <1>3, <1>4, <1>5

LEMMA AnswerIn ==
    ASSUME NEW S, NEW C, NEW n \in S, NEW code \in C, NEW D
    PROVE  [status |-> n, code |-> code] \in [status : S, code : C \cup D]
OBVIOUS

LEMMA IsAnswer ==
    ASSUME NEW n \in Statuses, NEW code \in Codes
    PROVE  [status |-> n, code |-> code] \in Answer
BY AnswerIn, Zenon DEF Answer

LEMMA GivenErrors ==
    ASSUME NEW e \in ErrorsGiven
    PROVE  e.status # 204 /\ e # NoError /\ ErrorResponse(e) \in Answer
<1>1. NoError.kind = "none"
    BY DEF NoError, ErrorOf
<1>2. ASSUME NEW n \in {401, 500}, NEW code \in {"INVALID_REQUEST", "INTERNAL_ERROR"},
             e = AppError(n, code)
      PROVE  e.status # 204 /\ e # NoError /\ ErrorResponse(e) \in Answer
    <2>1. e.kind = "app" /\ e.status = n /\ e.code = code
        BY <1>2 DEF AppError, ErrorOf
    <2>2. ErrorResponse(e) = [status |-> n, code |-> code]
        BY <2>1 DEF ErrorResponse
    <2>3. n \in Statuses /\ code \in Codes
        BY DEF Statuses, Codes
    <2>4. ErrorResponse(e) \in Answer
        BY <2>2, <2>3, IsAnswer
    <2>5. QED
        BY <1>1, <2>1, <2>4
<1>3. ASSUME NEW n \in {400, 401, 404, 422, 500, 503}, NEW kind \in {"http", "other"},
             e.kind = kind, e.status = n
      PROVE  e.status # 204 /\ e # NoError /\ ErrorResponse(e) \in Answer
    <2>1. ErrorResponse(e) = [status |-> n, code |-> CodeOf(n)]
        BY <1>3 DEF ErrorResponse
    <2>2. n \in Statuses /\ CodeOf(n) \in Codes
        BY CodesOf DEF Statuses
    <2>3. ErrorResponse(e) \in Answer
        BY <2>1, <2>2, IsAnswer
    <2>4. QED
        BY <1>1, <1>3, <2>3
<1>4. CASE e = OtherError
    <2>1. e.kind = "other" /\ e.status = 500
        BY <1>4 DEF OtherError, ErrorOf
    <2>2. QED
        BY <1>3, <2>1
<1>5. ASSUME NEW code \in {400, 401, 404, 422, 500, 503}, e = HTTPError(code)
      PROVE  e.status # 204 /\ e # NoError /\ ErrorResponse(e) \in Answer
    <2>1. e.kind = "http" /\ e.status = code
        BY <1>5 DEF HTTPError, ErrorOf
    <2>2. QED
        BY <1>3, <2>1
<1>6. QED
    BY <1>2, <1>4, <1>5 DEF ErrorsGiven

LEMMA RefusalsErrors ==
    ASSUME NEW q \in Calls
    PROVE  /\ DOMAIN Refusals(q) \in SUBSET (1..5)
           /\ \A i \in DOMAIN Refusals(q) : Refusals(q)[i][2] \in ErrorsGiven
<1>0. /\ \A code \in {400, 401, 404, 422, 500, 503} : HTTPError(code) \in ErrorsGiven
      /\ Panic \in ErrorsGiven
    BY DEF ErrorsGiven, Panic
<1>1. q.op \in {"list", "search", "delete", "update"}
    BY RequestsAssumption DEF Call
<1>2. CASE q.op = "list"
    <2>1. Refusals(q) = ListRefusals(q)
        BY <1>2 DEF Refusals
    <2>2. DOMAIN ListRefusals(q) = 1..3
        BY DEF ListRefusals
    <2>3. /\ ListRefusals(q)[1][2] = HTTPError(400)
          /\ ListRefusals(q)[2][2] = HTTPError(422)
          /\ ListRefusals(q)[3][2] = HTTPError(500)
        BY DEF ListRefusals
    <2>4. QED
        BY <2>1, <2>2, <2>3, <1>0
<1>3. CASE q.op = "search"
    <2>1. Refusals(q) = SearchRefusals(q)
        BY <1>3 DEF Refusals
    <2>2. DOMAIN SearchRefusals(q) = 1..3
        BY DEF SearchRefusals
    <2>3. /\ SearchRefusals(q)[1][2] = HTTPError(400)
          /\ SearchRefusals(q)[2][2] = Panic
          /\ SearchRefusals(q)[3][2] = HTTPError(422)
        BY DEF SearchRefusals
    <2>4. QED
        BY <2>1, <2>2, <2>3, <1>0
<1>4. CASE q.op = "delete"
    <2>1. Refusals(q) = DeleteRefusals(q)
        BY <1>4 DEF Refusals
    <2>2. DOMAIN DeleteRefusals(q) = 1..5
        BY DEF DeleteRefusals
    <2>3. /\ DeleteRefusals(q)[1][2] = Panic
          /\ DeleteRefusals(q)[2][2] = HTTPError(400)
          /\ DeleteRefusals(q)[3][2] = Panic
          /\ DeleteRefusals(q)[4][2] = HTTPError(422)
          /\ DeleteRefusals(q)[5][2] = HTTPError(400)
        BY DEF DeleteRefusals
    <2>4. QED
        BY <2>1, <2>2, <2>3, <1>0
<1>5. CASE q.op = "update"
    <2>1. Refusals(q) = UpdateRefusals(q)
        BY <1>5 DEF Refusals
    <2>2. DOMAIN UpdateRefusals(q) = 1..5
        BY DEF UpdateRefusals
    <2>3. /\ UpdateRefusals(q)[1][2] = HTTPError(401)
          /\ UpdateRefusals(q)[2][2] = HTTPError(400)
          /\ UpdateRefusals(q)[3][2] = HTTPError(422)
          /\ UpdateRefusals(q)[4][2] = HTTPError(422)
          /\ UpdateRefusals(q)[5][2] = HTTPError(400)
        BY DEF UpdateRefusals
    <2>4. QED
        BY <2>1, <2>2, <2>3, <1>0
<1>6. QED
    BY <1>1, <1>2, <1>3, <1>4, <1>5

(* What is not refused is a user's, about a chat, and not too much.        *)
Accepted(q) ==
    /\ VerifiedUser(q.token) \in UserIDs
    /\ q.chat \in ChatIDs
    /\ q.op = "delete" => Len(q.ids) <= MaxDelete
    /\ q.op = "update" => q.text \notin Oversized
    /\ q.op \in {"list", "search"} => LimitFits(q, MaxPage(q))

LEMMA AuthIs ==
    ASSUME NEW q \in Calls
    PROVE  /\ AuthMiddleware(q.bearer, q.token) \in ErrorsGiven \cup {NoError}
           /\ AuthMiddleware(q.bearer, q.token) = NoError
                 => VerifiedUser(q.token) \in UserIDs
<1> DEFINE error == VerifyError(q.token)
<1>1. AppError(401, "INVALID_REQUEST") # NoError /\ AppError(500, "INTERNAL_ERROR") # NoError
    BY DEF AppError, NoError, ErrorOf
<1>2. AuthMiddleware(q.bearer, q.token) \in ErrorsGiven \cup {NoError}
    BY DEF AuthMiddleware, ErrorsGiven
<1>3. ASSUME AuthMiddleware(q.bearer, q.token) = NoError PROVE error = ""
    BY <1>1, <1>3 DEF AuthMiddleware
<1>4. ASSUME error = "" PROVE VerifiedUser(q.token) \in UserIDs
    <2>1. "sub" \in DOMAIN q.token.claims /\ q.token.claims.sub # NotULID
        BY <1>4 DEF VerifyError
    <2>2. q.token.claims \in [{"user_id"} -> UserIDs] \cup [{"sub"} -> UserIDs \cup {NotULID}]
        BY RequestsAssumption DEF Call
    <2>3. q.token.claims \in [{"sub"} -> UserIDs \cup {NotULID}]
        BY <2>1, <2>2
    <2>4. QED
        BY <2>1, <2>3 DEF VerifiedUser
<1>5. QED
    BY <1>2, <1>3, <1>4

LEMMA NotRefused ==
    ASSUME NEW q \in Calls, \A i \in DOMAIN Refusals(q) : ~Refusals(q)[i][1]
    PROVE  /\ q.chat \in ChatIDs
           /\ q.op = "delete" => Len(q.ids) <= MaxDelete
           /\ q.op = "update" => q.text \notin Oversized
           /\ q.op \in {"list", "search"} => LimitFits(q, MaxPage(q))
<1>1. /\ q.op \in {"list", "search", "delete", "update"}
      /\ q.chat \in ChatIDs \cup {NoChat} /\ q.ids \in Seq(MessageIDs)
      /\ MaxDelete \in Nat
    BY RequestsAssumption DEF Call
<1>2. CASE q.op = "list"
    <2>1. Refusals(q) = ListRefusals(q) /\ 2 \in DOMAIN ListRefusals(q)
        BY <1>2 DEF Refusals, ListRefusals
    <2>2. ~ListRefusals(q)[2][1]
        BY <2>1
    <2>3. ~(q.chat = NoChat \/ ~LimitFits(q, MaxList))
        BY <2>2 DEF ListRefusals
    <2>4. QED
        BY <1>1, <1>2, <2>3 DEF MaxPage
<1>3. CASE q.op = "search"
    <2>1. Refusals(q) = SearchRefusals(q) /\ 3 \in DOMAIN SearchRefusals(q)
        BY <1>3 DEF Refusals, SearchRefusals
    <2>2. ~SearchRefusals(q)[3][1]
        BY <2>1
    <2>3. ~(q.chat = NoChat \/ q.text = Blank \/ ~LimitFits(q, MaxSearch))
        BY <2>2 DEF SearchRefusals
    <2>4. QED
        BY <1>1, <1>3, <2>3 DEF MaxPage
<1>4. CASE q.op = "delete"
    <2>1. Refusals(q) = DeleteRefusals(q) /\ 4 \in DOMAIN DeleteRefusals(q)
          /\ 5 \in DOMAIN DeleteRefusals(q)
        BY <1>4 DEF Refusals, DeleteRefusals
    <2>2. ~DeleteRefusals(q)[4][1] /\ ~DeleteRefusals(q)[5][1]
        BY <2>1
    <2>3. ~(q.chat = NoChat \/ ~q.listed) /\ ~TooMany(q)
        BY <2>2 DEF DeleteRefusals
    <2>4. Len(q.ids) \in Nat
        BY <1>1
    <2>5. QED
        BY <1>1, <1>4, <2>3, <2>4 DEF TooMany
<1>5. CASE q.op = "update"
    <2>1. Refusals(q) = UpdateRefusals(q) /\ {3, 4} \subseteq DOMAIN UpdateRefusals(q)
        BY <1>5 DEF Refusals, UpdateRefusals
    <2>2. ~UpdateRefusals(q)[3][1] /\ ~UpdateRefusals(q)[4][1]
        BY <2>1
    <2>3. /\ ~(~wiring.params \/ q.chat = NoChat)
          /\ ~(q.text = Blank \/ q.text \in Oversized)
        BY <2>2 DEF UpdateRefusals
    <2>4. QED
        BY <1>1, <1>5, <2>3
<1>6. QED
    BY <1>1, <1>2, <1>3, <1>4, <1>5

LEMMA RefusalIs ==
    ASSUME NEW q \in Calls
    PROVE  /\ Refusal(q) \in ErrorsGiven \cup {NoError}
           /\ Refusal(q) = NoError => Accepted(q)
<1> DEFINE auth   == AuthMiddleware(q.bearer, q.token)
           checks == Refusals(q)
           failed == {i \in DOMAIN checks : checks[i][1]}
<1>1. auth \in ErrorsGiven \cup {NoError} /\ (auth = NoError => VerifiedUser(q.token) \in UserIDs)
    BY AuthIs
<1>2. failed # {} => checks[Min(failed)][2] \in ErrorsGiven
    BY FirstFailed, RefusalsErrors
<1>3. Refusal(q) = IF auth # NoError THEN auth
                   ELSE IF failed # {} THEN checks[Min(failed)][2] ELSE NoError
    BY DEF Refusal
<1>4. failed = {} => \A i \in DOMAIN checks : ~checks[i][1]
    OBVIOUS
<1>5. failed = {} /\ auth = NoError => Accepted(q)
    BY <1>1, <1>4, NotRefused DEF Accepted
<1>6. \A e \in ErrorsGiven : e # NoError
    BY GivenErrors
<1> HIDE DEF auth, checks, failed
<1>7. QED
    BY <1>1, <1>2, <1>3, <1>5, <1>6

LEMMA RefusalStatus ==
    ASSUME NEW q \in Calls
    PROVE  Refusal(q).status # 204
<1>1. NoError.status # 204
    BY DEF NoError, ErrorOf
<1>2. QED
    BY <1>1, RefusalIs, GivenErrors

(* A request that nothing happens to, while messages come and go.          *)
Same(r) ==
    /\ pc'[r] = pc[r] /\ req'[r] = req[r] /\ err'[r] = err[r] /\ sent'[r] = sent[r]
    /\ r \in wrote' <=> r \in wrote
    /\ r \in late' <=> r \in late

PlacesStay ==
    \A id \in drawn \cap DOMAIN coll' : id \in DOMAIN coll /\ coll'[id].chat = coll[id].chat

LEMMA GoneStays ==
    ASSUME CallsInv, PlacesStay, NEW r \in Requests, pc[r] # "new", req'[r] = req[r],
           Gone(r)
    PROVE  Gone(r)'
BY DEF CallsInv, PlacesStay, Gone

LEMMA SameEffect ==
    ASSUME CallsInv, AnswersInv, PlacesStay, NEW r \in Requests, Effect(r), Same(r)
    PROVE  Effect(r)'
<1>1. Gone(r) /\ pc[r] # "new" => Gone(r)'
    BY GoneStays DEF Same
<1>2. Unwritten(r) => Unwritten(r)'
    BY DEF Same, Unwritten
<1>3. StatusOf(r)' = StatusOf(r)
    BY DEF Same, StatusOf
<1>4. sent[r] # <<>> => pc[r] # "new"
    BY DEF AnswersInv
<1>5. QED
    BY <1>1, <1>2, <1>3, <1>4 DEF Effect, Same

(* When one request takes a step, it is enough to look at that one.        *)
LEMMA OneEffect ==
    ASSUME CallsInv, AnswersInv, PlacesStay, EffectsInv, DOMAIN err' = Requests,
           NEW r \in Requests, Effect(r)', \A o \in Requests \ {r} : Same(o)
    PROVE  EffectsInv'
BY SameEffect DEF EffectsInv

LEMMA NoEffect ==
    ASSUME CallsInv, AnswersInv, PlacesStay, EffectsInv, UNCHANGED requestVars
    PROVE  EffectsInv'
<1>1. \A o \in Requests : Same(o)
    BY DEF Same, requestVars
<1>2. QED
    BY <1>1, SameEffect DEF EffectsInv, requestVars

LEMMA SendEffect ==
    ASSUME CallsInv, AnswersInv, PlacesStay, EffectsInv, NEW r \in Requests, Send(r)
    PROVE  EffectsInv'
<1>1. pc[r] = "new" /\ pc' = [pc EXCEPT ![r] = "arrived"] /\ UNCHANGED <<err, sent, wrote, late>>
    BY DEF Send, Goes
<1>2. \A o \in Requests \ {r} : Same(o)
    BY <1>1 DEF Send, Same, AnswersInv, CallsInv
<1>3. pc'[r] = "arrived" /\ sent'[r] = <<>>
    BY <1>1 DEF AnswersInv
<1>4. Unwritten(r)'
    BY <1>1 DEF EffectsInv, Effect, Unwritten
<1>5. Effect(r)'
    BY <1>3, <1>4 DEF Effect
<1>6. QED
    BY <1>1, <1>2, <1>5, OneEffect DEF EffectsInv

LEMMA HandleEffect ==
    ASSUME CallsInv, AnswersInv, PlacesStay, EffectsInv, NEW r \in Requests, Handle(r)
    PROVE  EffectsInv'
<1>1. /\ pc[r] = "arrived"
      /\ \/ pc'[r] \in {"store", "panic", "fail"}
         \/ pc'[r] = "reply" /\ req[r].op = "delete" /\ req[r].ids = <<>>
      /\ \A o \in Requests \ {r} : pc'[o] = pc[o]
      /\ UNCHANGED <<req, sent, wrote, late>>
    BY DEF Handle, Goes, AnswersInv, NothingToDelete
<1>2. err' = [err EXCEPT ![r] = Refusal(req[r])]
    BY DEF Handle, Fails
<1>3. err'[r].status # 204
    BY <1>1, <1>2, RefusalStatus DEF CallsInv, EffectsInv
<1>4. \A o \in Requests \ {r} : Same(o)
    BY <1>1, <1>2 DEF Same, EffectsInv
<1>5. sent'[r] = <<>> /\ Unwritten(r) /\ Unwritten(r)'
    BY <1>1 DEF AnswersInv, EffectsInv, Effect, Unwritten
<1>6. req[r].ids = <<>> => Gone(r)'
    BY <1>1 DEF Gone, Range
<1>7. Effect(r)'
    BY <1>1, <1>3, <1>5, <1>6 DEF Effect, Unwritten
<1>8. QED
    BY <1>2, <1>4, <1>7, OneEffect DEF EffectsInv

LEMMA FindEffect ==
    ASSUME CallsInv, AnswersInv, PlacesStay, EffectsInv, NEW r \in Requests,
           ListMessages(r) \/ SearchMessages(r)
    PROVE  EffectsInv'
<1>1. /\ pc[r] = "store" /\ pc' = [pc EXCEPT ![r] = "reply"]
      /\ req[r].op \in {"list", "search"}
      /\ UNCHANGED <<req, err, sent, wrote, late>>
    BY DEF ListMessages, SearchMessages, FindPage, Goes
<1>2. \A o \in Requests \ {r} : Same(o)
    BY <1>1 DEF Same, AnswersInv
<1>3. pc'[r] = "reply" /\ sent'[r] = <<>> /\ r \notin late'
    BY <1>1 DEF AnswersInv, EffectsInv, Effect
<1>4. Effect(r)'
    BY <1>1, <1>3 DEF Effect
<1>5. QED
    BY <1>1, <1>2, <1>4, OneEffect DEF EffectsInv

LEMMA UpdateEffect ==
    ASSUME CallsInv, AnswersInv, PlacesStay, EffectsInv, NEW r \in Requests,
           UpdateDone(r)
    PROVE  EffectsInv'
<1>1. /\ pc[r] = "store" /\ pc' = [pc EXCEPT ![r] = "reply"]
      /\ req[r].op = "update" /\ wrote' = wrote \cup {r}
      /\ UNCHANGED <<req, err, sent, late>>
    BY DEF UpdateDone, UpdateOne, Goes
<1>2. \A o \in Requests \ {r} : Same(o)
    BY <1>1 DEF Same, AnswersInv
<1>3. pc'[r] = "reply" /\ sent'[r] = <<>> /\ r \notin late' /\ r \in wrote'
    BY <1>1 DEF AnswersInv, EffectsInv, Effect
<1>4. Effect(r)'
    BY <1>1, <1>3 DEF Effect
<1>5. QED
    BY <1>1, <1>2, <1>4, OneEffect DEF EffectsInv

(* Nothing of an update that is in the store has been written, so that it  *)
(* may be answered with 404.                                               *)
LEMMA MissedEffect ==
    ASSUME CallsInv, AnswersInv, PlacesStay, EffectsInv, NEW r \in Requests,
           UpdateMissed(r)
    PROVE  EffectsInv'
<1>1. /\ pc[r] = "store" /\ pc' = [pc EXCEPT ![r] = "fail"]
      /\ req[r].op = "update" /\ err' = [err EXCEPT ![r] = HTTPError(404)]
      /\ UNCHANGED <<req, sent, wrote, late>>
    BY DEF UpdateMissed, Goes, Fails
<1>2. \A o \in Requests \ {r} : Same(o)
    BY <1>1 DEF Same, AnswersInv, EffectsInv
<1>3. pc'[r] = "fail" /\ sent'[r] = <<>> /\ Unwritten(r)'
    BY <1>1 DEF AnswersInv, EffectsInv, Effect, Unwritten
<1>4. err'[r].status = 404
    BY <1>1 DEF EffectsInv, HTTPError, ErrorOf
<1>5. Effect(r)'
    BY <1>1, <1>3, <1>4 DEF Effect
<1>6. QED
    BY <1>1, <1>2, <1>5, OneEffect DEF EffectsInv

LEMMA DeleteEffect ==
    ASSUME CallsInv, AnswersInv, PlacesStay, EffectsInv, NEW r \in Requests,
           DeleteNext(r) \/ DeleteDone(r)
    PROVE  EffectsInv'
<1>1. /\ pc[r] = "store" /\ req[r].op = "delete"
      /\ UNCHANGED <<req, err, sent, late>>
      /\ wrote' \in {wrote, wrote \cup {r}}
      /\ \/ pc' = [pc EXCEPT ![r] = "store"]
         \/ pc' = [pc EXCEPT ![r] = "reply"] /\ Gone(r)'
    <2>1. CASE DeleteNext(r)
        BY <2>1 DEF DeleteNext, DeleteOne, Goes
    <2>2. CASE DeleteDone(r)
        <3>1. UNCHANGED <<coll, req>> /\ Gone(r)
            BY <2>2 DEF DeleteDone, Gone, Listed, storeVars
        <3>2. Gone(r)'
            BY <3>1 DEF Gone
        <3>3. QED
            BY <2>2, <3>2 DEF DeleteDone, Goes
    <2>3. QED
        BY <2>1, <2>2
<1>2. \A o \in Requests \ {r} : Same(o)
    BY <1>1 DEF Same, AnswersInv
<1>3. /\ sent'[r] = <<>> /\ r \notin late'
      /\ pc'[r] = "store" \/ (pc'[r] = "reply" /\ Gone(r)')
    BY <1>1 DEF AnswersInv, EffectsInv, Effect
<1>4. Effect(r)'
    BY <1>1, <1>3 DEF Effect
<1>5. QED
    BY <1>1, <1>2, <1>4, OneEffect DEF EffectsInv

(* A failure is the store's fault, as it may have written something.       *)
LEMMA StoreErrorEffect ==
    ASSUME CallsInv, AnswersInv, PlacesStay, EffectsInv, NEW r \in Requests,
           StoreError(r)
    PROVE  EffectsInv'
<1>1. PICK code \in {500, 503} : err' = [err EXCEPT ![r] = HTTPError(code)]
    BY DEF StoreError, Fails
<1>2. /\ pc[r] = "store" /\ pc' = [pc EXCEPT ![r] = "fail"]
      /\ late' \in {late, late \cup {r}}
      /\ UNCHANGED <<req, sent, wrote>>
    BY DEF StoreError, Goes
<1>3. \A o \in Requests \ {r} : Same(o)
    BY <1>1, <1>2 DEF Same, AnswersInv, EffectsInv
<1>4. pc'[r] = "fail" /\ sent'[r] = <<>>
    BY <1>2 DEF AnswersInv
<1>5. err'[r].status # 204 /\ err'[r].status \notin 400..499
    <2>1. err'[r] = HTTPError(code)
        BY <1>1 DEF EffectsInv
    <2>2. HTTPError(code).status = code
        BY DEF HTTPError, ErrorOf
    <2>3. code # 204 /\ code \notin 400..499
        OBVIOUS
    <2>4. QED
        BY <2>1, <2>2, <2>3
<1>6. Effect(r)'
    BY <1>4, <1>5 DEF Effect
<1>7. QED
    BY <1>1, <1>3, <1>6, OneEffect DEF EffectsInv

(* A late write belongs to a request that is not told it was its fault.    *)
LEMMA LateEffect ==
    ASSUME CallsInv, AnswersInv, PlacesStay, EffectsInv, NEW r \in Requests,
           LateWrite(r)
    PROVE  EffectsInv'
<1>1. /\ r \in late /\ wrote' = wrote \cup {r} /\ late' \in {late, late \ {r}}
      /\ UNCHANGED <<pc, req, err, sent>>
    BY DEF LateWrite, UpdateOne, DeleteOne
<1>2. \A o \in Requests \ {r} : Same(o)
    BY <1>1 DEF Same
<1>3. ~Unwritten(r) /\ pc[r] \notin {"new", "arrived", "panic", "store", "reply"}
    BY <1>1 DEF EffectsInv, Effect, Unwritten, AnswersInv
<1>4. Gone(r) => Gone(r)'
    BY <1>1, <1>3, GoneStays
<1>5. StatusOf(r)' = StatusOf(r)
    BY <1>1 DEF StatusOf
<1>6. Effect(r)'
    BY <1>1, <1>3, <1>4, <1>5 DEF EffectsInv, Effect
<1>7. QED
    BY <1>1, <1>2, <1>6, OneEffect DEF EffectsInv

(* Success is told of what has been done.                                  *)
LEMMA ReplyEffect ==
    ASSUME CallsInv, AnswersInv, PlacesStay, EffectsInv, NEW r \in Requests,
           Reply(r)
    PROVE  EffectsInv'
<1>1. /\ pc[r] = "reply" /\ pc'[r] \in {"done", "fail"}
      /\ \A o \in Requests \ {r} : pc'[o] = pc[o] /\ err'[o] = err[o]
      /\ DOMAIN err' = Requests
      /\ UNCHANGED <<coll, req, wrote, late>>
    BY DEF Reply, Goes, Fails, AnswersInv, EffectsInv, storeVars
<1>2. /\ sent'[r] = <<SuccessOf(req[r])>>
      /\ \A o \in Requests \ {r} : sent'[o] = sent[o]
    BY ReplyAnswers
<1>3. \A o \in Requests \ {r} : Same(o)
    BY <1>1, <1>2 DEF Same
<1>4. StatusOf(r)' = SuccessOf(req[r]).status
    BY <1>2 DEF StatusOf
<1>5. StatusOf(r)' \notin 400..499
    <2>1. SuccessOf(req[r]).status \in {200, 204}
        BY DEF SuccessOf
    <2>2. QED
        BY <1>4, <2>1
<1>6. /\ req[r].op = "update" => r \in wrote'
      /\ req[r].op = "delete" => Gone(r)'
    <2>1. Gone(r) => Gone(r)'
        BY <1>1 DEF Gone
    <2>2. QED
        BY <1>1, <2>1 DEF EffectsInv, Effect
<1>7. sent'[r] # <<>>
    BY <1>2
<1>8. Effect(r)'
    BY <1>1, <1>5, <1>6, <1>7 DEF Effect
<1>9. QED
    BY <1>1, <1>3, <1>8, OneEffect

(* An error is told of what has not been done.                             *)
LEMMA ErrorEffect ==
    ASSUME CallsInv, AnswersInv, PlacesStay, EffectsInv, NEW r \in Requests,
           RequestLogger(r) \/ ServeHTTP(r) \/ Recover(r)
    PROVE  EffectsInv'
<1>1. /\ pc[r] \in {"fail", "echo", "panic"} /\ pc'[r] \in {"echo", "done"}
      /\ \A o \in Requests \ {r} : pc'[o] = pc[o]
      /\ UNCHANGED <<coll, req, err, wrote, late>>
      /\ GiveError(r)
    BY DEF RequestLogger, ServeHTTP, Recover, Goes, AnswersInv, storeVars
<1>2. \A o \in Requests \ {r} : Same(o)
    BY <1>1, GiveErrorAnswers DEF Same
<1>3. Gone(r) => Gone(r)'
    BY <1>1 DEF Gone
<1>4. CASE sent[r] # <<>>
    <2>1. sent'[r] = sent[r] /\ StatusOf(r)' = StatusOf(r)
        BY <1>1, <1>4, GiveErrorAnswers DEF StatusOf
    <2>2. Unwritten(r) => Unwritten(r)'
        BY <1>1 DEF Unwritten
    <2>3. /\ StatusOf(r)' \in 400..499 => Unwritten(r)'
          /\ StatusOf(r)' = 204 /\ req[r].op = "update" => r \in wrote'
          /\ StatusOf(r)' = 204 /\ req[r].op = "delete" => Gone(r)'
        BY <1>1, <1>3, <1>4, <2>1, <2>2 DEF EffectsInv, Effect
    <2>4. Effect(r)'
        BY <1>1, <1>4, <2>1, <2>3 DEF Effect
    <2>5. QED
        BY <1>1, <1>2, <2>4, OneEffect DEF EffectsInv
<1>5. CASE sent[r] = <<>>
    <2>1. pc[r] \in {"fail", "panic"}
        BY <1>1, <1>5 DEF AnswersInv
    <2>2. sent'[r] = <<ErrorResponse(err[r])>>
        BY <1>1, <1>5, GiveErrorAnswers
    <2>3. StatusOf(r)' = err[r].status
        BY <2>2 DEF StatusOf, ErrorResponse
    <2>4. /\ StatusOf(r)' # 204
          /\ StatusOf(r)' \in 400..499 => Unwritten(r)'
        BY <1>1, <1>5, <2>1, <2>3 DEF EffectsInv, Effect, Unwritten
    <2>5. Effect(r)'
        BY <1>1, <2>4 DEF Effect
    <2>6. QED
        BY <1>1, <1>2, <2>5, OneEffect DEF EffectsInv
<1>6. QED
    BY <1>4, <1>5

(* A process that is killed leaves the writes of its requests, whose       *)
(* clients are told nothing.                                               *)
LEMMA KillEffect ==
    ASSUME CallsInv, AnswersInv, PlacesStay, EffectsInv, Kill
    PROVE  EffectsInv'
<1> SUFFICES ASSUME NEW r \in Requests PROVE Effect(r)'
    BY DEF EffectsInv, Kill
<1>1. UNCHANGED <<coll, req, err, sent, wrote>>
    BY DEF Kill, storeVars
<1>2. CASE r \in InProcess
    <2>1. pc'[r] = "lost"
        BY <1>2 DEF Kill
    <2>2. pc[r] # "store" => (r \in late' <=> r \in late)
        BY DEF Kill
    <2>3. pc[r] = "store" => sent'[r] = <<>>
        BY <1>1 DEF AnswersInv
    <2>4. StatusOf(r)' = StatusOf(r) /\ (Gone(r) => Gone(r)')
        BY <1>1 DEF StatusOf, Gone
    <2>5. QED
        BY <1>1, <2>1, <2>2, <2>3, <2>4 DEF EffectsInv, Effect, Unwritten
<1>3. CASE r \notin InProcess
    <2>1. pc[r] # "store"
        BY <1>3 DEF InProcess
    <2>2. Same(r)
        BY <1>1, <1>3, <2>1 DEF Same, Kill
    <2>3. QED
        BY <2>2, SameEffect DEF EffectsInv
<1>4. QED
    BY <1>2, <1>3

LEMMA EffectsStep ==
    ASSUME CallsInv, AnswersInv, CollInv, EffectsInv, [RequestsNext]_apiVars
    PROVE  EffectsInv'
<1>1. PlacesStay
    BY RequestsPromised, PlacesKept DEF PlacesStay
<1>2. ASSUME NEW r \in Requests, RequestStep(r) PROVE EffectsInv'
    BY <1>1, <1>2, HandleEffect, FindEffect, UpdateEffect, MissedEffect, DeleteEffect,
       StoreErrorEffect, ReplyEffect, ErrorEffect DEF RequestStep, InStore
<1>3. ASSUME NEW r \in Requests, Send(r) \/ LateWrite(r) PROVE EffectsInv'
    BY <1>1, <1>3, SendEffect, LateEffect
<1>4. CASE Kill
    BY <1>1, <1>4, KillEffect
<1>5. CASE Elsewhere \/ Process
    BY <1>1, <1>5, NoEffect DEF Elsewhere, Process
<1>6. CASE UNCHANGED apiVars
    <2>1. UNCHANGED requestVars
        BY <1>6 DEF apiVars, requestVars
    <2>2. QED
        BY <1>1, <2>1, NoEffect
<1>7. QED
    BY <1>2, <1>3, <1>4, <1>5, <1>6 DEF RequestsNext

(* The answer tells what has become of the messages, whatever is late, is  *)
(* killed, or is done by others: 4xx is given only to requests that have   *)
(* written nothing and never will, and success is lasting.                 *)
THEOREM RequestsTellEffect == RequestsSpec => []AnswerTellsEffect
<1> DEFINE Inv == CallsInv /\ AnswersInv /\ CollInv /\ StartupInv /\ EffectsInv
<1>1. RequestsInit => Inv
    <2>1. RequestsInit => EffectsInv
        BY DEF RequestsInit, EffectsInv, Effect, Unwritten
    <2>2. QED
        BY <2>1, RequestsInitInv
<1>2. Inv /\ [RequestsNext]_apiVars => Inv'
    BY RequestsStepInv, EffectsStep
<1>3. Inv => AnswerTellsEffect
    BY DEF EffectsInv, Effect, Unwritten, Gone, AnswerTellsEffect
<1>4. QED
    BY <1>1, <1>2, <1>3, PTL DEF RequestsSpec

-----------------------------------------------------------------------------
(* The types, and the bounds on the work.  There are finitely many         *)
(* messages at any time, so that there is a number of those found.         *)
LEMMA FiniteStays ==
    ASSUME IsFiniteSet(DOMAIN coll), [RequestsNext]_apiVars
    PROVE  IsFiniteSet(DOMAIN coll')
<1>1. ASSUME UNCHANGED coll PROVE IsFiniteSet(DOMAIN coll')
    BY <1>1
<1>2. ASSUME NEW u, NEW ch, NEW id, NEW text, Update(u, ch, id, text)
      PROVE  IsFiniteSet(DOMAIN coll')
    BY <1>2 DEF Update
<1>3. ASSUME NEW ch, NEW id, Delete(ch, id) PROVE IsFiniteSet(DOMAIN coll')
    <2>1. DOMAIN coll' \subseteq DOMAIN coll
        BY <1>3 DEF Delete
    <2>2. QED
        BY <2>1, FS_Subset
<1>4. ASSUME NEW r \in Requests, RequestStep(r) PROVE IsFiniteSet(DOMAIN coll')
    <2>1. CASE UpdateDone(r)
        BY <2>1, <1>2 DEF UpdateDone, UpdateOne
    <2>2. CASE DeleteNext(r)
        BY <2>2, <1>3 DEF DeleteNext, DeleteOne
    <2>3. CASE ListMessages(r) \/ SearchMessages(r)
        BY <2>3 DEF ListMessages, SearchMessages, FindPage, storeVars
    <2>4. CASE UpdateMissed(r) \/ DeleteDone(r) \/ StoreError(r)
        BY <2>4 DEF UpdateMissed, DeleteDone, StoreError, storeVars
    <2>5. CASE Handle(r) \/ Reply(r) \/ RequestLogger(r) \/ ServeHTTP(r) \/ Recover(r)
        BY <2>5 DEF Handle, Reply, RequestLogger, ServeHTTP, Recover, storeVars
    <2>6. QED
        BY <1>4, <2>1, <2>2, <2>3, <2>4, <2>5 DEF RequestStep, InStore
<1>5. ASSUME NEW r \in Requests, Send(r) \/ LateWrite(r) PROVE IsFiniteSet(DOMAIN coll')
    BY <1>5, <1>2, <1>3 DEF Send, LateWrite, UpdateOne, DeleteOne, storeVars
<1>6. CASE Elsewhere
    BY <1>6, WriteSettles DEF Elsewhere
<1>7. CASE Process \/ Kill \/ UNCHANGED apiVars
    BY <1>7 DEF Process, Kill, storeVars, apiVars
<1>8. QED
    BY <1>4, <1>5, <1>6, <1>7 DEF RequestsNext

(* What a request holds at each point on its way.                          *)
Work(r) ==
    /\ pc[r] = "new" => req[r] = NoCall /\ page[r].shown = 0
    /\ pc[r] = "store" => Accepted(req[r]) /\ ~NothingToDelete(req[r])
    /\ pc[r] \in {"fail", "echo", "panic"} => err[r] \in ErrorsGiven
    /\ sent[r] # <<>> => sent[r][1] \in Answer
    /\ page[r].shown \in 0..MaxPage(req[r])
    /\ page[r].more => page[r].shown > 0
    /\ r \in wrote \cup late => req[r].op \in {"update", "delete"}

WorkInv ==
    /\ wiring \in Wirings
    /\ IsFiniteSet(DOMAIN coll)
    /\ DOMAIN page = Requests
    /\ wrote \cup late \subseteq Requests
    /\ \A r \in Requests : Work(r)

Idle(r) == Same(r) /\ page'[r] = page[r]

LEMMA IdleWork ==
    ASSUME NEW r \in Requests, Work(r), Idle(r)
    PROVE  Work(r)'
BY DEF Work, Idle, Same

(* When one request takes a step, it is enough to look at that one.        *)
LEMMA OneWork ==
    ASSUME WorkInv, IsFiniteSet(DOMAIN coll'), UNCHANGED wiring,
           NEW r \in Requests, DOMAIN page' = Requests, wrote' \cup late' \subseteq Requests,
           Work(r)', \A o \in Requests \ {r} : Idle(o)
    PROVE  WorkInv'
<1>1. \A o \in Requests \ {r} : Work(o)'
    BY IdleWork DEF WorkInv
<1>2. QED
    BY <1>1 DEF WorkInv

LEMMA NoWork ==
    ASSUME WorkInv, IsFiniteSet(DOMAIN coll'), UNCHANGED requestVars
    PROVE  WorkInv'
<1>1. \A o \in Requests : Work(o)'
    BY IdleWork DEF Idle, Same, requestVars, WorkInv
<1>2. QED
    BY <1>1 DEF WorkInv, requestVars

LEMMA MaxPageNat ==
    ASSUME NEW q PROVE MaxPage(q) \in Nat
BY RequestsAssumption DEF MaxPage

LEMMA SendWork ==
    ASSUME CallsInv, AnswersInv, EffectsInv, WorkInv, IsFiniteSet(DOMAIN coll'),
           NEW r \in Requests, Send(r)
    PROVE  WorkInv'
<1>1. PICK q \in Calls : req' = [req EXCEPT ![r] = q]
    BY DEF Send
<1>2. /\ pc[r] = "new" /\ pc' = [pc EXCEPT ![r] = "arrived"]
      /\ UNCHANGED <<wiring, err, page, sent, wrote, late>>
    BY DEF Send, Goes
<1>3. \A o \in Requests \ {r} : Idle(o)
    BY <1>1, <1>2 DEF Idle, Same, AnswersInv, CallsInv
<1>4. pc'[r] = "arrived" /\ sent'[r] = <<>> /\ r \notin wrote' \cup late'
    BY <1>2 DEF AnswersInv, EffectsInv, Effect, Unwritten
<1>5. page'[r].shown = 0 /\ ~page'[r].more
    BY <1>2 DEF WorkInv, Work
<1>6. 0 \in 0..MaxPage(req'[r])
    BY MaxPageNat
<1>7. Work(r)'
    BY <1>4, <1>5, <1>6 DEF Work, MaxPage
<1>8. QED
    BY <1>2, <1>3, <1>7, OneWork DEF WorkInv

LEMMA HandleWork ==
    ASSUME CallsInv, AnswersInv, EffectsInv, WorkInv, IsFiniteSet(DOMAIN coll'),
           NEW r \in Requests, Handle(r)
    PROVE  WorkInv'
<1> DEFINE error == Refusal(req[r])
<1>1. /\ pc[r] = "arrived" /\ err' = [err EXCEPT ![r] = error]
      /\ pc' = [pc EXCEPT ![r] =
                   CASE error = Panic           -> "panic"
                     [] error # NoError         -> "fail"
                     [] NothingToDelete(req[r]) -> "reply"
                     [] OTHER                   -> "store"]
      /\ UNCHANGED <<wiring, req, page, sent, wrote, late>>
    BY DEF Handle, Goes, Fails
<1>2. error \in ErrorsGiven \cup {NoError} /\ (error = NoError => Accepted(req[r]))
    BY <1>1, RefusalIs DEF CallsInv
<1>3. \A e \in ErrorsGiven : e # NoError
    BY GivenErrors
<1>4. /\ err'[r] = error /\ pc'[r] \in {"store", "reply", "panic", "fail"}
      /\ pc'[r] = "store" => error = NoError /\ ~NothingToDelete(req[r])
      /\ pc'[r] \in {"panic", "fail"} => error # NoError
    <2>1. NoError # Panic
        BY DEF NoError, Panic, OtherError, ErrorOf
    <2> HIDE DEF error
    <2>2. pc'[r] = CASE error = Panic           -> "panic"
                     [] error # NoError         -> "fail"
                     [] NothingToDelete(req[r]) -> "reply"
                     [] OTHER                   -> "store"
        BY <1>1 DEF AnswersInv
    <2>3. CASE error = NoError /\ NothingToDelete(req[r])
        BY <1>1, <2>1, <2>2, <2>3 DEF EffectsInv
    <2>4. CASE error = NoError /\ ~NothingToDelete(req[r])
        BY <1>1, <2>1, <2>2, <2>4 DEF EffectsInv
    <2>5. CASE error # NoError
        BY <1>1, <2>2, <2>5 DEF EffectsInv
    <2>6. QED
        BY <2>3, <2>4, <2>5
<1>5. \A o \in Requests \ {r} : Idle(o)
    BY <1>1 DEF Idle, Same, AnswersInv, EffectsInv
<1>6. /\ Accepted(req[r])' <=> Accepted(req[r])
      /\ NothingToDelete(req[r])' <=> NothingToDelete(req[r])
      /\ MaxPage(req[r])' = MaxPage(req[r])
    BY <1>1 DEF Accepted, NothingToDelete, MaxPage
<1>7. Work(r)'
    <2> HIDE DEF error
    <2>1. Work(r) /\ UNCHANGED <<req, page, sent, wrote, late>>
        BY <1>1 DEF WorkInv
    <2>2. QED
        BY <1>2, <1>3, <1>4, <1>6, <2>1 DEF Work
<1>8. QED
    BY <1>1, <1>5, <1>7, OneWork DEF WorkInv

LEMMA FindWork ==
    ASSUME CallsInv, AnswersInv, EffectsInv, WorkInv, IsFiniteSet(DOMAIN coll'),
           NEW r \in Requests, ListMessages(r) \/ SearchMessages(r)
    PROVE  WorkInv'
<1>1. PICK ids \in SUBSET DOMAIN coll : FindPage(r, ids)
    BY DEF ListMessages, SearchMessages, Listed, Searched
<1> DEFINE limit == PageLimit(req[r])
           n     == Cardinality(ids)
           found == Min({n, limit + 1})
           shown == Min({found, limit})
<1>2. /\ pc[r] = "store" /\ pc' = [pc EXCEPT ![r] = "reply"]
      /\ page' = [page EXCEPT ![r] = [shown |-> shown, more |-> found > limit]]
      /\ UNCHANGED <<wiring, req, err, sent, wrote, late>>
    BY <1>1 DEF FindPage, Goes
<1>3. req[r] \in Calls /\ req[r].op \in {"list", "search"} /\ Accepted(req[r])
    BY <1>2 DEF CallsInv, ListMessages, SearchMessages, WorkInv, Work
<1>4. limit \in Nat \ {0} /\ limit <= MaxPage(req[r])
    <2>1. /\ req[r].limit \in 0..MaxPage(req[r]) /\ MaxPage(req[r]) \in Nat
          /\ DefaultLimit \in Nat \ {0} /\ DefaultLimit <= MaxPage(req[r])
        BY <1>3, RequestsAssumption DEF Accepted, LimitFits, MaxPage
    <2>2. QED
        BY <2>1 DEF PageLimit
<1>5. n \in Nat
    BY FS_Subset, FS_CardinalityType DEF WorkInv
<1> HIDE DEF limit, n
<1>6. found = IF n <= limit + 1 THEN n ELSE limit + 1
    <2>1. limit + 1 \in Nat
        BY <1>4
    <2>2. QED
        BY <1>5, <2>1, MinOfTwo
<1>7. found \in Nat
    BY <1>4, <1>5, <1>6
<1>8. shown = IF found <= limit THEN found ELSE limit
    <2> HIDE DEF found
    <2>1. QED
        BY <1>4, <1>7, MinOfTwo
<1> HIDE DEF found, shown
<1>9. shown \in 0..MaxPage(req[r]) /\ (found > limit => shown > 0)
    BY <1>4, <1>7, <1>8, MaxPageNat
<1>10. \A o \in Requests \ {r} : Idle(o)
    BY <1>2 DEF Idle, Same, AnswersInv, WorkInv
<1>11. /\ pc'[r] = "reply" /\ page'[r].shown = shown
       /\ page'[r].more <=> found > limit
       /\ MaxPage(req[r])' = MaxPage(req[r])
    BY <1>2 DEF AnswersInv, WorkInv, MaxPage
<1>12. Work(r)'
    BY <1>2, <1>9, <1>11 DEF WorkInv, Work
<1>13. QED
    BY <1>2, <1>10, <1>12, OneWork DEF WorkInv

(* Only updates and deletions write, at once or late.                      *)
LEMMA WriteWork ==
    ASSUME AnswersInv, EffectsInv, WorkInv, IsFiniteSet(DOMAIN coll'), NEW r \in Requests,
           UpdateDone(r) \/ DeleteNext(r) \/ DeleteDone(r) \/ LateWrite(r)
    PROVE  WorkInv'
<1>1. /\ wrote' \in {wrote, wrote \cup {r}} /\ late' \in {late, late \ {r}}
      /\ req[r].op \in {"update", "delete"}
      /\ UNCHANGED <<wiring, req, err, page, sent>>
    BY DEF UpdateDone, UpdateOne, DeleteNext, DeleteOne, DeleteDone, LateWrite
<1>2. /\ pc' = pc \/ (pc[r] = "store" /\ pc' = [pc EXCEPT ![r] = "reply"])
    BY DEF UpdateDone, DeleteNext, DeleteDone, LateWrite, Goes, AnswersInv
<1>3. \A o \in Requests \ {r} : Idle(o)
    BY <1>1, <1>2 DEF Idle, Same, AnswersInv
<1>4. pc'[r] = pc[r] \/ (pc[r] = "store" /\ pc'[r] = "reply")
    BY <1>2 DEF AnswersInv
<1>5. Work(r)'
    BY <1>1, <1>4 DEF WorkInv, Work, Accepted, MaxPage
<1>6. QED
    BY <1>1, <1>3, <1>5, OneWork DEF WorkInv

LEMMA FailWork ==
    ASSUME AnswersInv, EffectsInv, WorkInv, IsFiniteSet(DOMAIN coll'), NEW r \in Requests,
           UpdateMissed(r) \/ StoreError(r)
    PROVE  WorkInv'
<1>1. PICK code \in {404, 500, 503} : err' = [err EXCEPT ![r] = HTTPError(code)]
    BY DEF UpdateMissed, StoreError, Fails
<1>2. /\ pc[r] = "store" /\ pc' = [pc EXCEPT ![r] = "fail"]
      /\ late' \in {late, late \cup ({r} \cap Writers)}
      /\ UNCHANGED <<wiring, req, page, sent, wrote>>
    BY DEF UpdateMissed, StoreError, Goes
<1>3. \A o \in Requests \ {r} : Idle(o)
    BY <1>1, <1>2 DEF Idle, Same, AnswersInv, EffectsInv
<1>4. pc'[r] = "fail" /\ err'[r] \in ErrorsGiven
    BY <1>1, <1>2 DEF AnswersInv, EffectsInv, ErrorsGiven
<1>5. r \in Writers => req[r].op \in {"update", "delete"}
    BY DEF Writers
<1>6. Work(r)'
    BY <1>2, <1>4, <1>5 DEF WorkInv, Work, MaxPage
<1>7. QED
    BY <1>2, <1>3, <1>6, OneWork DEF WorkInv

LEMMA SuccessIsAnswer ==
    ASSUME NEW q PROVE SuccessOf(q) \in Answer
<1>1. \A code, D : code \in D => code \in Codes \cup D
    OBVIOUS
<1>2. (IF q.op \in {"list", "search"} THEN 200 ELSE 204) \in Statuses
    BY DEF Statuses
<1>3. QED
    BY <1>1, <1>2, AnswerIn, Zenon DEF SuccessOf, Answer

LEMMA ReplyWork ==
    ASSUME AnswersInv, EffectsInv, WorkInv, IsFiniteSet(DOMAIN coll'), NEW r \in Requests,
           Reply(r)
    PROVE  WorkInv'
<1>1. /\ pc[r] = "reply" /\ pc'[r] \in {"done", "fail"}
      /\ \A o \in Requests \ {r} : pc'[o] = pc[o] /\ err'[o] = err[o]
      /\ pc'[r] = "fail" => err'[r] = OtherError
      /\ UNCHANGED <<wiring, req, page, wrote, late>>
    BY DEF Reply, Goes, Fails, AnswersInv, EffectsInv
<1>2. \A o \in Requests \ {r} : Idle(o)
    BY <1>1, ReplyAnswers DEF Idle, Same
<1>3. sent'[r][1] \in Answer
    BY ReplyAnswers, SuccessIsAnswer
<1>4. OtherError \in ErrorsGiven
    BY DEF ErrorsGiven
<1>5. Work(r)'
    BY <1>1, <1>3, <1>4 DEF WorkInv, Work, MaxPage
<1>6. QED
    BY <1>1, <1>2, <1>5, OneWork DEF WorkInv

LEMMA ErrorWork ==
    ASSUME AnswersInv, EffectsInv, WorkInv, IsFiniteSet(DOMAIN coll'), NEW r \in Requests,
           RequestLogger(r) \/ ServeHTTP(r) \/ Recover(r)
    PROVE  WorkInv'
<1>1. /\ pc[r] \in {"fail", "echo", "panic"} /\ pc'[r] \in {"echo", "done"}
      /\ \A o \in Requests \ {r} : pc'[o] = pc[o]
      /\ UNCHANGED <<wiring, req, err, page, wrote, late>>
      /\ GiveError(r)
    BY DEF RequestLogger, ServeHTTP, Recover, Goes, AnswersInv
<1>2. \A o \in Requests \ {r} : Idle(o)
    BY <1>1, GiveErrorAnswers DEF Idle, Same
<1>3. err[r] \in ErrorsGiven /\ ErrorResponse(err[r]) \in Answer
    BY <1>1, GivenErrors DEF WorkInv, Work
<1>4. sent'[r][1] \in Answer
    <2>1. CASE sent[r] # <<>>
        BY <1>1, <2>1, GiveErrorAnswers DEF WorkInv, Work
    <2>2. CASE sent[r] = <<>>
        BY <1>1, <1>3, <2>2, GiveErrorAnswers
    <2>3. QED
        BY <2>1, <2>2
<1>5. Work(r)'
    BY <1>1, <1>3, <1>4 DEF WorkInv, Work, MaxPage
<1>6. QED
    BY <1>1, <1>2, <1>5, OneWork DEF WorkInv

LEMMA KillWork ==
    ASSUME AnswersInv, WorkInv, IsFiniteSet(DOMAIN coll'), Kill
    PROVE  WorkInv'
<1>1. /\ pc' = [r \in Requests |-> IF r \in InProcess THEN "lost" ELSE pc[r]]
      /\ late' = late \cup {r \in Writers : pc[r] = "store"}
      /\ UNCHANGED <<wiring, req, err, page, sent, wrote>>
    BY DEF Kill
<1>2. Writers \subseteq Requests /\ \A r \in Writers : req[r].op \in {"update", "delete"}
    BY DEF Writers
<1>3. ASSUME NEW r \in Requests PROVE Work(r)'
    <2>1. pc'[r] = pc[r] \/ pc'[r] = "lost"
        BY <1>1
    <2>2. r \in wrote' \cup late' => req'[r].op \in {"update", "delete"}
        BY <1>1, <1>2 DEF WorkInv, Work
    <2>3. Accepted(req[r])' <=> Accepted(req[r])
        BY <1>1 DEF Accepted
    <2>4. QED
        BY <1>1, <2>1, <2>2, <2>3 DEF WorkInv, Work, MaxPage
<1>4. QED
    BY <1>1, <1>2, <1>3 DEF WorkInv

LEMMA WorkInit == RequestsInit => WorkInv
<1> SUFFICES ASSUME RequestsInit PROVE WorkInv
    OBVIOUS
<1>1. IsFiniteSet(DOMAIN coll)
    BY PagingInit DEF RequestsInit, PagingInv
<1>2. ASSUME NEW r \in Requests PROVE Work(r)
    <2>1. /\ pc[r] = "new" /\ req[r] = NoCall /\ sent[r] = <<>>
          /\ page[r].shown = 0 /\ ~page[r].more /\ r \notin wrote \cup late
        BY DEF RequestsInit
    <2>2. 0 \in 0..MaxPage(req[r])
        BY MaxPageNat
    <2>3. QED
        BY <2>1, <2>2 DEF Work
<1>3. QED
    BY <1>1, <1>2 DEF RequestsInit, WorkInv

LEMMA WorkStep ==
    ASSUME CallsInv, AnswersInv, EffectsInv, WorkInv, [RequestsNext]_apiVars
    PROVE  WorkInv'
<1>1. IsFiniteSet(DOMAIN coll')
    BY FiniteStays DEF WorkInv
<1>2. ASSUME NEW r \in Requests, RequestStep(r) PROVE WorkInv'
    BY <1>1, <1>2, HandleWork, FindWork, WriteWork, FailWork, ReplyWork, ErrorWork
       DEF RequestStep, InStore
<1>3. ASSUME NEW r \in Requests, Send(r) \/ LateWrite(r) PROVE WorkInv'
    BY <1>1, <1>3, SendWork, WriteWork
<1>4. CASE Kill
    BY <1>1, <1>4, KillWork
<1>5. CASE Elsewhere \/ Process
    BY <1>1, <1>5, NoWork DEF Elsewhere, Process
<1>6. CASE UNCHANGED apiVars
    <2>1. UNCHANGED requestVars
        BY <1>6 DEF apiVars, requestVars
    <2>2. QED
        BY <1>1, <2>1, NoWork
<1>7. QED
    BY <1>2, <1>3, <1>4, <1>5, <1>6 DEF RequestsNext

LEMMA RequestsInv ==
    RequestsSpec => [](CallsInv /\ AnswersInv /\ WorkInv)
<1> DEFINE Inv == CallsInv /\ AnswersInv /\ CollInv /\ StartupInv /\ EffectsInv /\ WorkInv
<1>1. RequestsInit => Inv
    <2>1. RequestsInit => EffectsInv
        BY DEF RequestsInit, EffectsInv, Effect, Unwritten
    <2>2. QED
        BY <2>1, RequestsInitInv, WorkInit
<1>2. Inv /\ [RequestsNext]_apiVars => Inv'
    BY RequestsStepInv, EffectsStep, WorkStep
<1>3. QED
    BY <1>1, <1>2, PTL DEF RequestsSpec

(* Whatever is asked, the database is asked by a user about a chat, and for*)
(* no more than the limits allow; every answer is one the API describes.   *)
THEOREM RequestsTyped == RequestsSpec => []RequestsTypeOK
<1>1. ASSUME CallsInv, AnswersInv, WorkInv PROVE RequestsTypeOK
    <2>1. ASSUME NEW r \in Requests
          PROVE  /\ req[r] \in Calls \cup {NoCall}
                 /\ req[r] = NoCall <=> pc[r] = "new"
                 /\ sent[r] \in Seq(Answer)
                 /\ page[r].shown \in 0..MaxPage(req[r])
                 /\ pc[r] = "store" =>
                       /\ VerifiedUser(req[r].token) \in UserIDs
                       /\ req[r].chat \in ChatIDs
                       /\ req[r].op = "delete" => Len(req[r].ids) \in 1..MaxDelete
                       /\ req[r].op = "update" => req[r].text \notin Oversized
        <3>1. NoCall \notin Calls
            <4>1. \A q \in Calls : q.op # "none"
                BY RequestsAssumption DEF Call
            <4>2. NoCall.op = "none"
                BY DEF NoCall
            <4>3. QED
                BY <4>1, <4>2
        <3>2. sent[r] \in Seq(Answer)
            <4>1. CASE sent[r] = <<>>
                BY <4>1
            <4>2. CASE sent[r] # <<>>
                <5>1. PICK a \in Answer : sent[r] = <<a>>
                    BY <1>1, <4>2 DEF AnswersInv, WorkInv, Work
                <5>2. QED
                    BY <5>1
            <4>3. QED
                BY <4>1, <4>2
        <3>3. pc[r] = "store" /\ req[r].op = "delete" => Len(req[r].ids) \in 1..MaxDelete
            <4>1. req[r] \in Calls => Len(req[r].ids) \in Nat
                BY RequestsAssumption DEF Call
            <4>2. req[r].ids # <<>> /\ req[r] \in Calls => Len(req[r].ids) # 0
                BY RequestsAssumption DEF Call
            <4>3. QED
                BY <1>1, <4>1, <4>2, RequestsAssumption
                   DEF CallsInv, WorkInv, Work, Accepted, NothingToDelete
        <3>4. QED
            BY <1>1, <3>1, <3>2, <3>3 DEF CallsInv, WorkInv, Work, Accepted
    <2>2. wrote \cup late \subseteq Writers
        BY <1>1 DEF WorkInv, Work, Writers
    <2>3. QED
        BY <1>1, <2>1, <2>2 DEF AnswersInv, WorkInv, RequestsTypeOK
<1>2. QED
    BY <1>1, RequestsInv, PTL

(* A client that is told of more has got something to go on from, whatever *)
(* the limits, the messages found, and the limit it gave or left out.      *)
THEOREM RequestsMoreAfterSome == RequestsSpec => []MoreAfterSome
<1>1. WorkInv => MoreAfterSome
    BY DEF WorkInv, Work, MoreAfterSome
<1>2. QED
    BY <1>1, RequestsInv, PTL
=============================================================================
