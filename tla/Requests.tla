------------------------------ MODULE Requests ------------------------------
(***************************************************************************)
(* The HTTP API: every request from its arrival to its answer, through the *)
(* middleware app.go installs, AuthMiddleware, the handlers of             *)
(* message_handlers.go, the use cases and the collection, and back, while  *)
(* other requests, the sessions and other instances use the same           *)
(* collection and the process may be killed and started again (Startup).   *)
(*                                                                         *)
(* The order is Recover, CORS, RequestLogger, AuthMiddleware, handler; an  *)
(* error a handler returns is given to the error handler by RequestLogger  *)
(* (HandleError) and once more by echo.  A call of the database that is    *)
(* reported to have failed may have been carried out, wholly or in part,   *)
(* and may still be carried out afterwards; so may the calls of a process  *)
(* that was killed.                                                        *)
(***************************************************************************)
EXTENDS Integers, MessageStore, Startup, Auth

CONSTANTS
    Requests,      \* each is sent at most once; who repeats one sends another
    Calls,         \* what clients ask for
    Wirings,       \* how the API may be put together, see below
    Oversized,     \* texts longer than an update may be (4000 characters)
    DefaultLimit, MaxList, MaxSearch, MaxDelete    \* 20, 100, 50 and 100

NoChat == "no chat"     \* chat_id is missing or malformed

(* A call: the token, and what of the rest the handlers tell apart.        *)
Call == [op: {"list", "search", "delete", "update"},
         bearer: BOOLEAN,                      \* authorization: Bearer <token>
         token: [signed: BOOLEAN, stale: BOOLEAN,
                 claims: [{"user_id"} -> UserIDs] \cup [{"sub"} -> UserIDs \cup {NotULID}]],
         binds: BOOLEAN,                       \* c.Bind succeeds
         chat: ChatIDs \cup {NoChat},
         listed: BOOLEAN,                      \* message_ids: a list, of UUIDs
         ids: Seq(MessageIDs),                 \* its members, or the message_id
         text: Texts,
         limit: Int,                           \* 0 when it is not given
         anchor: MessageIDs \cup {0}]

(* What the routes and the middleware give the handlers: the key of the    *)
(* echo context that holds the user, the validation tags that are          *)
(* registered, and whether the route of UpdateMessage has its parameters.  *)
Wiring == [key: {"userID", "user_id"}, tags: SUBSET {"ulid", "uiid"}, params: BOOLEAN]

(* app.go and router.go as they are.                                       *)
AsBuilt == [key |-> "userID", tags |-> {"ulid"}, params |-> FALSE]

ASSUME RequestsAssumption ==
    /\ Calls \subseteq Call
    /\ \A q \in Calls : q.op = "update" => Len(q.ids) = 1
    /\ Wirings \subseteq Wiring
    /\ Oversized \subseteq Texts
    /\ {DefaultLimit, MaxList, MaxSearch, MaxDelete} \subseteq Nat \ {0}
    /\ DefaultLimit <= MaxList /\ DefaultLimit <= MaxSearch

VARIABLES
    wiring,
    pc,         \* per request: "new", "arrived", "store" (in the use case),
                \* "reply", "fail" (an error goes up), "echo" (past the
                \* middleware), "panic", "done" or "lost" with its process
    req,        \* per request, its call
    err,        \* per request, the error its handler returned
    page,       \* per request, how many messages were found for it, and
                \* whether it is told of more
    sent,       \* per request, the answers written for it
    wrote,      \* history: requests that have changed the collection
    late        \* requests whose database call nobody waits for any more,
                \* which the database may carry out still

requestVars == <<wiring, pc, req, err, page, sent, wrote, late>>
apiVars     == <<coll, query, status, anchor, got, drawn, writer, stable,
                 main, server, minutes, expiry, indexed,
                 wiring, pc, req, err, page, sent, wrote, late>>

Goes(r, from, to) == pc[r] = from /\ pc' = [pc EXCEPT ![r] = to]
Fails(r, error)   == err' = [err EXCEPT ![r] = error]

-----------------------------------------------------------------------------
(* A client sends a request; ids it names are of messages it has seen.     *)
Send(r) ==
    /\ server = "serving"
    /\ Goes(r, "new", "arrived")
    /\ \E q \in Calls : Range(q.ids) \subseteq drawn /\ req' = [req EXCEPT ![r] = q]
    /\ UNCHANGED <<storeVars, startupVars, wiring, err, page, sent, wrote, late>>

(* c.Get("user_id") finds the user; the validator knows the tags of two    *)
(* requests, and otherwise panics.                                         *)
Identified  == wiring.key = "user_id"
Validatable == "uiid" \in wiring.tags
Panic       == OtherError

\* Variant: off by one.
TooManyButOne(q) == Len(q.ids) > MaxDelete + 1

TooMany(q) == Len(q.ids) > MaxDelete

(* validate:"omitempty,min=1,max=..."                                      *)
LimitFits(q, max) == q.limit \in 0..max

(* What each handler refuses before the database is asked, in the order in *)
(* which it looks, its use case and the repository with it.                *)
ListRefusals(q) ==
    << <<~q.binds, HTTPError(400)>>,
       <<q.chat = NoChat \/ ~LimitFits(q, MaxList), HTTPError(422)>>,
       <<q.anchor # 0, HTTPError(500)>> >>

SearchRefusals(q) ==
    << <<~q.binds, HTTPError(400)>>,
       <<~Validatable, Panic>>,
       <<q.chat = NoChat \/ q.text = Blank \/ ~LimitFits(q, MaxSearch), HTTPError(422)>> >>

DeleteRefusals(q) ==
    << <<~Identified, Panic>>,       \* an unchecked type assertion
       <<~q.binds, HTTPError(400)>>,
       <<~Validatable, Panic>>,
       <<q.chat = NoChat \/ ~q.listed, HTTPError(422)>>,
       <<TooMany(q), HTTPError(400)>> >>

UpdateRefusals(q) ==
    << <<~Identified, HTTPError(401)>>,
       <<~q.binds, HTTPError(400)>>,
       <<~wiring.params \/ q.chat = NoChat, HTTPError(422)>>,
       <<q.text = Blank \/ q.text \in Oversized, HTTPError(422)>>,
       <<~Acceptable(q.text), HTTPError(400)>> >>

Refusals(q) ==
    CASE q.op = "list"   -> ListRefusals(q)
      [] q.op = "search" -> SearchRefusals(q)
      [] q.op = "delete" -> DeleteRefusals(q)
      [] q.op = "update" -> UpdateRefusals(q)

(* The first of the checks that fails, the middleware's before all others. *)
Refusal(q) ==
    LET auth   == AuthMiddleware(q.bearer, q.token)
        checks == Refusals(q)
        failed == {i \in DOMAIN checks : checks[i][1]}
    IN  IF auth # NoError THEN auth
        ELSE IF failed # {} THEN checks[Min(failed)][2]
        ELSE NoError

(* An empty list of messages is deleted without asking the database.       *)
NothingToDelete(q) == q.op = "delete" /\ q.ids = <<>>

(* AuthMiddleware and the handler, up to the call of the database.         *)
Handle(r) ==
    LET error == Refusal(req[r])
        next  == CASE error = Panic                 -> "panic"
                   [] error # NoError               -> "fail"
                   [] NothingToDelete(req[r])       -> "reply"
                   [] OTHER                         -> "store"
    IN  /\ Goes(r, "arrived", next)
        /\ Fails(r, error)
        /\ UNCHANGED <<storeVars, startupVars, wiring, req, page, sent, wrote, late>>

-----------------------------------------------------------------------------
\* Variant: the handlers have no default for a limit that is not given.
PageLimitAsGiven(q) == q.limit

(* The handlers' limit on a page.                                          *)
PageLimit(q) == IF q.limit = 0 THEN DefaultLimit ELSE q.limit

(* A page of the messages found, of which one more than the limit was      *)
(* asked for.                                                              *)
FindPage(r, ids) ==
    LET limit == PageLimit(req[r])
        found == Min({Cardinality(ids), limit + 1})
    IN  /\ Goes(r, "store", "reply")
        /\ page' = [page EXCEPT ![r] = [shown |-> Min({found, limit}),
                                        more  |-> found > limit]]
        /\ UNCHANGED <<storeVars, startupVars, wiring, req, err, sent, wrote, late>>

ListMessages(r) ==
    /\ req[r].op = "list"
    /\ FindPage(r, Listed(req[r].chat, coll))

(* A text search needs the index.                                          *)
SearchMessages(r) ==
    /\ req[r].op = "search" /\ indexed
    /\ FindPage(r, {id \in Searched(req[r].chat, coll) :
                        req[r].anchor = 0 \/ id < req[r].anchor})

(* UpdateMessage: one document of the user's, or none, which is an error.  *)
UpdateOne(r) ==
    /\ req[r].op = "update"
    /\ \E id \in Range(req[r].ids) :
          Update(VerifiedUser(req[r].token), req[r].chat, id, req[r].text)
    /\ wrote' = wrote \cup {r}

UpdateDone(r) ==
    /\ Goes(r, "store", "reply")
    /\ UpdateOne(r)
    /\ UNCHANGED <<startupVars, wiring, req, err, page, sent, late>>

Matches(q, id) ==
    /\ id \in DOMAIN coll /\ coll[id].chat = q.chat
    /\ coll[id].sender = VerifiedUser(q.token)

UpdateMissed(r) ==
    /\ Goes(r, "store", "fail")
    /\ req[r].op = "update" /\ \A id \in Range(req[r].ids) : ~Matches(req[r], id)
    /\ Fails(r, HTTPError(404))
    /\ UNCHANGED <<storeVars, startupVars, wiring, req, page, sent, wrote, late>>

(* DeleteMessages: one document after the other, whoever's they are ...    *)
DeleteOne(r) ==
    /\ req[r].op = "delete"
    /\ \E id \in Range(req[r].ids) : Delete(req[r].chat, id)
    /\ wrote' = wrote \cup {r}

DeleteNext(r) ==
    /\ Goes(r, "store", "store")
    /\ DeleteOne(r)
    /\ UNCHANGED <<startupVars, wiring, req, err, page, sent, late>>

(* ... until none is left.                                                 *)
DeleteDone(r) ==
    /\ Goes(r, "store", "reply")
    /\ req[r].op = "delete"
    /\ Range(req[r].ids) \cap Listed(req[r].chat, coll) = {}
    /\ UNCHANGED <<storeVars, startupVars, wiring, req, err, page, sent, wrote, late>>

Writers == {r \in Requests : req[r].op \in {"update", "delete"}}

\* Variant: a timeout is answered like a message that is not there.
StoreErrorNotFound(r) ==
    /\ Goes(r, "store", "fail")
    /\ \E code \in {500, 404} : Fails(r, HTTPError(code))
    /\ late' = late \cup ({r} \cap Writers)
    /\ UNCHANGED <<storeVars, startupVars, wiring, req, page, sent, wrote>>

(* The database call fails, or its time is over (503); what it was to write*)
(* may be written later.                                                   *)
StoreError(r) ==
    /\ Goes(r, "store", "fail")
    /\ \E code \in {500, 503} : Fails(r, HTTPError(code))
    /\ late' = late \cup ({r} \cap Writers)
    /\ UNCHANGED <<storeVars, startupVars, wiring, req, page, sent, wrote>>

(* The database carries out a write nobody waits for.                      *)
LateWrite(r) ==
    /\ r \in late
    /\ \/ UpdateOne(r) /\ late' = late \ {r}
       \/ DeleteOne(r) /\ UNCHANGED late
    /\ UNCHANGED <<startupVars, wiring, pc, req, err, page, sent>>

-----------------------------------------------------------------------------
SuccessOf(q) == [status |-> IF q.op \in {"list", "search"} THEN 200 ELSE 204,
                 code |-> ""]

(* c.NoContent, or c.JSON, which fails when the client is gone, but not    *)
(* before the response is committed.                                       *)
Reply(r) ==
    /\ sent' = [sent EXCEPT ![r] = Append(@, SuccessOf(req[r]))]
    /\ \/ Goes(r, "reply", "done") /\ UNCHANGED err
       \/ /\ req[r].op \in {"list", "search"}
          /\ Goes(r, "reply", "fail") /\ Fails(r, OtherError)
    /\ UNCHANGED <<storeVars, startupVars, wiring, req, page, wrote, late>>

GiveError(r) == sent' = [sent EXCEPT ![r] = AfterError(@, err[r])]

(* RequestLogger with HandleError: the error handler, and the error goes on*)
(* up through CORS and Recover ...                                         *)
RequestLogger(r) ==
    /\ Goes(r, "fail", "echo")
    /\ GiveError(r)
    /\ UNCHANGED <<storeVars, startupVars, wiring, req, err, page, wrote, late>>

(* ... to echo, which gives it to the error handler again.                 *)
ServeHTTP(r) ==
    /\ Goes(r, "echo", "done")
    /\ GiveError(r)
    /\ UNCHANGED <<storeVars, startupVars, wiring, req, err, page, wrote, late>>

\* Variant: there is no Recover: net/http closes the connection.
RecoverMissing(r) ==
    /\ Goes(r, "panic", "done")
    /\ UNCHANGED <<storeVars, startupVars, wiring, req, err, page, sent, wrote, late>>

(* Recover: the error handler, and the panic is over.                      *)
Recover(r) ==
    /\ Goes(r, "panic", "done")
    /\ GiveError(r)
    /\ UNCHANGED <<storeVars, startupVars, wiring, req, err, page, wrote, late>>

-----------------------------------------------------------------------------
(* The sessions and the requests to other instances change the collection, *)
(* and messages grow old.                                                  *)
Elsewhere ==
    /\ Write \/ \E id \in MessageIDs : Age(id)
    /\ UNCHANGED <<startupVars, requestVars>>

(* The process starts, or its listener breaks, which leaves the requests   *)
(* it has accepted.                                                        *)
Process ==
    /\ Boot \/ StartUp \/ StopServing
    /\ UNCHANGED <<storeVars, requestVars>>

InProcess == {r \in Requests : pc[r] \notin {"new", "done", "lost"}}

(* The process is killed with its requests.                                *)
Kill ==
    /\ Crash
    /\ pc' = [r \in Requests |-> IF r \in InProcess THEN "lost" ELSE pc[r]]
    /\ late' = late \cup {r \in Writers : pc[r] = "store"}
    /\ UNCHANGED <<storeVars, wiring, req, err, page, sent, wrote>>

InStore(r) ==
    \/ ListMessages(r) \/ SearchMessages(r) \/ UpdateDone(r) \/ UpdateMissed(r)
    \/ DeleteNext(r) \/ DeleteDone(r) \/ StoreError(r)

RequestStep(r) ==
    \/ Handle(r) \/ InStore(r) \/ Reply(r)
    \/ RequestLogger(r) \/ ServeHTTP(r) \/ Recover(r)

NoCall == [op |-> "none"]

RequestsInit ==
    /\ StoreInit
    /\ StartupInit
    /\ wiring \in Wirings
    /\ pc = [r \in Requests |-> "new"]
    /\ req = [r \in Requests |-> NoCall]
    /\ err = [r \in Requests |-> NoError]
    /\ page = [r \in Requests |-> [shown |-> 0, more |-> FALSE]]
    /\ sent = [r \in Requests |-> <<>>]
    /\ wrote = {}
    /\ late = {}

RequestsNext ==
    \/ \E r \in Requests : Send(r) \/ RequestStep(r) \/ LateWrite(r)
    \/ Elsewhere \/ Process \/ Kill

(* Handlers run, every call of the database returns in the end, and so do  *)
(* the calls of the start-up.  Nothing is assumed of clients.              *)
RequestsSpec     == RequestsInit /\ [][RequestsNext]_apiVars
FairRequestsSpec ==
    /\ RequestsSpec
    /\ WF_apiVars(StartUp /\ UNCHANGED <<storeVars, requestVars>>)
    /\ \A r \in Requests : WF_apiVars(RequestStep(r))

-----------------------------------------------------------------------------
Statuses == {200, 204, 400, 401, 404, 422, 500, 503}
Codes    == {"INVALID_REQUEST", "UNAUTHORIZED", "NOT_FOUND", "INTERNAL_ERROR"}
Answer   == [status: Statuses, code: Codes \cup {""}]

(* The most messages on a page.                                            *)
MaxPage(q) == IF q.op = "search" THEN MaxSearch ELSE MaxList

(* The types of the requests' state, and the bounds on the work a request  *)
(* makes: the database is asked by a user, about a chat, to delete one to  *)
(* MaxDelete messages, for at most MaxList, or MaxSearch, of them, or to   *)
(* store a text that is not too long.                                      *)
RequestsTypeOK ==
    /\ wiring \in Wirings
    /\ pc \in [Requests -> {"new", "arrived", "store", "reply", "fail", "echo",
                            "panic", "done", "lost"}]
    /\ \A r \in Requests :
          /\ req[r] \in Calls \cup {NoCall}
          /\ req[r] = NoCall <=> pc[r] = "new"
          /\ sent[r] \in Seq(Answer)
          /\ page[r].shown \in 0..MaxPage(req[r])
          /\ pc[r] = "store" =>
                /\ VerifiedUser(req[r].token) \in UserIDs
                /\ req[r].chat \in ChatIDs
                /\ req[r].op = "delete" => Len(req[r].ids) \in 1..MaxDelete
                /\ req[r].op = "update" => req[r].text \notin Oversized
    /\ wrote \cup late \subseteq Writers

(* A request is answered once: the error handler is called twice for every *)
(* error, and also for one that comes up after the answer was committed,   *)
(* and a panic is answered although it passes the logger by.               *)
AnsweredOnce ==
    \A r \in Requests :
        /\ Len(sent[r]) <= 1
        /\ pc[r] = "done" => sent[r] # <<>>

StatusOf(r) == sent[r][1].status

(* The answer tells what has become of the messages.  A request refused as *)
(* the client's fault (4xx) has changed nothing and never will, whatever   *)
(* its database call met; a successful update took place; after a          *)
(* successful deletion none of the messages is there, and no late update   *)
(* brings one back.  (Nothing follows from 5xx.)                           *)
AnswerTellsEffect ==
    \A r \in Requests : sent[r] # <<>> =>
        /\ StatusOf(r) \in 400..499 => r \notin wrote \cup late
        /\ StatusOf(r) = 204 /\ req[r].op = "update" => r \in wrote
        /\ StatusOf(r) = 204 /\ req[r].op = "delete" =>
              \A id \in Range(req[r].ids) \cap DOMAIN coll : coll[id].chat # req[r].chat

(* A page that announces another one shows something: a client that goes on*)
(* from the last message it was shown gets further with every page.        *)
MoreAfterSome == \A r \in Requests : page[r].more => page[r].shown > 0

(* Every request that arrives is answered, unless its process is killed:   *)
(* no failure, panic or concurrent change leaves a client waiting.         *)
RequestEnds ==
    \A r \in Requests : pc[r] = "arrived" ~> (sent[r] # <<>> \/ pc[r] = "lost")

(* jwt.go:37, "returns the user ID if the token is valid": a token that    *)
(* NewAccessToken made, and that is not stale, is let through.             *)
IssuedIsAccepted ==
    \A r \in Requests : \A u \in UserIDs :
        (pc[r] # "new" /\ req[r].bearer /\ req[r].token = NewAccessToken(u))
            => err[r].kind # "app"

=============================================================================
