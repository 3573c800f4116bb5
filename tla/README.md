# A TLA+ model of the message service

The service is a chat back end in Go. A client holds a WebSocket connection; a
message it sends is checked for membership, stored in MongoDB and published on a
global Redis channel; every instance of the service subscribes to that channel,
looks up the members of the message's chat and hands a delivery task to its hub,
which fans it out to the connections its members hold on that instance. An HTTP
API lists, searches, edits and deletes what was stored.

The modules model the parts as they are written. The repository says of itself
that the service does not work yet: `main.go` starts neither the hub nor the
subscriber, the whole does not compile (`ws.MessageUsecase` and the use case
disagree on `SaveMessage`), and `WSHandler` leaves fields of the client unset that
the pumps use: run as it is, `ReadPump` would panic in its first statement and `WritePump`
in its own, for want of a logger. The model supposes these connected and set, as the rest of the code
does, and is of the protocol between the parts that is then followed. What is wired
wrongly in the HTTP API is modelled both ways (below).

## Inventory

| part | state | operations | talks to |
|---|---|---|---|
| Hub (`ws/hub.go`) | map user -> set of clients; the `Send` channels it closes | receive Register, Unregister, Deliver; stop | handlers (unbuffered channels), writers (buffered `Send`), subscriber |
| Session (`ws/client.go`, `WSHandler`) | two goroutines and one connection per client | accept, register, read, check, save, publish, unregister; take, write, ping; close | hub, membership cache, store, Redis, peer |
| Subscriber (`redis_pub_sub/pub_sub.go`) | the message in hand | receive, look up members, deliver, stop | Redis, chat service, hub |
| Membership cache (`cache_usecase.go`, `cache.go`) | otter cache chat -> set of users | IsUserInChat | chat service; called by every ReadPump |
| Message store (`message_usecase.go`, `message_repo.go`) | the collection | save, list, search, update, delete | MongoDB; called by sessions and HTTP |
| HTTP requests (`message_handlers.go`, `app.go`, `router.go`) | per request: its call, error and answer | bind, check, call the store, answer, recover | authentication, store, error handler, clients |
| Authentication (`auth.go`, `jwt.go`) | none | issue, verify, let through | every HTTP request |
| Error handler (`error_handler.go`) | none of its own; the committed response | answer an error | called by the logger, by echo and by Recover |
| Process (`main.go`, `app.Run`, `configs.go`, `connection.go`, `repo.go`) | main goroutine, server goroutine, the index in the database | load, connect, ensure indexes, launch, serve, be killed and restarted | MongoDB, Docker, every request |
| Logging, request ids | none | - | - |

What is hard: a delivery in progress while clients come, go, stall and are
dropped; three goroutines (handler, writer, hub) that each may notice the end of a
connection first; shutdown while others are blocked in a rendezvous; a message that
crosses six queues and must stay in order; callers of different users that share a
cache entry and a load; readers that page while writers change what they read;
database calls that are reported to have failed and take effect all the same, during
the request, after it, or after the process that made it; errors that are answered
on three ways through the middleware; a start that fails half way and is repeated.

What makes each part correct:

- hub: the registry indexes exactly the open connections; no send on or close of a
  closed channel; a live connection misses nothing; no client blocks the hub;
- session: it keeps the hub's contract; a peer sees a gap-free prefix; both
  goroutines end; a returned handler leaves nothing in the hub;
- subscriber: each publication is handed over at most once, in order, and nothing
  gets stuck; it ends when told to;
- cache: nobody admitted on another's answer, an answer about oneself is the chat
  service's, nobody left waiting, no member denied;
- store: paging shows what was there all along exactly once, in one order; a message
  stays its author's through the edits and deletes of several users;
- requests: one answer each; the answer tells the truth about what was written;
  nothing unchecked or oversized reaches the database;
- authentication: what the service issues it accepts;
- process: it serves only over an indexed collection; a start comes to an end; the
  cache keeps entries for as long as was configured.

## Modules

| module | models | built on |
|---|---|---|
| `Hub` | the hub's goroutine against any clients that keep its contract | - |
| `HubProofs` | theorems about `HubSpec` | `Hub` |
| `Session` | the handlers, their pumps and connections, running against the hub | `Hub` |
| `SessionProofs` | theorems about `Spec` of `Session` | `Session`, `HubProofs` |
| `ChatService` | the Redis subscriber, other instances, membership changes | `Session`; implements `FanOut` |
| `ChatServiceProofs` | theorems about `ChatSpec` | `ChatService`, `SessionProofs` |
| `FanOut` | *abstract*: what peers are promised | - |
| `MembershipCache` | IsUserInChat over a loading cache | - |
| `MembershipCacheProofs` | theorems about `CacheSpec` | `MembershipCache` |
| `MessageStore` | use cases and collection, readers paging | implements `Collection` |
| `MessageStoreProofs` | theorems about `StoreSpec`: the refinement, and paging | `MessageStore` |
| `Collection` | *abstract*: what users of the messages are promised | - |
| `PromisesProofs` | what every implementation of `FanOut` and of `Collection` keeps | `FanOut`, `Collection` |
| `Startup` | the process, from configuration to serving, killed and restarted | - |
| `StartupProofs` | theorems about `StartupSpec` | `Startup` |
| `ErrorHandler` | errors and the answers made of them | - |
| `Auth` | tokens, and the middleware that checks them | `ErrorHandler` |
| `Requests` | the HTTP API over store and process | `MessageStore`, `Startup`, `Auth` |
| `RequestsProofs` | theorems about `RequestsSpec` | `Requests`, `MessageStoreProofs`, `StartupProofs` |

`MCxxx` modules give the instances; a `.cfg` is one run. A definition commented
`Variant:` is a plausible mistake that the named property must reject.

### Hub

An unbuffered channel is a rendezvous, so `HubRegister(c)` is the hub's receive and
the handler's send in one step. A `Send` channel is its buffered contents (`send`)
and membership in `closed`. The loops of the `Deliver` case take one step per
iteration (`HubTarget` per user, `HubSend` or `HubDropSlow` per connection), so
readers interleave with a delivery. The map is a partial function `users`, so an
empty entry that is left behind shows. `HubNext` is also the contract: Register at
most once, Unregister only afterwards (late or twice), a payload delivered at most
once. `joined`, `accepted`, `offered` and `taken` are history.

### Session

One program counter per goroutine; every blocking operation is an action. `conn` is
"up" or "down": the library closes the socket when a write fails or times out, so a
WritePump that goes on after an error never writes again. Answers of the cache, the
store and Redis are open. The request's context is cancelled only when the handler
returns. `Session` composes its steps with those of `Hub` by conjunction
(`Register(c)` contains `HubRegister(c)`), and `KeepsHubContract` says that what the
hub then goes through is a behaviour of `HubSpec`. A frame that does not unmarshal is
no step, and a frame stands for the message it becomes.

A message is one thing and a publication of it another (`MessageOf`). `ReadPump` calls
`Publish` once for each message it has saved, but go-redis, with the options `main.go:40`
leaves at their defaults, sends PUBLISH again after an end of file or a timeout, which do
not say whether Redis has executed it. `RedisPublish(p)` is Redis executing one that was
sent: while the call runs, or when it has long returned (`sent`). So a message may be
published more than once, between the messages of others, and its peers see it as often.
Nothing in the service recognises the second; what is claimed is that each *publication*
goes its way at most once and in order.

### ChatService and FanOut

`AnyDelivery` of `Session` becomes the subscriber: `SubReceive`, `SubLookup`,
`SubDeliver`, `SubStop`. A publication enters `feed` or is lost (`Feed`).
`ImplementsSessions` is one refinement: with `feed` and the subscriber hidden, the
system is one of `Session`'s. The hub and the subscriber are given one context. The
look-up answers with each member once, in any order.

`FanOut` is the promise to the outside: messages are saved before they are published,
perhaps more than once, publications form one log, and a session is shown publications
of it, each further on than the last, while it is open. It knows of no hub, channel, pump
or subscriber. `ImplementsFanOut` is the second refinement; the log is `fed`, what a peer
has seen is its `wire`, and a session's place in the log is that of the last publication
on its wire. A publication may be passed over, because the implementation may lose it on the way: a
failed look-up, a user who is no member, a session that is dropped.

### MembershipCache

A `Get` that misses starts its caller's loader, or waits for the load of that key that
is under way; `Query` is the answer of the chat service, `Finish` the end of the load,
and in between membership may change. `Cached` and `Woken` are otter's part: that loads
of a key are shared and that a failed one leaves no entry is supposed, not shown, and the
mistakes the properties are tried on are mistakes of the loader (`Query`).
`entryFrom`, `loadFrom` and `answerFrom` remember the members of the chat at the time
of the query behind an entry, a load and an answer, `entryBy` and `answerBy` the user it
was about.

### MessageStore and Collection

The collection is a partial function from ids to messages. An id is a UUID: `Save`
draws any unused one, so the order of ids is unrelated to that of saving. Of a text it
matters what it is trimmed to (`Trimmed`), whether a search finds it (`Matching`) and, in
`Requests`, whether it is too long. `Contents` is what messages are saved with, `Texts`
what updates bring. `SaveMessage` does not look at the text: an empty one is stored like
any other (`Blank`), and only an edit never leaves one. MongoDB
changes one document at a time, so `Delete` removes one and a deletion of several is
several steps, with everything else in between. `Page` is a request answered: the
handler's limit, the use case's extra message, the repository's filter and sort. A
client goes on from the last id it was shown.

`Collection` is what users may rely on: an id stands for one message for ever, a
message stays in its chat and its author's, an edit is the author's, leaves a text and
brings nothing back. `ImplementsCollection` maps `writer`, the user whose content a message holds, to
`by`. It is checked of the store alone and again under `Requests`, where failures,
late writes and killed processes act on the same collection.

### Startup

`main` is the main goroutine's place, `server` the goroutine it starts, `indexed` the
state of the database, which outlives both. `Exit` ends the process wherever
`LoadConfig`, `ConnectMongoDB` or `EnsureIndexes` fails, `Crash` anywhere; `Boot` is
Docker's `restart: unless-stopped`. When `e.Start` fails only its goroutine ends and
main stays in `select {}`, so such a process is not restarted. A duration is eight
bytes, and `Times` is Go's product of two int64s, carries and all: the expiry the cache
is given is a product of three factors of which one is a minute too many.

### Auth, ErrorHandler

Both are operators. A token is a record of what there is to know of it: signed, stale,
and its claims. `VerifyAccessToken` returns errors of two libraries by name;
`AuthMiddleware` looks for two others, so every one of them is answered with 500.
`AfterError(sent, err)` is the error handler: nothing once something was sent.

### Requests

A request goes from "arrived" through its refusals to the store, and out with a reply,
an error or a panic. `Refusals(q)` lists the handler's checks in the order of the code,
each with its error; `Refusal` is the first that fails, the middleware's before all.
Limits are integers, negative ones included, and a list of ids may be missing (refused)
or empty, which a deletion answers with 204 and nothing done (`NothingToDelete`).
An error a handler returns is given to the error handler by `RequestLogger` and then by
echo (`ServeHTTP`); a panic passes the logger by and ends in `Recover`; `c.JSON` may
fail after its status is committed. `StoreError` is a database call that fails or times
out: what it was to write stays in `late` and may be written at any later time, or never
(`LateWrite`). `Kill` takes the process and its requests away, not their writes.

The API has two wirings, and the run covers both. `AsBuilt` is the repository's: the
middleware sets "userID" while handlers read "user_id", the tag `uiid` of two requests
is unknown to the validator, and the route of UpdateMessage lacks its parameters. With
it, deletion and search always panic, and an update is refused. `Intended` is the one
the handlers are written for, where everything behind these checks is reached. The
properties hold of both.

## Runs

| run | instance | shows |
|---|---|---|
| `hub` | 3 connections of 2 users, 2 payloads, capacity 1; tasks naming nobody, one, both, one twice | the hub's invariants, and that a delivery ends |
| `chat_resent` | 1 connection; a message of its own, published up to twice, and one of another instance: 3 publications; the hub and the subscriber may stop | prefix, order, cleanup; the system implements `FanOut` and `Session` |
| `session_stop` | 1 connection, 1 payload, no frames, fair | *violated*: after the hub stopped a handler never returns |
| `chat_pair` | 2 users with a connection each, 1 message | what is seen is stored; two sessions together keep the hub's contract |
| `chat_lone` | 1 connection, 1 local and 1 remote publication, fair | nothing stuck, sessions and the subscriber end, queued messages are written |
| `cache` | 2 callers of 2 users, 2 chats, changing membership | no borrowed admission; an answer about oneself is the chat service's; everybody answered |
| `cache_member_denied` | the same, fixed membership, 1 chat | *violated*: a member is denied |
| `store` | 3 messages, 2 users, 2 chats, 2 types, found and empty texts, and one that trims to nothing; pages of 1 | paging; the store implements `Collection` |
| `store_second_page` | 3 messages, listing | *violated*: the page announced is refused |
| `requests` | 1 request of 27 kinds, 2 messages, 2 users, both wirings, texts to find, empty, of spaces and too long, pages of 1, deletions of at most 2, the process killed and restarted at any time, fair | one true answer; the collection as promised; indexed; requests and starts end |
| `token_accepted` | the same | *violated*: a good token of the service's own is refused |
| `cache_expiry` | configured expiries of 1 and 5 minutes | *violated*: the cache gets another one |

The largest are `chat_resent` with 770756 distinct states, `chat_pair` with 712916, `store`
with 329444, `requests` with 320710 and `cache` with 238176.

Why the bounds are enough. Capacity 1 makes a buffer full after one message, so two
payloads reach every case of a full, drained and refilled channel, and a writer holding
one message while another is buffered; `chat_resent` has three publications, so that there
is one to follow a message that was not taken, and so that the two of one message may be
next to each other, or have one of another message between them. One repetition stands
for go-redis's three: a message sent again is any publication more. Sessions share nothing but the hub: what several do
to it is in `hub`, given that each keeps its contract. Two connections of one user are what the inner
loop of a delivery needs to drop one and go on with the other, a second user what the
outer one needs; a task naming a user twice visits a set it has just emptied. In the
cache a load is shared by two callers or by none, and two chats tell keys apart. Three
messages and pages of one give a first, a middle and a last page with saves and deletes
on either side of the anchor. Both users appear in `store` alike and in no property by
name, so it takes them to be symmetric.

In `requests` one request is enough because requests share nothing but the collection
and the process: what any number of others, and of sessions and other instances, do to
the collection is `Elsewhere`, which may save, edit and delete at every step, and the
process is shared with the server itself. The calls in `MCCalls` hold one for every
refusal of every handler and of the middleware, and for each operation one that is
accepted. A deletion of both messages may fail, or lose its process, half way, and one
that names them in three ids exceeds its limit. Two messages are what a page of one with
another to follow takes, and what a page with one too many takes: the limits of listing
and search, 100 and 50 in the code, are 1.

No run but `store` uses symmetry. Deadlock is not checked: peers may all leave, the hub may be stopped,
a request is answered and the finite supply of payloads and ids runs out, so every
system here may rightly stop.

Findings, each with the run that shows it:

1. `client.go:67`, `message_handlers.go:177`: the rendezvous with a stopped hub blocks
   handlers for ever (`session_stop`). The subscriber ignores its context in the same
   place (`pub_sub.go:92`); `SubscriberEnds` says that this is the one way it is stuck.
2. `cache_usecase.go:79`: the entry of a chat holds one user only, so other members are
   denied for as long as the entry is used (`cache_member_denied`).
3. `message_repo.go:76`: the anchor of a listing is parsed as an ObjectID
   (`store_second_page`).
4. `jwt.go:46`: the claim that is written is not the claim that is read, and the error
   is not among those the middleware answers with 401 (`token_accepted`).
5. `cache.go:21`: a duration times a duration overflows 64 bits (`cache_expiry`).

Observed while reading:

- in the model, as part of the wiring `AsBuilt`: "userID" and "user_id" (`auth.go`,
  `message_handlers.go`), the tag `uiid`, at which the validator panics, and the route of
  `UpdateMessage`, which has none of the parameters its request binds;
- a healthy client may lose its connection: `Ping` waits for a pong that only `ReadPump`'s
  next read would take in, and a save that lasts longer than the ping's ten seconds keeps
  `ReadPump` from reading (`client.go:264`, `client.go:154`). The model has it, as a ping
  that times out; it breaks nothing that is claimed, since a session may end at any time;
- a server that fails to start leaves `main` in `select {}` (`main.go:73`, `main.go:80`), with nothing
  to restart it. `StartEnds` counts that as an end;
- an empty text is saved and published (`client.go:154`, `message_usecase.go:55`), though an
  edit may not leave one;
- "new messages first" (`message_repo.go:85,142`) is not what an order of random ids
  gives; `PagingIsOrdered` says what order there is;
- `query:"anchor,ulid"` is the parameter's name to echo, comma included: a client that
  passes `anchor` gets the first page again. The model's clients use the literal name;
- two senders may save in one order and publish in the other, so that history and live
  view disagree;
- a save that timed out and is repeated by the client is a second message, as each call
  draws its own id, and a write that was given up may take effect after a repetition;
- `ConnectMongoDB` discards the `Auth` options it has built, and no context gets a
  deadline, so a database call ends with MongoDB's own timeouts;
- the delete handler maps an access error its use case never returns, and deletion does
  not look at the author;
- the router names handlers that do not exist, and `JWTManager` returns another type
  than its interface asks for.

## Fairness

`FairHubSpec`: the hub's goroutine is scheduled while it can go on; nothing is assumed of
readers. `FairSpec`: every goroutine runs unless blocked; the network, cache, store and
Redis answer every call in the end (a call may also fail); a rendezvous or channel receive
inside a Go `select` is strongly fair, because a select chooses at random among its ready
cases and the hub returns to its select after every task. No fairness is assumed of peers,
of `Accept`, of reading a frame, of the ticker, of a shutdown. `ChatFairness` adds the
subscriber's steps; deliveries compete in the hub's select, hence strong fairness.
`FairCacheSpec`: a load proceeds and the chat service answers or fails.
`FairRequestsSpec`: handlers run, and the calls a request or a start makes return in the
end, with or without an error; nothing is assumed of clients, of late writes, of other
writers, of Docker or of what kills the process. `StartEnds` therefore counts a process
that ended, restarted or not.

## Proofs

`HubProofs` proves, for all users, connections, payloads, task lists and capacities
(from `HubAssumption` alone): `HubTyped`, `RegistryIsExact`, `HubNeverPanics` and
`ChannelsCarry`.

`RegistryExact` is not inductive: a connection that registers must not be closed already,
so `OnlyJoined` says that only joined connections are closed or hold anything. Nor is
`NeverSendOnClosed`: an Unregister received inside a delivery would close a connection
still to be visited, so `TaskInHand` ties `pending` to the control state. Their
conjunction with the types is `HubInv`; one lemma per action shows it is preserved
(`RemoveConnExact` carries the two that delete), and `HubInvariance` follows.
`ChannelsCarryOffered` is inductive relative to `HubInv`: a new target appends the same
payload to what was offered and to what is owed (`TargetCarried`), a send moves it from
owed to handed (`SendCarried`), a receive moves the head of one queue to the end of the
other (`MoveHead`), and a drop only removes the obligation (`DropSlowCarried`).

`SessionProofs` first proves the contract, `SessionsKeepHubContract`, from the handlers'
program counters (`HandlersInv`): the hub knows a connection exactly when its handler is
past the rendezvous. What `HubProofs` says of `HubSpec` then holds of the hub the sessions
run against, and the rest uses it. `NothingLeftBehind`: a connection that is not in the
registry when its Unregister is received has been dropped before, since the registry is
exact (`UnregisteredIsDead`), and only a registration brings one to life (`LiveShrinks`).
`SessionTyped` needs `PumpsInv`, what a pump has in hand at which place. `PeersSeePrefix`
needs `WireFollows`: while the connection is up, the wire and the message in the writer's
hand are what it has received; once it is down nothing is written. With
`ChannelsCarryOffered`, what was received is a prefix of what was offered.

`ChatServiceProofs` proves of the whole path, for all users, connections, messages, other
instances and membership, with any loss:

- `ChatImplementsSessions`, and with it `ServiceKeepsSessions`: all that is proved of
  `Session` holds behind Redis and the subscriber. `Session` delivers a payload once, so
  the step to match is `SubDeliver`, and it needs that a publication is in one place of
  three: `QueueInv` says that the feed is the last part of `fed`, the subscriber's hand the
  one before, and that what the hub has accepted is older. That no two publications in `fed`
  are the same is `SourceInv`: each is somebody else's, or one that Redis has made of a message
  that was stored before its PUBLISH was first sent. The two are proved together.
- `SeenWasStored`: what is on a wire was offered (`WireIsPrefix`), what is offered was
  accepted and so fed, and the message of what was fed was stored.
- `SeenInOrder`: a publication may pass from the feed to a peer only in the order of the feed.
  `OrderInv` has it for what a connection is offered; it is inductive only with what is said
  of the delivery in progress (`TaskIsLast`): its message is the newest accepted, its users
  are distinct, and those it still has to visit were not offered it.
- `ChatImplementsFanOut`: the initial states agree, and a step of the service saves, publishes,
  shows, opens, closes, or does nothing the promise knows of. The hard one is a frame
  written to a peer (`WritePromise`): its place in the log must be past the last one shown,
  which is `SeenInOrder` before and after the step.

`PromisesProofs` proves two theorems of the abstract specifications, which hold of whatever
implements them. `FanOutKeepsOrder`: the log has no publication twice, so that one further on
in it comes after all that a session was shown. `CollectionKeepsAuthors`: each message says what its own
author wrote, under an id drawn for it (`CollectionInv` is inductive by itself).

`MembershipCacheProofs` proves `CacheTyped`, `CacheAdmitsMembers` and `CacheOwnQueryDecides`.
`AdmittedWasMember` speaks of answers only; `FromMembers` carries the same along the way
from the query to the load, to the entry and to the answer. `OwnQueryDecides` takes the
same way (`OwnAgree`): a load of a user, and the entry it leaves, hold him exactly if he
was a member when the chat service was asked.

`StartupProofs` proves `ServesOnlyIndexed` for every configuration. `ServesIndexed` says
nothing about how the server came to serve; `StartupInv` adds that there is a server
goroutine only while main is in its select, and that main gets there only past
`EnsureIndexes`. That no step unsets `indexed` is part of the induction.

`StartupTyped` adds the types. What takes a proof is that an expiry is an int64: `Times` is
given by two recursions over the places, and a function defined by recursion is a `CHOOSE`
of which nothing is known until a solution is shown to exist. Places are eight, so the
solution is written down (`FollowsExists`), and the carries and sums are integers.

`MessageStoreProofs` proves that the store implements its promise
(`StoreImplementsCollection`): `CollInv` ties `writer` to the documents and the drawn ids,
and each of save, update and delete is then a step of `Collection`. It proves paging of a
collection of any size and any limit. `PagesOrdered` and `PagesComplete` rest on `PagingInv`:
a reader's anchor is the last id it was shown, and each message that has answered its query
all along has been shown or lies below the anchor. A page keeps this because `LastOf` is what
it claims to be (`LastOfIs`): of a finite set of ids the last n, in order, exist. That takes
an induction over finite sets, done by hand: of the sets without such an order one is
smallest, and it has one (`Enumerable`). The set of messages is finite at all times, though the
supply of ids need not be.

`RequestsProofs` proves of the HTTP API, for all calls, wirings, limits and any number of
requests:

- `RequestsImplementCollection`, with the writes of requests, late ones included, reduced to
  those of the store; `RequestsServedIndexed` and `RequestsStartTyped`, from `StartupProofs`;
- `RequestsAnsweredOnce`, from the number of answers at each place of the middleware
  (`AnswersInv`);
- `RequestsTellEffect`, from what a request's place, its error and its late writes say about
  what it has written (`EffectsInv`);
- `RequestsTyped` and `RequestsMoreAfterSome`, from `WorkInv`: in the store a request has
  passed every check of its operation (`NotRefused`, `Accepted`), its error is one that
  the handlers, the middleware and the binder give (`RefusalIs`), and its page is within its
  limit.

Every invariant, action property and refinement that a passing run checks is thus a theorem.
Only model-checked is liveness: `HubNeverBlocks`, `FedIsSeen`, `SessionEnds`,
`QueuedIsWritten`, `SubscriberEnds`, `IsAnswered`, `RequestEnds` and `StartEnds` rest on
fairness, whose ENABLED the prover does not treat. Nor is it proved that `Times` multiplies:
the theorem is that it returns an int64, and `cache_expiry` shows which.

## Not modelled

Logging, the request-id middleware and its context helpers: they keep no state and
nothing depends on them. Messages of errors, bodies of answers and fields that are passed
through; the cryptography of tokens; CORS. More than one chat in `ChatService` (a task
carries its targets, so chats do not interact there); the sizes of Redis and otter buffers
(loss and eviction may happen at any time instead); timers as durations (a timeout may
happen whenever its operation is pending). Of the configuration, only the expiry: the rest
is passed on as it is. Chat and user entities are used by nothing.

## Plan

No safety property is left without a theorem. Still worth proving:

1. what liveness rests on and fairness does not: in which states of `Session` and of
   `ChatService` a goroutine is blocked, as invariants (a handler waits for the hub only
   in a rendezvous, the hub never waits for a handler);
2. that `Times` is multiplication modulo 2^64, which would make the finding about the
   expiry a statement about every configuration;
3. the answers of `Auth` and `ErrorHandler` as lemmas of their own, for all errors.
