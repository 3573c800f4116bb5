---------------------------- MODULE ChatService ----------------------------
(***************************************************************************)
(* One instance of the service for one chat: the sessions of module        *)
(* Session, and the Redis subscriber of redis_pub_sub/pub_sub.go that turns*)
(* publications on the global channel into delivery tasks for the hub.     *)
(*                                                                         *)
(* Redis hands a publication on at most once and in order: "feed" is what  *)
(* has reached the subscriber's Go channel, and a publication either enters*)
(* it or is lost (no subscription yet, a reconnection, a full channel).    *)
(* That a PUBLISH sent again makes two publications of one message is      *)
(* RedisPublish of Session, and the same at other instances.  The          *)
(* membership the subscriber looks up belongs to another service and       *)
(* changes at any time.  The subscriber and the hub share one context.     *)
(***************************************************************************)
EXTENDS Session

VARIABLES
    feed,        \* publications waiting in pubsub.Channel()
    subPc,       \* subscriber goroutine: "select", "lookup", "deliver", "stopped"
    subMsg,      \* the publication in hand
    subTargets,  \* the members looked up for it
    members,     \* users in the chat, as the chat service has them
    remote,      \* history: publications of other instances
    fed,         \* history: everything that ever entered feed, in order
    skipped      \* history: publications whose lookup failed

subVars   == <<subPc, subMsg, subTargets, skipped>>
chatVars  == <<users, send, closed, hubPc, targets, pending, payload, ctxDone,
               joined, accepted, offered, taken,
               rpc, wpc, conn, inflight, wire, frame, framed, stored, sent, published,
               feed, subPc, subMsg, subTargets, members, remote, fed, skipped>>

Elems(s) == {s[i] : i \in DOMAIN s}

-----------------------------------------------------------------------------
(* Redis makes a publication, and the subscription may or may not get it.  *)
Feed(p) ==
    \/ feed' = Append(feed, p) /\ fed' = Append(fed, p)
    \/ UNCHANGED <<feed, fed>>

(* A step of the sessions, and of Redis with what ReadPump sends it.       *)
SessionStep ==
    /\ Sessions
    /\ \/ published' = published /\ UNCHANGED <<feed, fed>>
       \/ \E p \in published' \ published : Feed(p)
    /\ UNCHANGED <<subVars, members, remote>>

(* Redis makes a publication of another instance's message.                *)
RemotePublish ==
    /\ \E p \in Payloads \ remote :
          /\ MessageOf[p] \notin Frames
          /\ remote' = remote \cup {p}
          /\ feed' = Append(feed, p)
          /\ fed' = Append(fed, p)
    /\ UNCHANGED <<vars, subVars, members>>

(* The chat service adds or removes a member.                              *)
ChangeMembers ==
    /\ \E u \in UserIDs :
          members' = IF u \in members THEN members \ {u} ELSE members \cup {u}
    /\ UNCHANGED <<vars, feed, fed, subVars, remote>>

-----------------------------------------------------------------------------
\* Variant: the loop ranges over the channel, and looks at the context only
\* when a publication has arrived.
SubStopOnNext ==
    /\ subPc = "select" /\ ctxDone /\ feed # <<>>
    /\ subPc' = "stopped"
    /\ UNCHANGED <<vars, feed, fed, subMsg, subTargets, skipped, members, remote>>

\* Variant: the publication is looked at and not consumed.
SubReceivePeeking ==
    /\ subPc = "select" /\ feed # <<>>
    /\ subPc' = "lookup"
    /\ subMsg' = Head(feed)
    /\ UNCHANGED <<vars, feed, fed, subTargets, skipped, members, remote>>

\* Variant: the newest publication is taken first.
SubReceiveNewest ==
    /\ subPc = "select" /\ feed # <<>>
    /\ subPc' = "lookup"
    /\ subMsg' = Last(feed)
    /\ feed' = Front(feed)
    /\ UNCHANGED <<vars, fed, subTargets, skipped, members, remote>>

\* Variant: the receive does not wait, and nothing is taken for something.
SubReceiveNothing ==
    /\ subPc = "select"
    /\ subPc' = "lookup"
    /\ subMsg' = IF feed = <<>> THEN None ELSE Head(feed)
    /\ feed' = IF feed = <<>> THEN <<>> ELSE Tail(feed)
    /\ UNCHANGED <<vars, fed, subTargets, skipped, members, remote>>

(* case msg := <-ch.  What does not unmarshal is skipped and changes       *)
(* nothing.                                                                *)
SubReceive ==
    /\ subPc = "select" /\ feed # <<>>
    /\ subPc' = "lookup"
    /\ subMsg' = Head(feed)
    /\ feed' = Tail(feed)
    /\ UNCHANGED <<vars, fed, subTargets, skipped, members, remote>>

\* Variant: an error of the lookup ends the loop.
SubLookupReturning ==
    /\ subPc = "lookup"
    /\ \/ /\ subPc' = "deliver"
          /\ \E list \in TargetLists :
                IsInjective(list) /\ Elems(list) = members /\ subTargets' = list
          /\ UNCHANGED <<subMsg, skipped>>
       \/ /\ subPc' = "stopped"
          /\ skipped' = skipped \cup {subMsg}
          /\ subMsg' = None
          /\ UNCHANGED subTargets
    /\ UNCHANGED <<vars, feed, fed, members, remote>>

(* ChatUserIDs answers with the members, each once and in any order, or    *)
(* with an error, which drops the publication.                             *)
SubLookup ==
    /\ subPc = "lookup"
    /\ \/ /\ subPc' = "deliver"
          /\ \E list \in TargetLists :
                IsInjective(list) /\ Elems(list) = members /\ subTargets' = list
          /\ UNCHANGED <<subMsg, skipped>>
       \/ /\ subPc' = "select"
          /\ skipped' = skipped \cup {subMsg}
          /\ subMsg' = None
          /\ UNCHANGED subTargets
    /\ UNCHANGED <<vars, feed, fed, members, remote>>

(* hub.Deliver <- task, received by the hub.                               *)
SubDeliver ==
    /\ subPc = "deliver"
    /\ HubDeliver(subMsg, subTargets)
    /\ subPc' = "select"
    /\ subMsg' = None
    /\ subTargets' = <<>>
    /\ UNCHANGED <<sessionVars, feed, fed, skipped, members, remote>>

(* case <-ctx.Done()                                                       *)
SubStop ==
    /\ subPc = "select" /\ ctxDone
    /\ subPc' = "stopped"
    /\ UNCHANGED <<vars, feed, fed, subMsg, subTargets, skipped, members, remote>>

HubStep == HubAlone /\ UNCHANGED <<feed, fed, subVars, members, remote>>

-----------------------------------------------------------------------------
ChatInit ==
    /\ Init
    /\ feed = <<>>
    /\ subPc = "select"
    /\ subMsg = None
    /\ subTargets = <<>>
    /\ members = UserIDs
    /\ remote = {}
    /\ fed = <<>>
    /\ skipped = {}

ChatNext ==
    \/ SessionStep \/ HubStep
    \/ RemotePublish \/ ChangeMembers
    \/ SubReceive \/ SubLookup \/ SubDeliver \/ SubStop

(* The sessions' and the hub's fairness as in Session; the subscriber's    *)
(* goroutine runs, its lookups are answered, and the hub's select does not *)
(* pass its task over for ever.                                            *)
ChatFairness ==
    /\ Fairness
    /\ WF_chatVars(SubReceive) /\ WF_chatVars(SubLookup) /\ SF_chatVars(SubDeliver)
    /\ WF_chatVars(SubStop)

ChatSpec     == ChatInit /\ [][ChatNext]_chatVars
FairChatSpec == ChatSpec /\ ChatFairness

-----------------------------------------------------------------------------
(* The types of the subscriber's state.                                    *)
ChatTypeOK ==
    /\ feed \in Seq(Payloads) /\ fed \in Seq(Payloads)
    /\ subPc \in {"select", "lookup", "deliver", "stopped"}
    /\ subMsg \in (IF subPc \in {"lookup", "deliver"} THEN Payloads ELSE {None})
    /\ subTargets \in TargetLists \cup {<<>>}
    /\ members \subseteq UserIDs
    /\ remote \subseteq {p \in Payloads : MessageOf[p] \notin Frames}
    /\ skipped \subseteq Payloads

(* The subscriber is one of the deliverers module Session allows: whatever *)
(* Redis, the lookups and the shutdown do, no publication is handed to the *)
(* hub a second time, and the sessions and the hub see nothing but steps   *)
(* of Spec.                                                                *)
ImplementsSessions == Spec

(* Place in the feed of the last publication a peer has seen.              *)
Reached(c) ==
    IF wire[c] = <<>> THEN 0
    ELSE CHOOSE i \in DOMAIN fed : fed[i] = Last(wire[c])

(* The promise to the peers, with the queues, goroutines and Redis hidden; *)
(* other instances publish only what they have saved.                      *)
Promise == INSTANCE FanOut WITH
    Peers        <- Clients,
    Publications <- Payloads,
    Own          <- Frames,
    saved        <- stored \cup (Messages \ Frames),
    log          <- fed,
    state        <- [c \in Clients |-> IF rpc[c] = "request" THEN "new"
                                       ELSE IF conn[c] = "up" THEN "open" ELSE "gone"],
    seen         <- wire,
    at           <- [c \in Clients |-> Reached(c)]

(* Every step of the sessions, the hub, the subscriber and Redis is one    *)
(* the promise allows, or is not visible to peers: no race of slow clients,*)
(* drops, write errors, failing saves, lost and repeated publications, and *)
(* shutdown shows a peer a publication out of order, a second time, of an  *)
(* unsaved message, or after it has gone.                                  *)
ImplementsFanOut == Promise!FanOutSpec

(* A message that reaches any peer was saved first: no order of the save,  *)
(* the publication and the fan-out, and no error of the store, lets a peer *)
(* see a message the history will not show.                                *)
SeenIsStored ==
    \A c \in Clients : \A p \in Elems(wire[c]) :
        MessageOf[p] \in Frames => MessageOf[p] \in stored

PositionFed(p) == CHOOSE i \in DOMAIN fed : fed[i] = p

(* Every peer sees the publications it gets in the order in which Redis    *)
(* gave them to this instance, and none of them again, so two peers never  *)
(* disagree on an order, and a message is shown again only at a place where*)
(* Redis was made to publish it again.                                     *)
SeenInFeedOrder ==
    \A c \in Clients : \A i, j \in DOMAIN wire[c] :
        i < j => PositionFed(wire[c][i]) < PositionFed(wire[c][j])

(* Every publication that reaches this instance is shown to each of its    *)
(* live connections whose user is a member, or that connection goes down,  *)
(* its user leaves, the lookup fails, or the service is being stopped: no  *)
(* mixture of slow clients, pings and failing lookups leaves a publication *)
(* stuck.                                                                  *)
FedIsSeen ==
    \A c \in Clients, p \in Payloads :
        (p \in Elems(feed) /\ c \in Live /\ UserOf[c] \in members)
            ~> \/ p \in Elems(wire[c])
               \/ conn[c] = "down" \/ UserOf[c] \notin members
               \/ p \in skipped \/ ctxDone

(* pub_sub.go:57-62, a cancelled subscriber shuts down, unless it holds a  *)
(* task that the hub, which shares its context and ended before it, will   *)
(* never take (pub_sub.go:92): nothing else, no backlog of publications, no*)
(* failing lookup and no delivery in progress, keeps it from ending.       *)
SubscriberEnds ==
    ctxDone ~> (subPc = "stopped" \/ (subPc = "deliver" /\ hubPc = "stopped"))

=============================================================================
