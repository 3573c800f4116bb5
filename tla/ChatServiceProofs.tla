------------------------- MODULE ChatServiceProofs -------------------------
(***************************************************************************)
(* What one instance of the service guarantees for any users, connections, *)
(* messages, other instances and membership, whatever Redis loses, which   *)
(* lookups fail and when it is stopped: the sessions see no more of the    *)
(* subscriber than module Session allows, what peers see is stored and in  *)
(* the order of the feed, and the whole keeps the promise of FanOut.       *)
(***************************************************************************)
EXTENDS ChatService, SessionProofs

(* Publications the subscriber has received, and those it has finished     *)
(* with: all but the one in hand.                                          *)
InHand    == subPc \in {"lookup", "deliver"}
Consumed  == Len(fed) - Len(feed)
Delivered == IF InHand THEN Consumed - 1 ELSE Consumed

(* A publication is in the feed, in the subscriber's hand, or at most in   *)
(* the hub, and in this order of age.                                      *)
QueueInv ==
    /\ Len(feed) <= Len(fed)
    /\ \A i \in DOMAIN feed : feed[i] = fed[Consumed + i]
    /\ InHand => Consumed >= 1 /\ subMsg = fed[Consumed]
    /\ \A m \in accepted : \E i \in 1..Delivered : fed[i] = m
    /\ subPc = "deliver" => subTargets \in TargetLists /\ IsInjective(subTargets)

(* No publication enters the feed twice.  Every one is of another instance,*)
(* or of a message that a ReadPump stored before it first sent it.         *)
SourceInv ==
    /\ \A i, j \in DOMAIN fed : fed[i] = fed[j] => i = j
    /\ \A i \in DOMAIN fed : fed[i] \in remote \cup published
    /\ \A p \in published : MessageOf[p] \in stored
    /\ sent \subseteq stored
    /\ \A c \in Clients : rpc[c] = "publish" => frame[c] \in stored

(* What a connection is offered is in the order of the feed; the task in   *)
(* the hub's hand is the last it has accepted, and its users are still to  *)
(* be offered it.                                                          *)
OfferedInOrder(c) ==
    /\ \A j \in DOMAIN offered[c] : offered[c][j] \in accepted
    /\ \A j, k \in DOMAIN offered[c] : j < k =>
          \A p, q \in DOMAIN fed : fed[p] = offered[c][j] /\ fed[q] = offered[c][k] => p < q

TaskIsLast ==
    hubPc = "deliver" =>
        /\ payload \in accepted
        /\ \A p, q \in DOMAIN fed : fed[p] \in accepted /\ fed[q] = payload => p <= q
        /\ IsInjective(targets)
        /\ \A c \in Clients : \A k \in DOMAIN targets : UserOf[c] = targets[k] =>
              \A j \in DOMAIN offered[c] : offered[c][j] # payload

OrderInv == TaskIsLast /\ \A c \in Clients : OfferedInOrder(c)

-----------------------------------------------------------------------------
(* What the steps of the sessions and of the hub leave alone.              *)

LEMMA SessionKeepsTask ==
    ASSUME Sessions
    PROVE  UNCHANGED <<hubPc, targets, payload, accepted, offered>>
<1> SUFFICES ASSUME NEW c \in Clients, Handler(c) \/ Writer(c) \/ PeerGone(c)
             PROVE  UNCHANGED <<hubPc, targets, payload, accepted, offered>>
    BY DEF Sessions, RedisPublish, hubVars
<1>1. CASE Register(c)
    BY <1>1 DEF Register, HubRegister, task
<1>2. CASE Unregister(c)
    BY <1>2 DEF Unregister, HubUnregister, task, history
<1>3. CASE WriterTake(c)
    BY <1>3 DEF WriterTake, Take, task
<1>4. CASE LocalStep(c)
    BY <1>4 DEF LocalStep, Accept, StartPumps, ReadFrame, ReadFail, CheckMember, Save,
                Publish, CloseReader, hubVars
<1>5. CASE LocalWrite(c) \/ PeerGone(c)
    BY <1>5 DEF LocalWrite, WriterClosed, WriterCtxDone, WriterTick, Write, Ping,
                CloseWriter, PeerGone, hubVars
<1>6. QED
    BY <1>1, <1>2, <1>3, <1>4, <1>5 DEF Handler, Writer, LocalStep, LocalWrite

(* No step of the handlers and pumps makes Redis publish.                  *)
LEMMA OnlyRedis ==
    ASSUME NEW c \in Clients, Handler(c) \/ Writer(c) \/ PeerGone(c)
    PROVE  published' = published
<1>1. CASE Handler(c)
    BY <1>1 DEF Handler, Accept, Register, StartPumps, ReadFrame, ReadFail, CheckMember,
                BackToRead, Save, Publish, Unregister, CloseReader, readVars
<1>2. CASE Writer(c) \/ PeerGone(c)
    BY <1>2 DEF Writer, WriterTake, WriterClosed, WriterCtxDone, WriterTick, Write, Ping,
                CloseWriter, PeerGone, readVars
<1>3. QED
    BY <1>1, <1>2

(* A step of the sessions is that of one of them, with nothing fed, or is  *)
(* Redis's, with its publication fed or lost.                              *)
LEMMA SessionFeeds ==
    ASSUME SessionStep
    PROVE  /\ UNCHANGED <<subPc, subMsg, subTargets, skipped, members, remote>>
           /\ \/ /\ \E c \in Clients : Handler(c) \/ Writer(c) \/ PeerGone(c)
                 /\ UNCHANGED <<feed, fed>>
              \/ \E p \in Payloads :
                    /\ RedisPublish(p)
                    /\ \/ UNCHANGED <<feed, fed>>
                       \/ feed' = Append(feed, p) /\ fed' = Append(fed, p)
<1>1. CASE \E c \in Clients : Handler(c) \/ Writer(c) \/ PeerGone(c)
    <2>1. published' = published
        BY <1>1, OnlyRedis
    <2>2. QED
        BY <1>1, <2>1 DEF SessionStep, subVars
<1>2. CASE \E p \in Payloads : RedisPublish(p)
    <2>1. PICK p \in Payloads : RedisPublish(p)
        BY <1>2
    <2>2. published' \ published = {p}
        BY <2>1 DEF RedisPublish
    <2>3. UNCHANGED <<feed, fed>> \/ Feed(p)
        BY <2>2 DEF SessionStep
    <2>4. QED
        BY <2>1, <2>3 DEF Feed, SessionStep, subVars
<1>3. QED
    BY <1>1, <1>2 DEF SessionStep, Sessions

LEMMA HubAloneKeeps ==
    ASSUME HubStep
    PROVE  /\ UNCHANGED <<sessionVars, feed, fed, subVars, members, remote>>
           /\ accepted' = accepted
<1>1. accepted' = accepted
    BY DEF HubStep, HubAlone, HubIterate, HubTarget, HubTaskDone, HubSend, HubDropSlow,
           HubStop, Cancel, history
<1>2. QED
    BY <1>1 DEF HubStep, HubAlone

-----------------------------------------------------------------------------
(* Types.                                                                  *)

LEMMA ChatTypeInit == ChatInit => ChatTypeOK
<1>1. <<>> \in Seq(Payloads)
    BY EmptySeq
<1>2. QED
    BY <1>1 DEF ChatInit, ChatTypeOK

LEMMA FedTyped ==
    ASSUME ChatTypeOK, NEW m \in Payloads,
           feed' = Append(feed, m), fed' = Append(fed, m)
    PROVE  feed' \in Seq(Payloads) /\ fed' \in Seq(Payloads)
BY AppendProperties DEF ChatTypeOK

LEMMA ChatTypeStep ==
    ASSUME SessionInv, ChatTypeOK, [ChatNext]_chatVars
    PROVE  ChatTypeOK'
<1>1. CASE SessionStep
    BY <1>1, SessionFeeds, FedTyped DEF ChatTypeOK
<1>2. CASE HubStep
    BY <1>2, HubAloneKeeps DEF ChatTypeOK, subVars
<1>3. CASE RemotePublish
    BY <1>3, FedTyped DEF RemotePublish, ChatTypeOK, subVars
<1>4. CASE ChangeMembers
    BY <1>4 DEF ChangeMembers, ChatTypeOK, subVars
<1>5. CASE SubReceive
    <2>1. Head(feed) \in Payloads /\ Tail(feed) \in Seq(Payloads)
        BY <1>5, HeadTailProperties DEF SubReceive, ChatTypeOK
    <2>2. QED
        BY <1>5, <2>1 DEF SubReceive, ChatTypeOK
<1>6. CASE SubLookup
    BY <1>6 DEF SubLookup, ChatTypeOK
<1>7. CASE SubDeliver
    BY <1>7 DEF SubDeliver, ChatTypeOK
<1>8. CASE SubStop
    BY <1>8 DEF SubStop, ChatTypeOK
<1>9. CASE UNCHANGED chatVars
    BY <1>9 DEF chatVars, ChatTypeOK
<1>10. QED
    BY <1>1, <1>2, <1>3, <1>4, <1>5, <1>6, <1>7, <1>8, <1>9 DEF ChatNext

-----------------------------------------------------------------------------
(* The way of a publication through the queues.                            *)

LEMMA QueueInit == ChatInit => QueueInv
<1> SUFFICES ASSUME ChatInit PROVE QueueInv
    OBVIOUS
<1>1. /\ feed = <<>> /\ fed = <<>> /\ accepted = {} /\ subPc = "select"
      /\ Len(<<>>) = 0 /\ DOMAIN <<>> = {}
    BY DEF ChatInit, Init, HubInit
<1>2. QED
    BY <1>1 DEF QueueInv, InHand, Consumed, Delivered

(* The feed grows at its end, and every place before it stays.             *)
LEMMA FedQueue ==
    ASSUME ChatTypeOK, QueueInv, NEW m \in Payloads,
           feed' = Append(feed, m), fed' = Append(fed, m),
           UNCHANGED <<subPc, subMsg, subTargets, accepted>>
    PROVE  QueueInv'
<1>1. /\ Len(feed) \in Nat /\ Len(fed) \in Nat
      /\ Len(feed') = Len(feed) + 1 /\ Len(fed') = Len(fed) + 1
      /\ DOMAIN feed = 1..Len(feed) /\ DOMAIN feed' = 1..(Len(feed) + 1)
      /\ \A i \in 1..Len(feed) : feed'[i] = feed[i]
      /\ \A i \in 1..Len(fed) : fed'[i] = fed[i]
      /\ feed'[Len(feed) + 1] = m /\ fed'[Len(fed) + 1] = m
    BY AppendProperties, LenProperties DEF ChatTypeOK
<1>2. Consumed' = Consumed /\ Delivered' = Delivered /\ InHand' = InHand
    BY <1>1 DEF Consumed, Delivered, InHand
<1>3. Consumed \in 0..Len(fed) /\ Delivered <= Len(fed)
    BY <1>1 DEF Consumed, Delivered, QueueInv
<1>4. ASSUME NEW i \in DOMAIN feed' PROVE feed'[i] = fed'[Consumed + i]
    <2>1. CASE i \in 1..Len(feed)
        BY <1>1, <2>1 DEF QueueInv, Consumed
    <2>2. CASE i = Len(feed) + 1
        <3>1. Consumed + i = Len(fed) + 1
            BY <1>1, <2>2 DEF Consumed
        <3>2. QED
            BY <1>1, <2>2, <3>1
    <2>3. i \in 1..Len(feed) \/ i = Len(feed) + 1
        BY <1>1
    <2>4. QED
        BY <2>1, <2>2, <2>3
<1>5. ASSUME NEW x \in accepted PROVE \E i \in 1..Delivered : fed'[i] = x
    <2>1. PICK i \in 1..Delivered : fed[i] = x
        BY DEF QueueInv
    <2>2. i \in 1..Len(fed)
        BY <1>1, <1>3, <2>1 DEF Delivered, Consumed
    <2>3. QED
        BY <1>1, <2>1, <2>2
<1>6. InHand => Consumed >= 1 /\ subMsg = fed'[Consumed]
    BY <1>1, <1>3 DEF QueueInv
<1>7. Len(feed') <= Len(fed')
    BY <1>1 DEF QueueInv
<1>8. subPc' = "deliver" => subTargets' \in TargetLists /\ IsInjective(subTargets')
    BY DEF QueueInv
<1>9. QED
    BY <1>2, <1>4, <1>5, <1>6, <1>7, <1>8 DEF QueueInv

LEMMA QuietQueue ==
    ASSUME QueueInv, UNCHANGED <<feed, fed, subPc, subMsg, subTargets, accepted>>
    PROVE  QueueInv'
BY DEF QueueInv, InHand, Consumed, Delivered

LEMMA ReceiveQueue ==
    ASSUME ChatTypeOK, QueueInv, SubReceive
    PROVE  QueueInv'
<1>1. /\ feed # <<>> /\ subPc = "select" /\ subPc' = "lookup"
      /\ subMsg' = Head(feed) /\ feed' = Tail(feed) /\ fed' = fed
      /\ subTargets' = subTargets /\ accepted' = accepted
    BY DEF SubReceive, vars
<1>2. /\ Len(feed) \in Nat \ {0} /\ Len(fed) \in Nat
      /\ Len(feed') = Len(feed) - 1 /\ DOMAIN feed = 1..Len(feed)
      /\ DOMAIN feed' = 1..(Len(feed) - 1)
      /\ Head(feed) = feed[1]
      /\ \A i \in DOMAIN feed' : feed'[i] = feed[i + 1]
    BY <1>1, HeadTailProperties, LenProperties, EmptySeq DEF ChatTypeOK
<1>3. Consumed' = Consumed + 1 /\ Consumed \in Nat /\ Delivered' = Delivered
    BY <1>1, <1>2 DEF Consumed, Delivered, InHand, QueueInv
<1>4. ASSUME NEW i \in DOMAIN feed' PROVE feed'[i] = fed[Consumed' + i]
    <2>1. i + 1 \in DOMAIN feed /\ feed'[i] = feed[i + 1]
        BY <1>2
    <2>2. feed[i + 1] = fed[Consumed + (i + 1)]
        BY <2>1 DEF QueueInv
    <2>3. Consumed + (i + 1) = Consumed' + i
        BY <1>2, <1>3
    <2>4. QED
        BY <2>1, <2>2, <2>3
<1>5. subMsg' = fed[Consumed']
    BY <1>1, <1>2, <1>3 DEF QueueInv
<1>6. QED
    BY <1>1, <1>2, <1>3, <1>4, <1>5 DEF QueueInv, InHand

LEMMA LookupQueue ==
    ASSUME ChatTypeOK, QueueInv, SubLookup
    PROVE  QueueInv'
<1>1. /\ subPc = "lookup" /\ UNCHANGED <<feed, fed, accepted>>
      /\ \/ /\ subPc' = "deliver" /\ subMsg' = subMsg
            /\ subTargets' \in TargetLists /\ IsInjective(subTargets')
         \/ subPc' = "select"
    BY DEF SubLookup, vars
<1>2. Len(feed) \in Nat /\ Len(fed) \in Nat
    BY LenProperties DEF ChatTypeOK
<1>3. Consumed' = Consumed /\ Consumed \in Nat /\ Delivered <= Delivered'
    BY <1>1, <1>2 DEF Consumed, Delivered, InHand, QueueInv
<1>4. Delivered \in Int /\ Delivered' \in Int
    BY <1>1, <1>2 DEF Delivered, Consumed, InHand
<1>5. \A m \in accepted : \E i \in 1..Delivered' : fed[i] = m
    BY <1>3, <1>4 DEF QueueInv
<1>6. QED
    BY <1>1, <1>3, <1>5 DEF QueueInv, InHand

LEMMA DeliverQueue ==
    ASSUME ChatTypeOK, QueueInv, SubDeliver
    PROVE  QueueInv'
<1>1. /\ subPc = "deliver" /\ subPc' = "select" /\ UNCHANGED <<feed, fed>>
      /\ accepted' = accepted \cup {subMsg}
    BY DEF SubDeliver, HubDeliver
<1>2. Len(feed) \in Nat /\ Len(fed) \in Nat
    BY LenProperties DEF ChatTypeOK
<1>3. /\ Consumed' = Consumed /\ Consumed \in Nat \ {0}
      /\ Delivered = Consumed - 1 /\ Delivered' = Consumed
    BY <1>1, <1>2 DEF Consumed, Delivered, InHand, QueueInv
<1>4. \A m \in accepted' : \E i \in 1..Consumed : fed[i] = m
    <2>1. fed[Consumed] = subMsg /\ Consumed \in 1..Consumed
        BY <1>1, <1>3 DEF QueueInv, InHand
    <2>2. \A m \in accepted : \E i \in 1..Consumed : fed[i] = m
        BY <1>3 DEF QueueInv
    <2>3. QED
        BY <1>1, <2>1, <2>2
<1>5. QED
    BY <1>1, <1>3, <1>4 DEF QueueInv, InHand

LEMMA QueueStep ==
    ASSUME SessionInv, ChatTypeOK, QueueInv, [ChatNext]_chatVars
    PROVE  QueueInv'
<1>1. CASE SessionStep
    <2>1. accepted' = accepted
        BY <1>1, SessionKeepsTask DEF SessionStep
    <2>2. QED
        BY <1>1, <2>1, SessionFeeds, FedQueue, QuietQueue
<1>2. CASE HubStep
    BY <1>2, HubAloneKeeps, QuietQueue DEF subVars
<1>3. CASE RemotePublish
    BY <1>3, FedQueue DEF RemotePublish, subVars, vars
<1>4. CASE ChangeMembers \/ UNCHANGED chatVars
    BY <1>4, QuietQueue DEF ChangeMembers, subVars, vars, chatVars
<1>5. CASE SubStop
    BY <1>5 DEF SubStop, vars, QueueInv, InHand, Consumed, Delivered
<1>6. QED
    BY <1>1, <1>2, <1>3, <1>4, <1>5, ReceiveQueue, LookupQueue, DeliverQueue DEF ChatNext

-----------------------------------------------------------------------------
(* The origin of a publication.                                            *)

LEMMA SourceInit == ChatInit => SourceInv
<1> SUFFICES ASSUME ChatInit PROVE SourceInv
    OBVIOUS
<1>1. /\ fed = <<>> /\ DOMAIN <<>> = {} /\ sent = {} /\ published = {}
      /\ \A c \in Clients : rpc[c] = "request"
    BY DEF ChatInit, Init, SessionInit
<1>2. QED
    BY <1>1 DEF SourceInv

(* Frames in hand may be dropped, stored and sent, and nothing is fed.     *)
LEMMA QuietSource ==
    ASSUME SourceInv, fed' = fed, stored \subseteq stored',
           remote \subseteq remote', published' = published,
           sent' \subseteq stored',
           \A c \in Clients : rpc'[c] = "publish" => frame'[c] \in stored'
    PROVE  SourceInv'
BY DEF SourceInv

(* A new publication, by Redis here or elsewhere, is fed or lost.          *)
LEMMA FedSource ==
    ASSUME ChatTypeOK, SourceInv, NEW p \in Payloads,
           p \notin remote \cup published, p \in remote' \cup published',
           remote \subseteq remote', published \subseteq published',
           \A q \in published' : MessageOf[q] \in stored,
           fed' \in {fed, Append(fed, p)}, UNCHANGED <<rpc, frame, stored, sent>>
    PROVE  SourceInv'
<1>1. CASE fed' = fed
    BY <1>1 DEF SourceInv
<1>2. CASE fed' = Append(fed, p)
    <2>1. /\ DOMAIN fed = 1..Len(fed) /\ DOMAIN fed' = 1..(Len(fed) + 1) /\ Len(fed) \in Nat
          /\ \A i \in 1..Len(fed) : fed'[i] = fed[i]
          /\ fed'[Len(fed) + 1] = p
        BY <1>2, AppendProperties, LenProperties DEF ChatTypeOK
    <2>2. \A i \in DOMAIN fed : fed[i] # p
        BY DEF SourceInv
    <2>3. \A i, j \in DOMAIN fed' : fed'[i] = fed'[j] => i = j
        BY <2>1, <2>2 DEF SourceInv
    <2>4. \A i \in DOMAIN fed' : fed'[i] \in remote' \cup published'
        BY <2>1 DEF SourceInv
    <2>5. QED
        BY <2>3, <2>4 DEF SourceInv
<1>3. QED
    BY <1>1, <1>2

LEMMA RedisSource ==
    ASSUME SessionInv, ChatTypeOK, SourceInv, NEW p \in Payloads, RedisPublish(p),
           fed' \in {fed, Append(fed, p)}, remote' = remote
    PROVE  SourceInv'
<1>1. /\ p \notin published /\ published' = published \cup {p}
      /\ UNCHANGED <<rpc, frame, stored, sent>>
    BY DEF RedisPublish
<1>2. MessageOf[p] \in stored
    BY DEF RedisPublish, SourceInv
<1>3. p \notin remote
    BY <1>2 DEF ChatTypeOK, SessionInv, SessionTypeOK
<1>4. \A q \in published' : MessageOf[q] \in stored
    BY <1>1, <1>2 DEF SourceInv
<1>5. QED
    BY <1>1, <1>3, <1>4, FedSource

(* What Redis is about to publish for a session is a message that is       *)
(* stored, in a publication that was not fed before.                       *)
LEMMA NotFedBefore ==
    ASSUME SessionInv, ChatTypeOK, SourceInv, NEW p \in Payloads, RedisPublish(p)
    PROVE  MessageOf[p] \in stored /\ \A i \in DOMAIN fed : fed[i] # p
<1>1. MessageOf[p] \in stored /\ p \notin published
    BY DEF RedisPublish, SourceInv
<1>2. p \notin remote
    BY <1>1 DEF ChatTypeOK, SessionInv, SessionTypeOK
<1>3. QED
    BY <1>1, <1>2 DEF SourceInv

LEMMA RemoteSource ==
    ASSUME SessionInv, ChatTypeOK, SourceInv, RemotePublish
    PROVE  SourceInv'
<1>1. PICK p \in Payloads \ remote :
          MessageOf[p] \notin Frames /\ remote' = remote \cup {p} /\ fed' = Append(fed, p)
    BY DEF RemotePublish
<1>2. UNCHANGED <<rpc, frame, stored, sent, published>>
    BY DEF RemotePublish, vars
<1>3. p \notin published
    BY <1>1 DEF SessionInv, SessionTypeOK
<1>4. \A q \in published' : MessageOf[q] \in stored
    BY <1>2 DEF SourceInv
<1>5. QED
    BY <1>1, <1>2, <1>3, <1>4, FedSource

LEMMA HandlerSource ==
    ASSUME SessionInv, SourceInv, NEW c \in Clients, Handler(c),
           fed' = fed, remote' = remote
    PROVE  SourceInv'
<1> USE DEF SessionInv, SessionTypeOK, ReaderGoes, readVars, SourceInv
<1>1. CASE \E m \in Frames \ framed : ReadFrame(c, m)
    BY <1>1, QuietSource DEF ReadFrame
<1>2. CASE CheckMember(c)
    BY <1>2, QuietSource DEF CheckMember, BackToRead
<1>3. CASE Save(c)
    BY <1>3, QuietSource DEF Save, BackToRead
<1>4. CASE Publish(c)
    BY <1>4, QuietSource DEF Publish, BackToRead
<1>5. CASE Accept(c) \/ Register(c) \/ StartPumps(c)
    BY <1>5, QuietSource DEF Accept, Register, StartPumps
<1>6. CASE ReadFail(c) \/ Unregister(c) \/ CloseReader(c)
    BY <1>6, QuietSource DEF ReadFail, Unregister, CloseReader
<1>7. QED
    BY <1>1, <1>2, <1>3, <1>4, <1>5, <1>6 DEF Handler

LEMMA SourceStep ==
    ASSUME SessionInv, ChatTypeOK, SourceInv, [ChatNext]_chatVars
    PROVE  SourceInv'
<1>1. ASSUME UNCHANGED <<rpc, readVars, fed, remote>> PROVE SourceInv'
    BY <1>1, QuietSource DEF readVars, SourceInv
<1>2. CASE SessionStep
    <2>1. ASSUME NEW c \in Clients, Writer(c) \/ PeerGone(c) PROVE UNCHANGED <<rpc, readVars>>
        BY <2>1 DEF Writer, WriterTake, WriterClosed, WriterCtxDone, WriterTick, Write,
                    Ping, CloseWriter, PeerGone
    <2>2. QED
        BY <1>1, <1>2, <2>1, SessionFeeds, HandlerSource, RedisSource
<1>3. CASE HubStep
    BY <1>1, <1>3, HubAloneKeeps DEF sessionVars, readVars
<1>4. CASE ChangeMembers \/ SubReceive \/ SubLookup \/ SubStop \/ UNCHANGED chatVars
    BY <1>1, <1>4 DEF ChangeMembers, SubReceive, SubLookup, SubStop, chatVars, vars, readVars
<1>5. CASE SubDeliver
    BY <1>1, <1>5 DEF SubDeliver, sessionVars, readVars
<1>6. QED
    BY <1>2, <1>3, <1>4, <1>5, RemoteSource DEF ChatNext

-----------------------------------------------------------------------------
(* The order in which publications are offered.                            *)

LEMMA OrderInit == ChatInit => OrderInv
<1> SUFFICES ASSUME ChatInit PROVE OrderInv
    OBVIOUS
<1>1. /\ hubPc = "select" /\ DOMAIN <<>> = {}
      /\ \A c \in Clients : offered[c] = <<>>
    BY DEF ChatInit, Init, HubInit
<1>2. QED
    BY <1>1 DEF OrderInv, TaskIsLast, OfferedInOrder

LEMMA QuietOrder ==
    ASSUME OrderInv, UNCHANGED <<fed, accepted, offered, payload, targets>>,
           hubPc' = "deliver" => hubPc = "deliver"
    PROVE  OrderInv'
BY DEF OrderInv, TaskIsLast, OfferedInOrder

(* What the hub has accepted, and offers, was fed long before.             *)
LEMMA FedOrder ==
    ASSUME ChatTypeOK, QueueInv, OrderInv, NEW m \in Payloads,
           \A i \in DOMAIN fed : fed[i] # m, fed' = Append(fed, m),
           UNCHANGED <<accepted, offered, payload, targets, hubPc>>
    PROVE  OrderInv'
<1>1. /\ DOMAIN fed = 1..Len(fed) /\ DOMAIN fed' = 1..(Len(fed) + 1) /\ Len(fed) \in Nat
      /\ \A i \in 1..Len(fed) : fed'[i] = fed[i]
      /\ fed'[Len(fed) + 1] = m
    BY AppendProperties, LenProperties DEF ChatTypeOK
<1>2. Delivered \in Int /\ Delivered <= Len(fed)
    BY <1>1, LenProperties DEF ChatTypeOK, QueueInv, Delivered, Consumed
<1>3. m \notin accepted
    BY <1>1, <1>2 DEF QueueInv
<1>4. \A p \in DOMAIN fed' : fed'[p] \in accepted => p \in DOMAIN fed /\ fed'[p] = fed[p]
    BY <1>1, <1>3
<1>5. TaskIsLast'
    BY <1>4 DEF OrderInv, TaskIsLast
<1>6. ASSUME NEW c \in Clients PROVE OfferedInOrder(c)'
    BY <1>4 DEF OrderInv, OfferedInOrder
<1>7. QED
    BY <1>5, <1>6 DEF OrderInv

(* The publication in the subscriber's hand comes after all it delivered.  *)
LEMMA InHandIsNewest ==
    ASSUME ChatTypeOK, QueueInv, SourceInv, subPc = "deliver"
    PROVE  /\ Consumed \in DOMAIN fed /\ fed[Consumed] = subMsg
           /\ \A p \in DOMAIN fed : fed[p] \in accepted => p < Consumed
           /\ subMsg \in Payloads \ accepted
<1>1. Len(fed) \in Nat /\ Len(feed) \in Nat /\ DOMAIN fed = 1..Len(fed)
    BY LenProperties DEF ChatTypeOK
<1>2. /\ Delivered = Consumed - 1 /\ Consumed \in 1..Len(fed)
      /\ fed[Consumed] = subMsg
    BY <1>1 DEF QueueInv, InHand, Delivered, Consumed
<1>3. \A m \in accepted : \E i \in 1..(Consumed - 1) : fed[i] = m
    BY <1>2 DEF QueueInv
<1>4. ASSUME NEW p \in DOMAIN fed, fed[p] \in accepted PROVE p < Consumed
    <2>1. PICK i \in 1..(Consumed - 1) : fed[i] = fed[p]
        BY <1>3, <1>4
    <2>2. i \in DOMAIN fed
        BY <1>1, <1>2
    <2>3. i = p
        BY <2>1, <2>2 DEF SourceInv
    <2>4. QED
        BY <1>2, <2>3
<1>5. subMsg \in Payloads
    BY DEF ChatTypeOK
<1>6. QED
    BY <1>1, <1>2, <1>4, <1>5

LEMMA DeliverOrder ==
    ASSUME ChatTypeOK, QueueInv, SourceInv, OrderInv, SubDeliver
    PROVE  OrderInv'
<1>1. /\ subPc = "deliver" /\ fed' = fed /\ offered' = offered /\ hubPc' = "deliver"
      /\ accepted' = accepted \cup {subMsg} /\ payload' = subMsg /\ targets' = subTargets
    BY DEF SubDeliver, HubDeliver
<1>2. Len(fed) \in Nat /\ DOMAIN fed = 1..Len(fed)
    BY LenProperties DEF ChatTypeOK
<1>3. Consumed \in 1..Len(fed) /\ fed[Consumed] = subMsg
    BY <1>1, <1>2, InHandIsNewest
<1>5. \A p \in DOMAIN fed : fed[p] \in accepted => p < Consumed
    BY <1>1, InHandIsNewest
<1>6. subMsg \notin accepted
    BY <1>1, InHandIsNewest
<1>7. ASSUME NEW p \in DOMAIN fed, NEW q \in DOMAIN fed,
             fed[p] \in accepted', fed[q] = subMsg
      PROVE  p <= q
    <2>1. q = Consumed
        BY <1>2, <1>3, <1>7 DEF SourceInv
    <2>2. p = Consumed \/ p < Consumed
        BY <1>1, <1>2, <1>3, <1>5, <1>7 DEF SourceInv
    <2>3. QED
        BY <1>2, <2>1, <2>2
<1>8. \A c \in Clients : \A j \in DOMAIN offered[c] : offered[c][j] # subMsg
    BY <1>6 DEF OrderInv, OfferedInOrder
<1>9. IsInjective(subTargets)
    BY <1>1 DEF QueueInv
<1>10. TaskIsLast'
    BY <1>1, <1>7, <1>8, <1>9 DEF TaskIsLast
<1>11. ASSUME NEW c \in Clients PROVE OfferedInOrder(c)'
    BY <1>1 DEF OrderInv, OfferedInOrder
<1>12. QED
    BY <1>10, <1>11 DEF OrderInv

(* A user's connections are offered the task after all they were offered   *)
(* before, and the user does not come again in the task.                   *)
LEMMA TargetOrder ==
    ASSUME HubInv, ChatTypeOK, OrderInv, HubTarget, fed' = fed
    PROVE  OrderInv'
<1>1. /\ hubPc = "deliver" /\ hubPc' = "deliver" /\ targets # <<>>
      /\ targets' = Tail(targets) /\ UNCHANGED <<accepted, payload>>
    BY DEF HubTarget
<1>2. /\ Len(targets) \in Nat \ {0} /\ DOMAIN targets = 1..Len(targets)
      /\ DOMAIN Tail(targets) = 1..(Len(targets) - 1)
      /\ Head(targets) = targets[1]
      /\ \A k \in 1..(Len(targets) - 1) : Tail(targets)[k] = targets[k + 1]
    BY <1>1, HeadTailProperties, LenProperties, EmptySeq DEF HubInv, HubTypeOK
<1>3. \A k \in 1..(Len(targets) - 1) :
          k + 1 \in 1..Len(targets) /\ 1 \in 1..Len(targets) /\ k + 1 # 1
    BY <1>2
<1>4. IsInjective(targets)
    BY <1>1 DEF OrderInv, TaskIsLast
<1>5. IsInjective(targets') /\ \A k \in DOMAIN targets' : targets'[k] # Head(targets)
    BY <1>1, <1>2, <1>3, <1>4 DEF IsInjective
<1>6. ASSUME NEW c \in Clients
      PROVE  \/ offered'[c] = offered[c]
             \/ UserOf[c] = Head(targets) /\ offered'[c] = Append(offered[c], payload)
    BY DEF HubTarget
<1>7. ASSUME NEW c \in Clients, offered'[c] = Append(offered[c], payload)
      PROVE  /\ DOMAIN offered[c] = 1..Len(offered[c])
             /\ DOMAIN offered'[c] = 1..(Len(offered[c]) + 1) /\ Len(offered[c]) \in Nat
             /\ \A j \in 1..Len(offered[c]) : offered'[c][j] = offered[c][j]
             /\ offered'[c][Len(offered[c]) + 1] = payload
    <2>1. offered[c] \in Seq(Payloads)
        BY DEF HubInv, HubTypeOK
    <2>2. payload \in Payloads
        BY <1>1 DEF HubInv, TaskInHand
    <2>3. QED
        BY <1>7, <2>1, <2>2, AppendProperties, LenProperties
<1>8. ASSUME NEW c \in Clients PROVE OfferedInOrder(c)'
    <2>1. CASE offered'[c] = offered[c]
        BY <1>1, <2>1 DEF OrderInv, OfferedInOrder
    <2>2. CASE UserOf[c] = Head(targets) /\ offered'[c] = Append(offered[c], payload)
        <3>1. \A j \in DOMAIN offered[c] : offered[c][j] \in accepted /\ offered[c][j] # payload
            <4>1. UserOf[c] = targets[1] /\ 1 \in DOMAIN targets
                BY <1>2, <2>2
            <4>2. QED
                BY <1>1, <4>1 DEF OrderInv, OfferedInOrder, TaskIsLast
        <3>2. payload \in accepted
            BY <1>1 DEF OrderInv, TaskIsLast
        <3>3. \A p, q \in DOMAIN fed : fed[p] \in accepted /\ fed[q] = payload => p <= q
            BY <1>1 DEF OrderInv, TaskIsLast
        <3>4. \A j \in DOMAIN offered'[c] : offered'[c][j] \in accepted
            BY <1>7, <2>2, <3>1, <3>2
        <3>5. ASSUME NEW j \in DOMAIN offered'[c], NEW k \in DOMAIN offered'[c], j < k,
                     NEW p \in DOMAIN fed, NEW q \in DOMAIN fed,
                     fed[p] = offered'[c][j], fed[q] = offered'[c][k]
              PROVE  p < q
            <4>1. j \in DOMAIN offered[c] /\ offered'[c][j] = offered[c][j]
                BY <1>7, <2>2, <3>5
            <4>2. CASE k \in DOMAIN offered[c]
                <5>1. offered'[c][k] = offered[c][k]
                    BY <1>7, <2>2, <4>2
                <5>2. QED
                    BY <3>5, <4>1, <4>2, <5>1 DEF OrderInv, OfferedInOrder
            <4>3. CASE offered'[c][k] = payload
                <5>1. p <= q /\ p # q
                    BY <3>1, <3>3, <3>5, <4>1, <4>3
                <5>2. p \in Int /\ q \in Int
                    BY DEF ChatTypeOK
                <5>3. QED
                    BY <5>1, <5>2
            <4>4. QED
                BY <1>7, <2>2, <4>2, <4>3
        <3>6. QED
            BY <1>1, <3>4, <3>5 DEF OfferedInOrder
    <2>3. QED
        BY <1>6, <2>1, <2>2
<1>9. ASSUME NEW c \in Clients, NEW k \in DOMAIN targets', UserOf[c] = targets'[k]
      PROVE  \A j \in DOMAIN offered'[c] : offered'[c][j] # payload
    <2>1. offered'[c] = offered[c]
        BY <1>5, <1>6, <1>9
    <2>2. UserOf[c] = targets[k + 1] /\ k + 1 \in DOMAIN targets
        BY <1>1, <1>2, <1>3, <1>9
    <2>3. QED
        BY <1>1, <2>1, <2>2 DEF OrderInv, TaskIsLast
<1>10. TaskIsLast'
    BY <1>1, <1>5, <1>9 DEF OrderInv, TaskIsLast
<1>11. QED
    BY <1>8, <1>10 DEF OrderInv

LEMMA HubStepOrder ==
    ASSUME HubInv, ChatTypeOK, OrderInv, HubStep
    PROVE  OrderInv'
<1>1. fed' = fed /\ accepted' = accepted
    BY HubAloneKeeps
<1>2. CASE HubTarget
    BY <1>1, <1>2, TargetOrder
<1>3. CASE HubTaskDone
    BY <1>1, <1>3 DEF HubTaskDone, history, OrderInv, TaskIsLast, OfferedInOrder
<1>4. CASE HubStop \/ Cancel \/ \E c \in Clients : HubSend(c) \/ HubDropSlow(c)
    BY <1>1, <1>4, QuietOrder DEF HubStop, Cancel, HubSend, HubDropSlow, history, task
<1>5. QED
    BY <1>2, <1>3, <1>4 DEF HubStep, HubAlone, HubIterate

LEMMA OrderStep ==
    ASSUME HubInv, SessionInv, ChatTypeOK, QueueInv, SourceInv, OrderInv, [ChatNext]_chatVars
    PROVE  OrderInv'
<1>1. CASE SessionStep
    <2>1. UNCHANGED <<hubPc, targets, payload, accepted, offered>>
        BY <1>1, SessionKeepsTask DEF SessionStep
    <2>2. ASSUME NEW p \in Payloads, RedisPublish(p)
          PROVE  \A i \in DOMAIN fed : fed[i] # p
        BY <2>2, NotFedBefore
    <2>3. QED
        BY <1>1, <2>1, <2>2, SessionFeeds, FedOrder, QuietOrder
<1>2. CASE RemotePublish
    <2>1. \A p \in Payloads \ remote :
              MessageOf[p] \notin Frames => \A i \in DOMAIN fed : fed[i] # p
        BY DEF SourceInv, SessionInv, SessionTypeOK
    <2>2. QED
        BY <1>2, <2>1, FedOrder DEF RemotePublish, vars
<1>3. CASE ChangeMembers \/ SubReceive \/ SubLookup \/ SubStop \/ UNCHANGED chatVars
    BY <1>3, QuietOrder DEF ChangeMembers, SubReceive, SubLookup, SubStop, vars, chatVars
<1>4. QED
    BY <1>1, <1>2, <1>3, HubStepOrder, DeliverOrder DEF ChatNext

-----------------------------------------------------------------------------
(* The invariant of the whole, and the sessions inside it.                 *)

ChatInv == BaseInv /\ ChatTypeOK /\ QueueInv /\ SourceInv /\ OrderInv

(* The subscriber delivers as any deliverer of module Session may.         *)
LEMMA StepOfSessions ==
    ASSUME ChatInv, [ChatNext]_chatVars
    PROVE  [Next]_vars
<1>1. CASE SessionStep \/ HubStep
    BY <1>1 DEF SessionStep, HubStep, Next
<1>2. CASE SubDeliver
    <2>1. subMsg \in Payloads \ accepted /\ subTargets \in TargetLists
        BY <1>2, InHandIsNewest DEF ChatInv, QueueInv, SubDeliver
    <2>2. QED
        BY <1>2, <2>1 DEF SubDeliver, Next, AnyDelivery
<1>3. CASE \/ RemotePublish \/ ChangeMembers \/ SubReceive \/ SubLookup \/ SubStop
           \/ UNCHANGED chatVars
    BY <1>3 DEF RemotePublish, ChangeMembers, SubReceive, SubLookup, SubStop, chatVars, vars
<1>4. QED
    BY <1>1, <1>2, <1>3 DEF ChatNext

LEMMA ChatInvInit == ChatInit => ChatInv
BY BaseInvInit, ChatTypeInit, QueueInit, SourceInit, OrderInit DEF ChatInit, ChatInv

LEMMA ChatInvStep == ChatInv /\ [ChatNext]_chatVars => ChatInv'
<1> SUFFICES ASSUME ChatInv, [ChatNext]_chatVars PROVE ChatInv'
    OBVIOUS
<1>1. BaseInv'
    BY StepOfSessions, BaseInvStep DEF ChatInv
<1>2. HubInv /\ SessionInv
    BY DEF ChatInv, BaseInv
<1>3. ChatTypeOK' /\ QueueInv' /\ SourceInv' /\ OrderInv'
    BY <1>2, ChatTypeStep, QueueStep, SourceStep, OrderStep DEF ChatInv
<1>4. QED
    BY <1>1, <1>3 DEF ChatInv

LEMMA ChatInvariance == ChatSpec => []ChatInv
BY ChatInvInit, ChatInvStep, PTL DEF ChatSpec

(* The subscriber's state keeps its types.                                 *)
THEOREM ChatTyped == ChatSpec => []ChatTypeOK
<1>1. ChatInv => ChatTypeOK
    BY DEF ChatInv
<1>2. QED
    BY <1>1, ChatInvariance, PTL

(* Whatever Redis loses, other instances publish, lookups answer and the   *)
(* shutdown interrupts, the sessions and the hub take steps of module      *)
(* Session and no others: no publication reaches the hub twice, so all     *)
(* that is proved of Spec holds of the service.                            *)
THEOREM ChatImplementsSessions == ChatSpec => ImplementsSessions
<1>1. ChatInit => Init
    BY DEF ChatInit
<1>2. ChatInv /\ [ChatNext]_chatVars => [Next]_vars
    BY StepOfSessions
<1>3. QED
    BY <1>1, <1>2, ChatInvariance, PTL DEF ChatSpec, ImplementsSessions, Spec

(* With Redis, lookups and the shutdown around them, the handlers still use*)
(* the hub as its contract says, nothing of a returned handler is left     *)
(* behind, and each peer reads a prefix of what its client was offered.    *)
THEOREM ServiceKeepsSessions ==
    ChatSpec => KeepsHubContract /\ [](ReturnedIsForgotten /\ WireIsPrefix)
BY ChatImplementsSessions, SessionsKeepHubContract, NothingLeftBehind, PeersSeePrefix, PTL
   DEF ImplementsSessions

-----------------------------------------------------------------------------
(* What peers see.                                                         *)

(* What a peer has seen was offered, at the same place.                    *)
LEMMA SeenWasOffered ==
    ASSUME BaseInv, NEW c \in Clients
    PROVE  /\ wire[c] \in Seq(Payloads) /\ Len(wire[c]) <= Len(offered[c])
           /\ \A j \in DOMAIN wire[c] :
                 j \in DOMAIN offered[c] /\ wire[c][j] = offered[c][j]
<1>1. wire[c] \in Seq(Payloads) /\ offered[c] \in Seq(Payloads)
    BY DEF BaseInv, HubInv, HubTypeOK, SessionInv, SessionTypeOK
<1>2. /\ Len(wire[c]) <= Len(offered[c])
      /\ SubSeq(wire[c], 1, Len(wire[c])) = SubSeq(offered[c], 1, Len(wire[c]))
    BY WireWasOffered DEF IsPrefix
<1>3. /\ Len(wire[c]) \in Nat /\ Len(offered[c]) \in Nat
      /\ DOMAIN wire[c] = 1..Len(wire[c]) /\ DOMAIN offered[c] = 1..Len(offered[c])
    BY <1>1, LenProperties
<1>4. ASSUME NEW j \in DOMAIN wire[c]
      PROVE  j \in DOMAIN offered[c] /\ wire[c][j] = offered[c][j]
    <2>1. j \in 1..Len(wire[c]) /\ j \in 1..Len(offered[c])
        BY <1>2, <1>3, <1>4
    <2>2. SubSeq(wire[c], 1, Len(wire[c]))[j] = wire[c][j]
        BY <1>1, <1>3, <2>1
    <2>3. SubSeq(offered[c], 1, Len(wire[c]))[j] = offered[c][j]
        BY <1>1, <1>2, <1>3, <2>1
    <2>4. QED
        BY <1>2, <1>3, <2>1, <2>2, <2>3
<1>5. QED
    BY <1>1, <1>2, <1>4

(* ... and fed.                                                            *)
LEMMA SeenWasFed ==
    ASSUME ChatInv, NEW c \in Clients, NEW j \in DOMAIN wire[c]
    PROVE  \E i \in DOMAIN fed : fed[i] = wire[c][j]
<1>1. wire[c][j] \in accepted
    BY SeenWasOffered DEF ChatInv, OrderInv, OfferedInOrder
<1>2. PICK i \in 1..Delivered : fed[i] = wire[c][j]
    BY <1>1 DEF ChatInv, QueueInv
<1>3. /\ Delivered <= Len(fed) /\ Delivered \in Int /\ Len(fed) \in Nat
      /\ DOMAIN fed = 1..Len(fed)
    BY LenProperties DEF ChatInv, ChatTypeOK, QueueInv, Delivered, Consumed
<1>4. QED
    BY <1>2, <1>3

(* A place in a sequence without repetitions is the only one of its value. *)
LEMMA PlaceIsUnique ==
    ASSUME NEW s, \A i, j \in DOMAIN s : s[i] = s[j] => i = j, NEW k \in DOMAIN s
    PROVE  (CHOOSE i \in DOMAIN s : s[i] = s[k]) = k
OBVIOUS

(* What every peer has been shown, in terms of the feed.                   *)
SeenInv ==
    /\ fed \in Seq(Payloads)
    /\ \A i, j \in DOMAIN fed : fed[i] = fed[j] => i = j
    /\ \A c \in Clients :
          /\ wire[c] \in Seq(Payloads)
          /\ \A j \in DOMAIN wire[c] : \E i \in DOMAIN fed : fed[i] = wire[c][j]
          /\ \A j, k \in DOMAIN wire[c] : j < k =>
                \A p, q \in DOMAIN fed : fed[p] = wire[c][j] /\ fed[q] = wire[c][k] => p < q

LEMMA SeenFollows == ChatInv => SeenInv
<1> SUFFICES ASSUME ChatInv PROVE SeenInv
    OBVIOUS
<1>1. fed \in Seq(Payloads) /\ \A i, j \in DOMAIN fed : fed[i] = fed[j] => i = j
    BY DEF ChatInv, ChatTypeOK, SourceInv
<1>2. ASSUME NEW c \in Clients
      PROVE  /\ wire[c] \in Seq(Payloads)
             /\ \A j, k \in DOMAIN wire[c] : j < k =>
                   \A p, q \in DOMAIN fed :
                      fed[p] = wire[c][j] /\ fed[q] = wire[c][k] => p < q
    BY SeenWasOffered DEF ChatInv, OrderInv, OfferedInOrder
<1>3. QED
    BY <1>1, <1>2, SeenWasFed DEF SeenInv

(* Whatever the order of saves, publications and errors, no peer is shown a*)
(* message of this instance that its history will not show.                *)
THEOREM SeenWasStored == ChatSpec => []SeenIsStored
<1>1. ChatInv => SeenIsStored
    <2> SUFFICES ASSUME ChatInv, NEW c \in Clients, NEW j \in DOMAIN wire[c],
                        MessageOf[wire[c][j]] \in Frames
                 PROVE  MessageOf[wire[c][j]] \in stored
        BY DEF SeenIsStored, Elems
    <2>1. PICK i \in DOMAIN fed : fed[i] = wire[c][j]
        BY SeenWasFed
    <2>2. fed[i] \in remote \cup published
        BY DEF ChatInv, SourceInv
    <2>3. fed[i] \notin remote
        BY <2>1 DEF ChatInv, ChatTypeOK
    <2>4. QED
        BY <2>1, <2>2, <2>3 DEF ChatInv, SourceInv
<1>2. QED
    BY <1>1, ChatInvariance, PTL

(* Every peer is shown the publications it gets in the order Redis gave    *)
(* them to the instance, none of them a second time, so no two peers       *)
(* disagree on an order; a message comes again only in a publication of its*)
(* own, which the feed has at the same place for all.                      *)
THEOREM SeenInOrder == ChatSpec => []SeenInFeedOrder
<1>1. SeenInv => SeenInFeedOrder
    <2> SUFFICES ASSUME SeenInv, NEW c \in Clients, NEW j \in DOMAIN wire[c],
                        NEW k \in DOMAIN wire[c], j < k
                 PROVE  PositionFed(wire[c][j]) < PositionFed(wire[c][k])
        BY DEF SeenInFeedOrder
    <2>1. PICK p \in DOMAIN fed, q \in DOMAIN fed :
              fed[p] = wire[c][j] /\ fed[q] = wire[c][k]
        BY DEF SeenInv
    <2>2. p < q
        BY <2>1 DEF SeenInv
    <2>3. PositionFed(wire[c][j]) = p
        BY <2>1, PlaceIsUnique DEF SeenInv, PositionFed
    <2>4. PositionFed(wire[c][k]) = q
        BY <2>1, PlaceIsUnique DEF SeenInv, PositionFed
    <2>5. QED
        BY <2>2, <2>3, <2>4
<1>2. QED
    BY <1>1, SeenFollows, ChatInvariance, PTL

-----------------------------------------------------------------------------
(* The promise to the peers, step by step.                                 *)

PeerState(c) ==
    IF rpc[c] = "request" THEN "new" ELSE IF conn[c] = "up" THEN "open" ELSE "gone"

(* The place of a peer in the feed moves only when it is shown something.  *)
LEMMA PlaceKept ==
    ASSUME SeenInv, SeenInv', NEW c \in Clients, wire'[c] = wire[c],
           \A i \in DOMAIN fed : i \in DOMAIN fed' /\ fed'[i] = fed[i]
    PROVE  Reached(c)' = Reached(c)
<1>1. CASE wire[c] = <<>>
    BY <1>1 DEF Reached
<1>2. CASE wire[c] # <<>>
    <2>1. Len(wire[c]) \in DOMAIN wire[c]
        BY <1>2, EmptySeq, LenProperties DEF SeenInv
    <2>2. PICK p \in DOMAIN fed : fed[p] = Last(wire[c])
        BY <2>1 DEF SeenInv, Last
    <2>3. Reached(c) = p
        BY <1>2, <2>2, PlaceIsUnique DEF SeenInv, Reached
    <2>4. p \in DOMAIN fed' /\ fed'[p] = Last(wire'[c])
        BY <2>2
    <2>5. Reached(c)' = p
        BY <1>2, <2>4, PlaceIsUnique DEF SeenInv, Reached
    <2>6. QED
        BY <2>3, <2>5
<1>3. QED
    BY <1>1, <1>2

(* A step in which no peer is shown anything, and nothing is fed, is one of*)
(* the promise when at most one session moves on, or a message is saved.   *)
LEMMA QuietPromise ==
    ASSUME SeenInv, SeenInv', UNCHANGED <<fed, wire>>,
           \/ /\ stored' = stored
              /\ \A d \in Clients : PeerState(d)' = PeerState(d)
           \/ /\ \E m \in Messages : stored' = stored \cup {m}
              /\ \A d \in Clients : PeerState(d)' = PeerState(d)
           \/ /\ stored' = stored
              /\ \E c \in Clients :
                    /\ \A d \in Clients \ {c} : PeerState(d)' = PeerState(d)
                    /\ \/ PeerState(c) = "new" /\ PeerState(c)' = "open"
                       \/ PeerState(c) \in {"new", "open"} /\ PeerState(c)' = "gone"
    PROVE  [Promise!FanOutNext]_(Promise!fanOutVars)
<1> DEFINE state == [c \in Clients |-> IF rpc[c] = "request" THEN "new"
                                       ELSE IF conn[c] = "up" THEN "open" ELSE "gone"]
           at    == [c \in Clients |-> Reached(c)]
           saved == stored \cup (Messages \ Frames)
<1>1. at' = at
    BY PlaceKept
<1>2. \A c \in Clients : state[c] = PeerState(c) /\ state'[c] = PeerState(c)'
    BY DEF PeerState
<1>3. CASE stored' = stored /\ \A d \in Clients : PeerState(d)' = PeerState(d)
    <2>1. state' = state
        BY <1>3 DEF PeerState
    <2>2. QED
        BY <1>1, <1>3, <2>1 DEF Promise!fanOutVars
<1>4. ASSUME NEW m \in Messages, stored' = stored \cup {m},
             \A d \in Clients : PeerState(d)' = PeerState(d)
      PROVE  Promise!FanOutNext
    <2>1. state' = state
        BY <1>4 DEF PeerState
    <2>2. saved' = saved \cup {m}
        BY <1>4
    <2>3. Promise!SaveMessage(m)
        BY <1>1, <2>1, <2>2 DEF Promise!SaveMessage
    <2>4. QED
        BY <2>3 DEF Promise!FanOutNext
<1>5. ASSUME NEW c \in Clients, stored' = stored,
             \A d \in Clients \ {c} : PeerState(d)' = PeerState(d),
             \/ PeerState(c) = "new" /\ PeerState(c)' = "open"
             \/ PeerState(c) \in {"new", "open"} /\ PeerState(c)' = "gone"
      PROVE  Promise!FanOutNext
    <2>1. state' = [state EXCEPT ![c] = PeerState(c)']
        BY <1>5 DEF PeerState
    <2>2. saved' = saved
        BY <1>5
    <2>3. \/ Promise!Move(c, {"new"}, "open")
          \/ Promise!Move(c, {"new", "open"}, "gone")
        BY <1>1, <1>2, <1>5, <2>1, <2>2 DEF Promise!Move
    <2>4. QED
        BY <2>3 DEF Promise!FanOutNext
<1>6. QED
    BY <1>3, <1>4, <1>5

(* What is fed carries a message that was saved, and was not fed before.   *)
LEMMA FedPromise ==
    ASSUME SeenInv, SeenInv', NEW p \in Payloads,
           MessageOf[p] \in stored \cup (Messages \ Frames),
           \A i \in DOMAIN fed : fed[i] # p, fed' = Append(fed, p),
           UNCHANGED <<wire, stored>>, \A d \in Clients : PeerState(d)' = PeerState(d)
    PROVE  Promise!FanOutNext
<1> DEFINE state == [c \in Clients |-> IF rpc[c] = "request" THEN "new"
                                       ELSE IF conn[c] = "up" THEN "open" ELSE "gone"]
           at    == [c \in Clients |-> Reached(c)]
<1>1. \A i \in DOMAIN fed : i \in DOMAIN fed' /\ fed'[i] = fed[i]
    BY AppendProperties, LenProperties DEF SeenInv
<1>2. at' = at
    BY <1>1, PlaceKept
<1>3. state' = state
    BY DEF PeerState
<1>4. Promise!PublishMessage(p)
    BY <1>2, <1>3 DEF Promise!PublishMessage
<1>5. QED
    BY <1>4 DEF Promise!FanOutNext

(* A write that succeeds shows the peer what is further on in the feed.    *)
LEMMA WritePromise ==
    ASSUME SeenInv, SeenInv', NEW c \in Clients, NEW m, PeerState(c) = "open",
           wire \in [Clients -> Seq(Payloads)], m \in Payloads,
           wire' = [wire EXCEPT ![c] = Append(wire[c], m)],
           UNCHANGED <<fed, stored>>, \A d \in Clients : PeerState(d)' = PeerState(d)
    PROVE  Promise!FanOutNext
<1> DEFINE state == [d \in Clients |-> IF rpc[d] = "request" THEN "new"
                                       ELSE IF conn[d] = "up" THEN "open" ELSE "gone"]
           at    == [d \in Clients |-> Reached(d)]
           len   == Len(wire[c])
<1>1. /\ wire'[c] = Append(wire[c], m) /\ len \in Nat /\ DOMAIN wire[c] = 1..len
      /\ Len(wire'[c]) = len + 1 /\ DOMAIN wire'[c] = 1..(len + 1)
      /\ \A j \in 1..len : wire'[c][j] = wire[c][j]
      /\ wire'[c][len + 1] = m
    BY AppendProperties, LenProperties DEF SeenInv
<1>2. PICK i \in DOMAIN fed : fed[i] = m
    BY <1>1 DEF SeenInv
<1>3. wire'[c] # <<>> /\ Last(wire'[c]) = m
    BY <1>1 DEF Last
<1>4. Reached(c)' = i
    BY <1>2, <1>3, PlaceIsUnique DEF SeenInv, Reached
<1>5. i > Reached(c)
    <2>1. CASE wire[c] = <<>>
        BY <2>1 DEF Reached, SeenInv
    <2>2. CASE wire[c] # <<>>
        <3>1. len \in 1..len /\ len \in 1..(len + 1) /\ len + 1 \in 1..(len + 1) /\ len < len + 1
            BY <1>1, <2>2, EmptySeq DEF SeenInv
        <3>2. PICK p \in DOMAIN fed : fed[p] = wire[c][len]
            BY <1>1, <3>1 DEF SeenInv
        <3>3. Reached(c) = p
            BY <2>2, <3>2, PlaceIsUnique DEF SeenInv, Reached, Last
        <3>4. p < i
            <4>1. /\ len \in DOMAIN wire'[c] /\ len + 1 \in DOMAIN wire'[c]
                  /\ p \in DOMAIN fed' /\ i \in DOMAIN fed'
                  /\ fed'[p] = wire'[c][len] /\ fed'[i] = wire'[c][len + 1]
                BY <1>1, <1>2, <3>1, <3>2
            <4>2. \A j, k \in DOMAIN wire'[c] : j < k =>
                      \A a, b \in DOMAIN fed' :
                         fed'[a] = wire'[c][j] /\ fed'[b] = wire'[c][k] => a < b
                BY DEF SeenInv
            <4>3. QED
                BY <3>1, <4>1, <4>2
        <3>5. QED
            BY <3>3, <3>4 DEF SeenInv
    <2>3. QED
        BY <2>1, <2>2
<1>6. \A d \in Clients \ {c} : Reached(d)' = Reached(d)
    BY PlaceKept
<1>7. at' = [at EXCEPT ![c] = i]
    BY <1>4, <1>6
<1>8. state' = state /\ state[c] = "open"
    BY DEF PeerState
<1>9. at[c] = Reached(c)
    OBVIOUS
<1>10. wire' = [wire EXCEPT ![c] = Append(@, fed[i])]
    BY <1>2
<1> HIDE DEF at, state
<1>11. Promise!ShowMessage(c)
    BY <1>2, <1>5, <1>7, <1>8, <1>9, <1>10 DEF Promise!ShowMessage, at, state
<1>12. QED
    BY <1>11 DEF Promise!FanOutNext

(* A connection that goes down, when it was up, is a session that has gone.*)
LEMMA DownPromise ==
    ASSUME SeenInv, SeenInv', conn \in [Clients -> {"up", "down"}],
           NEW c \in Clients, ConnBecomes(c, "down"),
           \A d \in Clients : rpc'[d] = "request" <=> rpc[d] = "request",
           UNCHANGED <<fed, wire, stored>>
    PROVE  [Promise!FanOutNext]_(Promise!fanOutVars)
<1>1. conn'[c] = "down" /\ \A d \in Clients \ {c} : conn'[d] = conn[d]
    BY DEF ConnBecomes
<1>2. \A d \in Clients \ {c} : PeerState(d)' = PeerState(d)
    BY <1>1 DEF PeerState
<1>3. CASE PeerState(c) = "open"
    <2>1. PeerState(c)' = "gone"
        BY <1>1, <1>3 DEF PeerState
    <2>2. QED
        BY <1>2, <1>3, <2>1, QuietPromise
<1>4. CASE PeerState(c) # "open"
    <2>1. \A d \in Clients : PeerState(d)' = PeerState(d)
        BY <1>1, <1>2, <1>4 DEF PeerState
    <2>2. QED
        BY <2>1, QuietPromise
<1>5. QED
    BY <1>3, <1>4

LEMMA HandlerPromise ==
    ASSUME SessionInv, SeenInv, SeenInv', NEW c \in Clients, Handler(c), fed' = fed
    PROVE  [Promise!FanOutNext]_(Promise!fanOutVars)
<1> USE DEF SessionInv, SessionTypeOK, ReaderGoes, readVars, writeVars, PeerState
<1>1. CASE Accept(c)
    <2>1. /\ UNCHANGED <<wire, stored>> /\ PeerState(c) = "new"
          /\ \A d \in Clients \ {c} : PeerState(d)' = PeerState(d)
        BY <1>1 DEF Accept, ConnBecomes
    <2>2. PeerState(c)' \in {"open", "gone"}
        BY <1>1 DEF Accept
    <2>3. QED
        BY <2>1, <2>2, QuietPromise
<1>2. CASE CloseReader(c)
    BY <1>2, DownPromise DEF CloseReader
<1>3. CASE Save(c)
    <2>1. /\ wire' = wire /\ frame[c] \in Messages
          /\ stored' = stored \/ stored' = stored \cup {frame[c]}
        BY <1>3, FramesAssumption DEF Save, BackToRead, PumpsInv
    <2>2. \A d \in Clients : PeerState(d)' = PeerState(d)
        BY <1>3 DEF Save, BackToRead
    <2>3. QED
        BY <2>1, <2>2, QuietPromise
<1>4. CASE \/ Register(c) \/ StartPumps(c) \/ ReadFail(c) \/ CheckMember(c)
           \/ Publish(c) \/ Unregister(c) \/ \E m \in Frames \ framed : ReadFrame(c, m)
    <2>1. UNCHANGED <<wire, stored, conn>>
        BY <1>4 DEF Register, StartPumps, ReadFrame, ReadFail, CheckMember, Publish,
                    Unregister
    <2>2. \A d \in Clients : rpc'[d] = "request" <=> rpc[d] = "request"
        BY <1>4 DEF Register, StartPumps, ReadFrame, ReadFail, CheckMember, Publish,
                    Unregister, BackToRead
    <2>3. QED
        BY <2>1, <2>2, QuietPromise
<1>5. QED
    BY <1>1, <1>2, <1>3, <1>4 DEF Handler

LEMMA WriterPromise ==
    ASSUME SessionInv, SeenInv, SeenInv', NEW c \in Clients, Writer(c) \/ PeerGone(c),
           fed' = fed
    PROVE  [Promise!FanOutNext]_(Promise!fanOutVars)
<1> USE DEF SessionInv, SessionTypeOK, WriterGoes, readVars, writeVars
<1>1. UNCHANGED <<rpc, stored>>
    BY DEF Writer, WriterTake, WriterClosed, WriterCtxDone, WriterTick, Write, Ping,
           CloseWriter, PeerGone
<1>2. CASE CloseWriter(c) \/ PeerGone(c)
    BY <1>1, <1>2, DownPromise DEF CloseWriter, PeerGone
<1>3. CASE Write(c)
    <2>1. CASE ConnBecomes(c, "down") /\ wire' = wire
        BY <1>1, <2>1, DownPromise
    <2>2. CASE /\ conn[c] = "up" /\ conn' = conn
               /\ wire' = [wire EXCEPT ![c] = Append(@, inflight[c])]
        <3>1. PeerState(c) = "open" /\ inflight[c] \in Payloads
            BY <1>3, <2>2 DEF Write, PumpsInv, PeerState
        <3>2. \A d \in Clients : PeerState(d)' = PeerState(d)
            BY <1>1, <2>2 DEF PeerState
        <3>3. QED
            BY <1>1, <2>2, <3>1, <3>2, WritePromise
    <2>3. QED
        BY <1>3, <2>1, <2>2 DEF Write
<1>4. CASE \/ WriterTake(c) \/ WriterClosed(c) \/ WriterCtxDone(c) \/ WriterTick(c)
           \/ Ping(c)
    <2>1. UNCHANGED <<wire, conn>>
        BY <1>4 DEF WriterTake, WriterClosed, WriterCtxDone, WriterTick, Ping
    <2>2. QED
        BY <1>1, <2>1, QuietPromise DEF PeerState
<1>5. QED
    BY <1>2, <1>3, <1>4 DEF Writer

LEMMA StepOfPromise ==
    ASSUME ChatInv, SeenInv, SeenInv', [ChatNext]_chatVars
    PROVE  [Promise!FanOutNext]_(Promise!fanOutVars)
<1>1. SessionInv
    BY DEF ChatInv, BaseInv
<1>2. ASSUME UNCHANGED <<fed, wire, stored, rpc, conn>>
      PROVE  [Promise!FanOutNext]_(Promise!fanOutVars)
    BY <1>2, QuietPromise DEF PeerState
<1>3. CASE SessionStep
    <2>1. ASSUME NEW c \in Clients, Handler(c) \/ Writer(c) \/ PeerGone(c), fed' = fed
          PROVE  [Promise!FanOutNext]_(Promise!fanOutVars)
        BY <1>1, <2>1, HandlerPromise, WriterPromise
    <2>2. ASSUME NEW p \in Payloads, RedisPublish(p), fed' \in {fed, Append(fed, p)}
          PROVE  [Promise!FanOutNext]_(Promise!fanOutVars)
        <3>1. UNCHANGED <<wire, stored, rpc, conn>>
            BY <2>2 DEF RedisPublish, writeVars
        <3>2. \A d \in Clients : PeerState(d)' = PeerState(d)
            BY <3>1 DEF PeerState
        <3>3. MessageOf[p] \in stored /\ \A i \in DOMAIN fed : fed[i] # p
            BY <1>1, <2>2, NotFedBefore DEF ChatInv
        <3>4. QED
            BY <1>2, <2>2, <3>1, <3>2, <3>3, FedPromise
    <2>3. QED
        BY <1>3, <2>1, <2>2, SessionFeeds
<1>4. CASE RemotePublish
    <2>1. PICK p \in Payloads \ remote : MessageOf[p] \notin Frames /\ fed' = Append(fed, p)
        BY <1>4 DEF RemotePublish
    <2>2. \A i \in DOMAIN fed : fed[i] # p
        BY <1>1, <2>1 DEF ChatInv, SourceInv, SessionInv, SessionTypeOK
    <2>3. UNCHANGED <<wire, stored, rpc, conn>>
        BY <1>4 DEF RemotePublish, vars
    <2>4. \A d \in Clients : PeerState(d)' = PeerState(d)
        BY <2>3 DEF PeerState
    <2>5. MessageOf[p] \in Messages \ Frames
        BY <2>1, FramesAssumption
    <2>6. QED
        BY <2>1, <2>2, <2>3, <2>4, <2>5, FedPromise
<1>5. CASE HubStep
    BY <1>2, <1>5, HubAloneKeeps DEF sessionVars
<1>6. CASE \/ ChangeMembers \/ SubReceive \/ SubLookup \/ SubDeliver \/ SubStop
           \/ UNCHANGED chatVars
    BY <1>2, <1>6 DEF ChangeMembers, SubReceive, SubLookup, SubDeliver, SubStop, chatVars,
                      vars, sessionVars
<1>7. QED
    BY <1>3, <1>4, <1>5, <1>6 DEF ChatNext

LEMMA PromiseInit == ChatInit => Promise!FanOutInit
BY DEF ChatInit, Init, HubInit, SessionInit, Promise!FanOutInit, Reached

(* The service, with its goroutines, channels, Redis and their failures    *)
(* hidden, does nothing but what FanOut promises: every step is one of     *)
(* its steps, or one no peer can tell.  With FanOutKeepsOrder this is      *)
(* what any peer may rely on.                                              *)
THEOREM ChatImplementsFanOut == ChatSpec => ImplementsFanOut
<1>1. ChatInv /\ SeenInv /\ SeenInv' /\ [ChatNext]_chatVars
          => [Promise!FanOutNext]_(Promise!fanOutVars)
    BY StepOfPromise
<1>2. QED
    BY <1>1, PromiseInit, SeenFollows, ChatInvariance, PTL
       DEF ChatSpec, ImplementsFanOut, Promise!FanOutSpec
=============================================================================
