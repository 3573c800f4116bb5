---------------------------- MODULE SessionProofs ----------------------------
(***************************************************************************)
(* What the handlers and pumps guarantee, for any connections, frames and  *)
(* deliveries: they keep the hub's contract, so that the theorems about    *)
(* the hub hold of the hub they run against, and with these, what a peer   *)
(* sees and what a handler leaves behind.                                  *)
(***************************************************************************)
EXTENDS Session, HubProofs

(* The hub knows a connection once its handler is past the rendezvous.     *)
HandlersInv ==
    /\ rpc \in [Clients -> ReaderPcs]
    /\ \A c \in Clients :
          /\ rpc[c] \in {"request", "register"} => c \notin joined
          /\ rpc[c] \notin {"request", "register", "done"} => c \in joined

-----------------------------------------------------------------------------
(* The hub's contract.                                                     *)

LEMMA HandlersInit == Init => HandlersInv
BY DEF Init, SessionInit, HubInit, HandlersInv, ReaderPcs

(* The hub's own steps and a reader's receive admit no connection.         *)
LEMMA JoinedKept ==
    ASSUME \/ HubIterate \/ HubStop \/ Cancel \/ UNCHANGED hubVars
           \/ \E c \in Clients : Take(c) \/ HubUnregister(c)
           \/ \E p \in Payloads, list \in TargetLists : HubDeliver(p, list)
    PROVE  joined' = joined
<1>1. CASE HubIterate
    BY <1>1 DEF HubIterate, HubTarget, HubTaskDone, HubSend, HubDropSlow, history
<1>2. CASE HubStop \/ Cancel \/ UNCHANGED hubVars
    BY <1>2 DEF HubStop, Cancel, hubVars, history
<1>3. CASE \E c \in Clients : Take(c) \/ HubUnregister(c)
    BY <1>3 DEF Take, HubUnregister, history
<1>4. CASE \E p \in Payloads, list \in TargetLists : HubDeliver(p, list)
    BY <1>4 DEF HubDeliver
<1>5. QED
    BY <1>1, <1>2, <1>3, <1>4

(* A handler's step away from the hub.                                     *)
LocalStep(c) ==
    \/ Accept(c) \/ StartPumps(c) \/ ReadFail(c) \/ CheckMember(c) \/ Save(c)
    \/ Publish(c) \/ CloseReader(c) \/ \E m \in Frames \ framed : ReadFrame(c, m)

LEMMA LocalStepKeeps ==
    ASSUME HandlersInv, NEW c \in Clients, LocalStep(c)
    PROVE  HandlersInv' /\ UNCHANGED hubVars
<1>1. UNCHANGED hubVars
    BY DEF LocalStep, Accept, StartPumps, ReadFrame, ReadFail, CheckMember, Save,
           Publish, CloseReader
<1>2. PICK from, to \in ReaderPcs :
          /\ ReaderGoes(c, from, to)
          /\ from = "request" => to \in {"register", "done"}
          /\ from # "register" /\ to # "request"
          /\ from = "done" => to = "done"
          /\ to = "register" => from = "request"
    BY DEF LocalStep, Accept, StartPumps, ReadFrame, ReadFail, CheckMember, Save,
           Publish, CloseReader, BackToRead, ReaderPcs
<1>3. joined' = joined
    BY <1>1 DEF hubVars
<1>4. HandlersInv'
    BY <1>2, <1>3 DEF HandlersInv, ReaderGoes
<1>5. QED
    BY <1>1, <1>4

LEMMA RegisterKeeps ==
    ASSUME HandlersInv, NEW c \in Clients, Register(c)
    PROVE  HandlersInv' /\ HubNext
<1>1. ReaderGoes(c, "register", "start") /\ HubRegister(c)
    BY DEF Register
<1>2. c \in Clients \ joined
    BY <1>1 DEF HandlersInv, ReaderGoes
<1>3. HandlersInv'
    BY <1>1 DEF HandlersInv, ReaderGoes, ReaderPcs, HubRegister
<1>4. QED
    BY <1>1, <1>2, <1>3 DEF HubNext

LEMMA UnregisterKeeps ==
    ASSUME HandlersInv, NEW c \in Clients, Unregister(c)
    PROVE  HandlersInv' /\ HubNext
<1>1. ReaderGoes(c, "unregister", "close") /\ HubUnregister(c)
    BY DEF Unregister
<1>2. c \in joined
    BY <1>1 DEF HandlersInv, ReaderGoes
<1>3. HandlersInv'
    BY <1>1, JoinedKept DEF HandlersInv, ReaderGoes, ReaderPcs
<1>4. QED
    BY <1>1, <1>2, <1>3 DEF HubNext

(* A writer's step away from the hub.                                      *)
LocalWrite(c) ==
    WriterClosed(c) \/ WriterCtxDone(c) \/ WriterTick(c) \/ Write(c) \/ Ping(c)
        \/ CloseWriter(c)

(* The steps that are no handler's.                                        *)
LEMMA QuietStep ==
    ASSUME \/ \E c \in Clients : Writer(c) \/ PeerGone(c)
           \/ \E p \in Payloads : RedisPublish(p)
           \/ HubAlone \/ AnyDelivery \/ UNCHANGED vars
    PROVE  /\ rpc' = rpc
           /\ \/ HubIterate \/ HubStop \/ Cancel \/ UNCHANGED hubVars
              \/ \E c \in Clients : Take(c)
              \/ \E p \in Payloads \ accepted, list \in TargetLists : HubDeliver(p, list)
<1>1. rpc' = rpc
    BY DEF Writer, WriterTake, WriterClosed, WriterCtxDone, WriterTick, Write, Ping,
           CloseWriter, PeerGone, RedisPublish, HubAlone, AnyDelivery, sessionVars, vars
<1>2. CASE \E c \in Clients : LocalWrite(c) \/ PeerGone(c)
    BY <1>1, <1>2 DEF LocalWrite, WriterClosed, WriterCtxDone, WriterTick, Write, Ping,
                CloseWriter, PeerGone
<1>3. CASE \E c \in Clients : WriterTake(c)
    BY <1>1, <1>3 DEF WriterTake
<1>4. CASE UNCHANGED vars \/ \E p \in Payloads : RedisPublish(p)
    BY <1>1, <1>4 DEF RedisPublish, vars, hubVars
<1>5. CASE HubAlone \/ AnyDelivery
    BY <1>1, <1>5 DEF HubAlone, AnyDelivery
<1>6. QED
    BY <1>2, <1>3, <1>4, <1>5 DEF Writer, LocalWrite

LEMMA OthersKeep ==
    ASSUME HandlersInv,
           \/ \E c \in Clients : Writer(c) \/ PeerGone(c)
           \/ \E p \in Payloads : RedisPublish(p)
           \/ HubAlone \/ AnyDelivery \/ UNCHANGED vars
    PROVE  HandlersInv' /\ [HubNext]_hubVars
<1>1. joined' = joined
    BY QuietStep, JoinedKept
<1>2. HandlersInv'
    BY <1>1, QuietStep DEF HandlersInv
<1>3. QED
    BY <1>2, QuietStep DEF HubNext

LEMMA SessionsKeep == HandlersInv /\ [Next]_vars => HandlersInv' /\ [HubNext]_hubVars
<1> SUFFICES ASSUME HandlersInv, [Next]_vars
             PROVE  HandlersInv' /\ [HubNext]_hubVars
    OBVIOUS
<1>1. ASSUME NEW c \in Clients, Handler(c)
      PROVE  HandlersInv' /\ [HubNext]_hubVars
    BY <1>1, LocalStepKeeps, RegisterKeeps, UnregisterKeeps DEF Handler, LocalStep
<1>2. QED
    BY <1>1, OthersKeep DEF Next, Sessions

(* Whatever handlers, pumps, peers and the network do, a connection is     *)
(* registered at most once and unregistered only afterwards: the hub that  *)
(* the sessions run against behaves as HubSpec.                            *)
THEOREM SessionsKeepHubContract == Spec => KeepsHubContract
<1>1. Init => HubInit
    BY DEF Init
<1>2. QED
    BY <1>1, HandlersInit, SessionsKeep, PTL DEF Spec, KeepsHubContract

LEMMA SessionHubInvariance == Spec => [](HubInv /\ HandlersInv /\ ChannelsCarryOffered)
<1>1. KeepsHubContract => HubSpec
    BY DEF KeepsHubContract, HubSpec
<1>2. Spec => []HandlersInv
    BY HandlersInit, SessionsKeep, PTL DEF Spec
<1>3. QED
    BY <1>1, <1>2, SessionsKeepHubContract, HubInvariance, ChannelsCarry, PTL

-----------------------------------------------------------------------------
(* What a handler leaves behind.                                           *)

(* Only a registration brings a connection to life.                        *)
LEMMA LiveShrinks ==
    ASSUME \/ HubIterate \/ HubStop \/ Cancel \/ UNCHANGED hubVars
           \/ \E c \in Clients : Take(c) \/ HubUnregister(c)
           \/ \E p \in Payloads, list \in TargetLists : HubDeliver(p, list)
    PROVE  Live' \subseteq Live
<1>1. joined' = joined
    BY JoinedKept
<1>2. closed \subseteq closed'
    <2>1. CASE HubIterate
        BY <2>1 DEF HubIterate, HubTarget, HubTaskDone, HubSend, HubDropSlow, registry
    <2>2. CASE HubStop \/ Cancel \/ UNCHANGED hubVars
        BY <2>2 DEF HubStop, Cancel, hubVars, registry
    <2>3. CASE \E c \in Clients : Take(c) \/ HubUnregister(c)
        BY <2>3 DEF Take, HubUnregister, registry
    <2>4. CASE \E p \in Payloads, list \in TargetLists : HubDeliver(p, list)
        BY <2>4 DEF HubDeliver, registry
    <2>5. QED
        BY <2>1, <2>2, <2>3, <2>4
<1>3. QED
    BY <1>1, <1>2 DEF Live

(* Whichever of hub and handler notices first, after the rendezvous the    *)
(* connection is out.                                                      *)
LEMMA UnregisteredIsDead ==
    ASSUME HubInv, NEW c \in joined, HubUnregister(c)
    PROVE  c \notin Live'
<1>1. c \in Clients /\ UserOf[c] \in UserIDs
    BY HubAssumption DEF HubInv, HubTypeOK
<1>2. CASE c \in Conns(UserOf[c])
    BY <1>2 DEF HubUnregister, Live
<1>3. CASE c \notin Conns(UserOf[c])
    <2>1. c \notin Live
        BY <1>1, <1>3, ConnsAreLive DEF HubInv
    <2>2. Live' \subseteq Live
        BY <1>1, LiveShrinks
    <2>3. QED
        BY <2>1, <2>2
<1>4. QED
    BY <1>2, <1>3

LEMMA ReturnedStep ==
    ASSUME HubInv, HandlersInv, ReturnedIsForgotten, [Next]_vars
    PROVE  ReturnedIsForgotten'
<1> SUFFICES ASSUME NEW d \in Clients, rpc'[d] \in {"close", "done"}
             PROVE  d \notin Live'
    BY DEF ReturnedIsForgotten
<1>1. CASE \E c \in Clients : Register(c)
    <2>1. PICK c \in Clients : ReaderGoes(c, "register", "start") /\ HubRegister(c)
        BY <1>1 DEF Register
    <2>2. d # c /\ d \notin Live
        BY <2>1 DEF HandlersInv, ReaderGoes, ReturnedIsForgotten
    <2>3. Live' \subseteq Live \cup {c}
        BY <2>1 DEF HubRegister, Live
    <2>4. QED
        BY <2>2, <2>3
<1>2. CASE \E c \in Clients : Unregister(c)
    <2>1. PICK c \in Clients : ReaderGoes(c, "unregister", "close") /\ HubUnregister(c)
        BY <1>2 DEF Unregister
    <2>2. c \in joined
        BY <2>1 DEF HandlersInv, ReaderGoes
    <2>3. CASE d = c
        BY <2>1, <2>2, <2>3, UnregisteredIsDead
    <2>4. CASE d # c
        BY <2>1, <2>4, LiveShrinks DEF HandlersInv, ReaderGoes, ReturnedIsForgotten
    <2>5. QED
        BY <2>3, <2>4
<1>3. CASE \E c \in Clients : LocalStep(c)
    <2>1. PICK c \in Clients : LocalStep(c)
        BY <1>3
    <2>2. Live' = Live
        BY <2>1, LocalStepKeeps DEF hubVars, Live
    <2>3. \/ rpc'[d] = rpc[d]
          \/ rpc[d] \in {"request", "close"}
        BY <2>1 DEF LocalStep, Accept, StartPumps, ReadFrame, ReadFail, CheckMember,
                    Save, Publish, CloseReader, BackToRead, ReaderGoes, HandlersInv
    <2>4. QED
        BY <2>2, <2>3 DEF HandlersInv, ReturnedIsForgotten, Live
<1>4. CASE \/ \E c \in Clients : Writer(c) \/ PeerGone(c)
           \/ \E p \in Payloads : RedisPublish(p)
           \/ HubAlone \/ AnyDelivery \/ UNCHANGED vars
    <2>1. rpc' = rpc /\ Live' \subseteq Live
        BY <1>4, QuietStep, LiveShrinks
    <2>2. QED
        BY <2>1 DEF ReturnedIsForgotten
<1>5. QED
    BY <1>1, <1>2, <1>3, <1>4 DEF Next, Sessions, Handler, LocalStep

LEMMA ReturnedInit == Init => ReturnedIsForgotten
BY DEF Init, HubInit, ReturnedIsForgotten, Live

(* When ReadPump's deferred function is past its rendezvous, and when the  *)
(* handler has returned, the connection is no longer in the registry and   *)
(* its channel is closed, also if the hub had dropped it before.           *)
THEOREM NothingLeftBehind == Spec => []ReturnedIsForgotten
<1>1. (HubInv /\ HandlersInv) /\ ReturnedIsForgotten /\ [Next]_vars
          => ReturnedIsForgotten'
    BY ReturnedStep
<1>2. QED
    BY <1>1, ReturnedInit, SessionHubInvariance, PTL DEF Spec

-----------------------------------------------------------------------------
(* Types, and what the pumps have in hand.                                 *)

(* The frame between its read and its publication, and the message between *)
(* its receive and its write.  A writer starts after the registration.     *)
PumpsInv ==
    \A c \in Clients :
        /\ rpc[c] \in {"check", "save", "publish"} => frame[c] \in Frames
        /\ wpc[c] = "write" => inflight[c] \in Payloads
        /\ rpc[c] \in {"request", "register", "start"} => wpc[c] = "none"

SessionInv == SessionTypeOK /\ PumpsInv

LEMMA SessionInvInit == Init => SessionInv
<1> SUFFICES ASSUME Init PROVE SessionInv
    OBVIOUS
<1>1. <<>> \in Seq(Payloads)
    BY EmptySeq
<1>2. QED
    BY <1>1 DEF Init, SessionInit, SessionInv, SessionTypeOK, PumpsInv, ReaderPcs, WriterPcs

LEMMA HandlerTyped ==
    ASSUME SessionInv, NEW c \in Clients, Handler(c)
    PROVE  SessionInv'
<1> USE DEF SessionInv, SessionTypeOK, PumpsInv, ReaderGoes, WriterGoes, ReaderPcs,
            WriterPcs, ConnBecomes, readVars, writeVars
<1>1. CASE Accept(c)
    BY <1>1 DEF Accept
<1>2. CASE Register(c)
    BY <1>2 DEF Register
<1>3. CASE StartPumps(c)
    BY <1>3 DEF StartPumps
<1>4. CASE \E m \in Frames \ framed : ReadFrame(c, m)
    BY <1>4 DEF ReadFrame
<1>5. CASE ReadFail(c)
    BY <1>5 DEF ReadFail
<1>6. CASE CheckMember(c)
    BY <1>6 DEF CheckMember, BackToRead
<1>7. CASE Save(c)
    BY <1>7 DEF Save, BackToRead
<1>8. CASE Publish(c)
    <2>1. frame[c] \in Frames
        BY <1>8 DEF Publish, BackToRead
    <2>2. QED
        BY <1>8, <2>1 DEF Publish, BackToRead
<1>9. CASE Unregister(c)
    BY <1>9 DEF Unregister
<1>10. CASE CloseReader(c)
    BY <1>10 DEF CloseReader
<1>11. QED
    BY <1>1, <1>2, <1>3, <1>4, <1>5, <1>6, <1>7, <1>8, <1>9, <1>10 DEF Handler

LEMMA WriterTyped ==
    ASSUME SessionInv, HubInv, NEW c \in Clients, Writer(c) \/ PeerGone(c)
    PROVE  SessionInv'
<1> USE DEF SessionInv, SessionTypeOK, PumpsInv, ReaderGoes, WriterGoes, ReaderPcs,
            WriterPcs, ConnBecomes, readVars, writeVars
<1>1. CASE WriterTake(c)
    <2>1. send[c] \in Seq(Payloads) /\ send[c] # <<>>
        BY <1>1 DEF WriterTake, Take, HubInv, HubTypeOK
    <2>2. Head(send[c]) \in Payloads
        BY <2>1, HeadTailProperties
    <2>3. QED
        BY <1>1, <2>2 DEF WriterTake
<1>2. CASE WriterClosed(c) \/ WriterCtxDone(c) \/ WriterTick(c)
    BY <1>2 DEF WriterClosed, WriterCtxDone, WriterTick
<1>3. CASE Write(c)
    <2>1. wire[c] \in Seq(Payloads) /\ inflight[c] \in Payloads
        BY <1>3 DEF Write
    <2>2. Append(wire[c], inflight[c]) \in Seq(Payloads)
        BY <2>1, AppendProperties
    <2>3. QED
        BY <1>3, <2>2 DEF Write
<1>4. CASE Ping(c)
    BY <1>4 DEF Ping
<1>5. CASE CloseWriter(c) \/ PeerGone(c)
    BY <1>5 DEF CloseWriter, PeerGone
<1>6. QED
    BY <1>1, <1>2, <1>3, <1>4, <1>5 DEF Writer

(* What Redis publishes carries a frame that was sent or is being sent.    *)
LEMMA RedisTyped ==
    ASSUME SessionInv, NEW p \in Payloads, RedisPublish(p)
    PROVE  SessionInv'
<1>1. MessageOf[p] \in Frames
    BY DEF RedisPublish, SessionInv, SessionTypeOK, PumpsInv
<1>2. published' \subseteq {q \in Payloads : MessageOf[q] \in Frames}
    BY <1>1 DEF RedisPublish, SessionInv, SessionTypeOK
<1>3. QED
    BY <1>2 DEF RedisPublish, writeVars, SessionInv, SessionTypeOK, PumpsInv

LEMMA SessionInvStep == HubInv /\ SessionInv /\ [Next]_vars => SessionInv'
<1> SUFFICES ASSUME HubInv, SessionInv, [Next]_vars
             PROVE  SessionInv'
    OBVIOUS
<1>1. CASE HubAlone \/ AnyDelivery \/ UNCHANGED vars
    BY <1>1 DEF HubAlone, AnyDelivery, sessionVars, vars, SessionInv, SessionTypeOK,
                PumpsInv
<1>2. QED
    BY <1>1, HandlerTyped, WriterTyped, RedisTyped DEF Next, Sessions

LEMMA SessionInvariance == Spec => []SessionInv
BY SessionInvInit, SessionInvStep, SessionHubInvariance, PTL DEF Spec

(* The types of the handlers' and pumps' state: what is stored, sent and   *)
(* published are the messages of frames that were read, never the empty    *)
(* hand of a pump.                                                         *)
THEOREM SessionTyped == Spec => []SessionTypeOK
<1>1. SessionInv => SessionTypeOK
    BY DEF SessionInv
<1>2. QED
    BY <1>1, SessionInvariance, PTL

-----------------------------------------------------------------------------
(* What a peer sees.                                                       *)

LEMMA PrefixTransitive ==
    ASSUME NEW S, NEW s \in Seq(S), NEW t \in Seq(S), NEW r \in Seq(S),
           IsPrefix(s, t), IsPrefix(t, r)
    PROVE  IsPrefix(s, r)
<1>1. /\ Len(s) \in Nat /\ Len(t) \in Nat /\ Len(r) \in Nat
      /\ Len(s) <= Len(t) /\ Len(t) <= Len(r)
    BY LenProperties DEF IsPrefix
<1>2. SubSeq(s, 1, Len(s)) = SubSeq(t, 1, Len(s))
    BY DEF IsPrefix
<1>3. SubSeq(t, 1, Len(t)) = SubSeq(r, 1, Len(t))
    BY DEF IsPrefix
<1>4. SubSeq(t, 1, Len(s)) = SubSeq(r, 1, Len(s))
    <2>1. ASSUME NEW i \in 1..Len(s) PROVE t[i] = r[i]
        <3>1. i \in 1..Len(t) /\ i \in 1..Len(r)
            BY <1>1
        <3>2. SubSeq(t, 1, Len(t))[i] = t[i] /\ SubSeq(r, 1, Len(t))[i] = r[i]
            BY <1>1, <3>1
        <3>3. QED
            BY <1>3, <3>2
    <2>2. SubSeq(t, 1, Len(s)) = [i \in 1..Len(s) |-> t[i]]
        BY <1>1
    <2>3. SubSeq(r, 1, Len(s)) = [i \in 1..Len(s) |-> r[i]]
        BY <1>1
    <2>4. QED
        BY <2>1, <2>2, <2>3
<1>5. QED
    BY <1>1, <1>2, <1>4 DEF IsPrefix

LEMMA PrefixOfEmpty ==
    ASSUME NEW S, NEW s \in Seq(S), IsPrefix(s, <<>>)
    PROVE  s = <<>>
<1>1. Len(s) \in Nat /\ Len(s) <= 0
    BY LenProperties, EmptySeq DEF IsPrefix
<1>2. QED
    BY <1>1, EmptySeq

(* What the writer has received and not yet written.                       *)
Holding(c) == IF wpc[c] = "write" THEN <<inflight[c]>> ELSE <<>>

(* While the connection is up the peer has seen all that the writer has    *)
(* received and finished with.  Once it is down nothing more is written,   *)
(* while the writer may go on receiving.                                   *)
WireFollows ==
    \A c \in Clients :
        /\ IsPrefix(wire[c], taken[c])
        /\ conn[c] = "up" => taken[c] = wire[c] \o Holding(c)

LEMMA WireInit == Init => WireFollows
<1> SUFFICES ASSUME Init, NEW c \in Clients
             PROVE  IsPrefix(wire[c], taken[c]) /\ conn[c] # "up"
    BY DEF WireFollows
<1>1. wire[c] = <<>> /\ taken[c] = <<>> /\ conn[c] = "down"
    BY DEF Init, SessionInit, HubInit
<1>2. <<>> \in Seq(Payloads) /\ <<>> \o <<>> = <<>>
    BY EmptySeq, ConcatEmptySeq
<1>3. IsPrefix(<<>>, <<>> \o <<>>)
    BY <1>2, PrefixOfConcat
<1>4. QED
    BY <1>1, <1>2, <1>3

(* A fresh connection has nothing on its wire, and none of it taken.       *)
LEMMA AcceptFollows ==
    ASSUME HubInv, HandlersInv, SessionInv, WireFollows, NEW c \in Clients, Accept(c)
    PROVE  WireFollows'
<1>1. /\ UNCHANGED <<wire, taken, wpc, inflight>>
      /\ \A d \in Clients \ {c} : conn'[d] = conn[d]
      /\ rpc[c] = "request"
    BY DEF Accept, ReaderGoes, ConnBecomes, hubVars, writeVars, SessionInv, SessionTypeOK
<1>2. taken[c] = <<>> /\ wpc[c] = "none"
    BY <1>1 DEF HandlersInv, HubInv, OnlyJoined, SessionInv, PumpsInv
<1>3. wire[c] = <<>>
    <2>1. wire[c] \in Seq(Payloads) /\ IsPrefix(wire[c], <<>>)
        BY <1>2 DEF SessionInv, SessionTypeOK, WireFollows
    <2>2. QED
        BY <2>1, PrefixOfEmpty
<1>4. taken[c] = wire[c] \o Holding(c)
    <2>1. Holding(c) = <<>> /\ <<>> \o <<>> = <<>>
        BY <1>2, EmptySeq, ConcatEmptySeq DEF Holding
    <2>2. QED
        BY <1>2, <1>3, <2>1
<1>5. \A d \in Clients : Holding(d)' = Holding(d)
    BY <1>1 DEF Holding
<1>6. QED
    BY <1>1, <1>4, <1>5 DEF WireFollows

LEMMA TakeFollows ==
    ASSUME HubInv, SessionInv, WireFollows, NEW c \in Clients, WriterTake(c)
    PROVE  WireFollows'
<1> DEFINE m == Head(send[c])
<1>1. /\ wpc[c] = "select" /\ wpc' = [wpc EXCEPT ![c] = "write"]
      /\ inflight' = [inflight EXCEPT ![c] = m]
      /\ taken' = [taken EXCEPT ![c] = Append(@, m)]
      /\ UNCHANGED <<wire, conn>>
    BY DEF WriterTake, WriterGoes, Take
<1>2. m \in Payloads
    BY HeadTailProperties DEF WriterTake, Take, HubInv, HubTypeOK
<1>3. taken[c] \in Seq(Payloads) /\ wire[c] \in Seq(Payloads)
    BY DEF HubInv, HubTypeOK, SessionInv, SessionTypeOK
<1>4. taken'[c] = Append(taken[c], m) /\ Holding(c)' = <<m>>
    BY <1>1 DEF Holding, HubInv, HubTypeOK, SessionInv, SessionTypeOK
<1>5. IsPrefix(wire[c], taken'[c])
    BY <1>2, <1>3, <1>4, PrefixAppend DEF WireFollows
<1>6. ASSUME conn[c] = "up" PROVE taken'[c] = wire[c] \o Holding(c)'
    <2>1. taken[c] = wire[c] \o <<>>
        BY <1>1, <1>6 DEF WireFollows, Holding
    <2>2. taken[c] = wire[c]
        BY <1>3, <2>1, ConcatEmptySeq
    <2>3. QED
        BY <1>2, <1>3, <1>4, <2>2, AppendIsConcat
<1>7. \A d \in Clients \ {c} : taken'[d] = taken[d] /\ Holding(d)' = Holding(d)
    BY <1>1 DEF Holding, HubInv, HubTypeOK, SessionInv, SessionTypeOK
<1>8. QED
    BY <1>1, <1>5, <1>6, <1>7 DEF WireFollows

LEMMA WriteFollows ==
    ASSUME HubInv, SessionInv, WireFollows, NEW c \in Clients, Write(c)
    PROVE  WireFollows'
<1>1. /\ wpc[c] = "write" /\ wpc' = [wpc EXCEPT ![c] = "select"]
      /\ inflight' = [inflight EXCEPT ![c] = None]
      /\ taken' = taken
    BY DEF Write, WriterGoes, hubVars
<1>2. Holding(c) = <<inflight[c]>> /\ Holding(c)' = <<>>
    BY <1>1 DEF Holding, SessionInv, SessionTypeOK
<1>3. inflight[c] \in Payloads /\ wire[c] \in Seq(Payloads) /\ taken[c] \in Seq(Payloads)
    BY <1>1 DEF SessionInv, SessionTypeOK, PumpsInv, HubInv, HubTypeOK
<1>4. \A d \in Clients \ {c} : Holding(d)' = Holding(d)
    BY <1>1 DEF Holding, SessionInv, SessionTypeOK
<1>5. CASE conn[c] = "up" /\ wire' = [wire EXCEPT ![c] = Append(@, inflight[c])]
                          /\ UNCHANGED conn
    <2>1. wire'[c] = Append(wire[c], inflight[c])
        BY <1>5 DEF SessionInv, SessionTypeOK
    <2>2. Append(wire[c], inflight[c]) = wire[c] \o <<inflight[c]>>
        BY <1>3, AppendIsConcat
    <2>3. wire'[c] = taken[c]
        BY <1>2, <1>5, <2>1, <2>2 DEF WireFollows
    <2>4. taken[c] \o <<>> = taken[c] /\ <<>> \in Seq(Payloads)
        BY <1>3, EmptySeq, ConcatEmptySeq
    <2>5. IsPrefix(taken[c], taken[c] \o <<>>)
        BY <1>3, <2>4, PrefixOfConcat
    <2>6. IsPrefix(wire'[c], taken'[c]) /\ taken'[c] = wire'[c] \o Holding(c)'
        BY <1>1, <1>2, <2>3, <2>4, <2>5
    <2>7. \A d \in Clients \ {c} : wire'[d] = wire[d] /\ conn'[d] = conn[d]
        BY <1>5 DEF SessionInv, SessionTypeOK
    <2>8. QED
        BY <1>1, <1>4, <2>6, <2>7 DEF WireFollows
<1>6. CASE ConnBecomes(c, "down") /\ UNCHANGED wire
    <2>1. conn'[c] = "down" /\ \A d \in Clients \ {c} : conn'[d] = conn[d]
        BY <1>6 DEF ConnBecomes, SessionInv, SessionTypeOK
    <2>2. QED
        BY <1>1, <1>4, <1>6, <2>1 DEF WireFollows
<1>7. QED
    BY <1>5, <1>6 DEF Write

(* Every other step takes nothing and writes nothing.                      *)
LEMMA QuietFollows ==
    ASSUME SessionInv, WireFollows,
           UNCHANGED <<wire, taken, inflight>>,
           \A c \in Clients : conn'[c] = "up" => conn[c] = "up",
           \A c \in Clients : wpc'[c] = "write" <=> wpc[c] = "write"
    PROVE  WireFollows'
<1>1. \A c \in Clients : Holding(c)' = Holding(c)
    BY DEF Holding
<1>2. QED
    BY <1>1 DEF WireFollows

LEMMA TakenKept ==
    ASSUME \/ HubIterate \/ HubStop \/ Cancel \/ UNCHANGED hubVars
           \/ \E c \in Clients : HubRegister(c) \/ HubUnregister(c)
           \/ \E p \in Payloads, list \in TargetLists : HubDeliver(p, list)
    PROVE  taken' = taken
<1>1. CASE HubIterate
    BY <1>1 DEF HubIterate, HubTarget, HubTaskDone, HubSend, HubDropSlow, history
<1>2. CASE HubStop \/ Cancel \/ UNCHANGED hubVars
    BY <1>2 DEF HubStop, Cancel, hubVars, history
<1>3. CASE \E c \in Clients : HubRegister(c) \/ HubUnregister(c)
    BY <1>3 DEF HubRegister, HubUnregister, history
<1>4. CASE \E p \in Payloads, list \in TargetLists : HubDeliver(p, list)
    BY <1>4 DEF HubDeliver
<1>5. QED
    BY <1>1, <1>2, <1>3, <1>4

LEMMA WireStep ==
    ASSUME HubInv, HandlersInv, SessionInv, WireFollows, [Next]_vars
    PROVE  WireFollows'
<1>1. CASE \E c \in Clients : Register(c) \/ Unregister(c)
    BY <1>1, TakenKept, QuietFollows DEF Register, Unregister, writeVars
<1>2. CASE \E c \in Clients : LocalStep(c) /\ ~Accept(c)
    <2>1. PICK c \in Clients : LocalStep(c) /\ ~Accept(c)
        BY <1>2
    <2>2. UNCHANGED <<wire, inflight, taken>>
        BY <2>1 DEF LocalStep, StartPumps, ReadFrame, ReadFail, CheckMember, Save,
                    Publish, CloseReader, writeVars, hubVars
    <2>3. conn' = conn \/ ConnBecomes(c, "down")
        BY <2>1 DEF LocalStep, StartPumps, ReadFrame, ReadFail, CheckMember, Save,
                    Publish, CloseReader
    <2>4. wpc' = wpc \/ WriterGoes(c, "none", "select")
        BY <2>1 DEF LocalStep, StartPumps, ReadFrame, ReadFail, CheckMember, Save,
                    Publish, CloseReader
    <2>5. QED
        BY <2>2, <2>3, <2>4, QuietFollows
           DEF ConnBecomes, WriterGoes, SessionInv, SessionTypeOK
<1>3. CASE \E c \in Clients : (LocalWrite(c) /\ ~Write(c)) \/ PeerGone(c)
    <2>1. PICK c \in Clients : (LocalWrite(c) /\ ~Write(c)) \/ PeerGone(c)
        BY <1>3
    <2>2. UNCHANGED <<wire, inflight, taken>>
        BY <2>1 DEF LocalWrite, WriterClosed, WriterCtxDone, WriterTick, Ping,
                    CloseWriter, PeerGone, writeVars, hubVars
    <2>3. conn' = conn \/ ConnBecomes(c, "down")
        BY <2>1 DEF LocalWrite, WriterClosed, WriterCtxDone, WriterTick, Ping,
                    CloseWriter, PeerGone
    <2>4. \/ wpc' = wpc
          \/ \E from, to \in WriterPcs \ {"write"} : WriterGoes(c, from, to)
        BY <2>1 DEF LocalWrite, WriterClosed, WriterCtxDone, WriterTick, Ping,
                    CloseWriter, PeerGone, WriterPcs
    <2>5. QED
        BY <2>2, <2>3, <2>4, QuietFollows
           DEF ConnBecomes, WriterGoes, SessionInv, SessionTypeOK
<1>4. CASE HubAlone \/ AnyDelivery \/ UNCHANGED vars \/ \E p \in Payloads : RedisPublish(p)
    <2>1. UNCHANGED <<wire, inflight, conn, wpc>>
        BY <1>4 DEF HubAlone, AnyDelivery, RedisPublish, sessionVars, vars, writeVars
    <2>2. taken' = taken
        BY <1>4, TakenKept DEF HubAlone, AnyDelivery, RedisPublish, vars, hubVars
    <2>3. QED
        BY <2>1, <2>2, QuietFollows
<1>5. QED
    BY <1>1, <1>2, <1>3, <1>4, AcceptFollows, TakeFollows, WriteFollows
       DEF Next, Sessions, Handler, Writer, LocalStep, LocalWrite

(* What the invariants above give together.                                *)
BaseInv == HubInv /\ HandlersInv /\ SessionInv /\ WireFollows /\ ChannelsCarryOffered

LEMMA BaseInvInit == Init => BaseInv
<1>1. Init => HubInit
    BY DEF Init
<1>2. QED
    BY <1>1, InitInv, HandlersInit, SessionInvInit, WireInit, InitCarried DEF BaseInv

LEMMA BaseInvStep == BaseInv /\ [Next]_vars => BaseInv'
<1> SUFFICES ASSUME BaseInv, [Next]_vars
             PROVE  BaseInv'
    OBVIOUS
<1>1. HandlersInv' /\ [HubNext]_hubVars
    BY SessionsKeep DEF BaseInv
<1>2. HubInv' /\ ChannelsCarryOffered'
    BY <1>1, StepInv, StepCarried DEF BaseInv
<1>3. SessionInv' /\ WireFollows'
    BY SessionInvStep, WireStep DEF BaseInv
<1>4. QED
    BY <1>1, <1>2, <1>3 DEF BaseInv

LEMMA WireWasOffered ==
    ASSUME BaseInv, NEW c \in Clients
    PROVE  IsPrefix(wire[c], offered[c])
<1>1. /\ wire[c] \in Seq(Payloads) /\ taken[c] \in Seq(Payloads)
      /\ send[c] \in Seq(Payloads) /\ offered[c] \in Seq(Payloads)
    BY DEF BaseInv, HubInv, HubTypeOK, SessionInv, SessionTypeOK
<1>2. taken[c] \o send[c] \in Seq(Payloads)
    BY <1>1, ConcatProperties
<1>3. IsPrefix(wire[c], taken[c]) /\ IsPrefix(taken[c] \o send[c], offered[c])
    BY DEF BaseInv, WireFollows, ChannelsCarryOffered
<1>4. IsPrefix(taken[c], taken[c] \o send[c])
    BY <1>1, PrefixOfConcat
<1>5. IsPrefix(wire[c], taken[c] \o send[c])
    BY <1>1, <1>2, <1>3, <1>4, PrefixTransitive
<1>6. QED
    BY <1>1, <1>2, <1>3, <1>5, PrefixTransitive

(* A peer sees a prefix of what the hub addressed to its connection, with  *)
(* no payload missing, repeated or out of order before one that it sees,   *)
(* whatever is dropped, closed or broken, and when.                        *)
THEOREM PeersSeePrefix == Spec => []WireIsPrefix
<1>1. BaseInv => WireIsPrefix
    BY WireWasOffered DEF WireIsPrefix
<1>2. QED
    BY <1>1, BaseInvInit, BaseInvStep, PTL DEF Spec
==============================================================================
