----------------------------- MODULE HubProofs -----------------------------
(***************************************************************************)
(* What the hub guarantees, for any users, connections, payloads, channel  *)
(* capacity and tasks: the invariants the MCHub run checks on a small      *)
(* instance, proved from one inductive invariant, HubInv.                  *)
(***************************************************************************)
EXTENDS Hub, SequenceTheorems, TLAPS

(* A delivery's variables outside a delivery, and inside one.              *)
TaskInHand ==
    /\ hubPc # "deliver" => pending = {}
    /\ hubPc = "deliver" => payload \in Payloads

(* Only registered connections are ever disconnected or written to.        *)
OnlyJoined ==
    /\ closed \subseteq joined
    /\ \A c \in Clients \ joined :
          send[c] = <<>> /\ offered[c] = <<>> /\ taken[c] = <<>>

(* RegistryExact needs OnlyJoined (a new connection is not already closed) *)
(* and NeverSendOnClosed needs TaskInHand (Unregister is not received      *)
(* inside a delivery) and RegistryExact (a user's entry holds live         *)
(* connections only).                                                      *)
HubInv ==
    HubTypeOK /\ TaskInHand /\ OnlyJoined /\ RegistryExact /\ NeverSendOnClosed

-----------------------------------------------------------------------------
(* The entry of a user in an exact registry is its live connections.       *)
LEMMA ConnsAreLive ==
    ASSUME HubTypeOK, RegistryExact, OnlyJoined, NEW u \in UserIDs
    PROVE  Conns(u) = {c \in Live : UserOf[c] = u}
BY HubAssumption DEF HubTypeOK, RegistryExact, OnlyJoined, Conns, Live

(* The registry after RemoveConn, read as an exact registry again.         *)
LEMMA RemoveConnExact ==
    ASSUME HubTypeOK, RegistryExact, OnlyJoined, NEW c \in Live, RemoveConn(c),
           closed' = closed \cup {c}, joined' = joined
    PROVE  RegistryExact'
<1> DEFINE u    == UserOf[c]
           left == Conns(u) \ {c}
<1>1. c \in Clients /\ u \in UserIDs
  BY HubAssumption DEF Live, HubTypeOK
<1>2. Live' = Live \ {c}
  BY DEF Live
<1>3. Conns(u) = {d \in Live : UserOf[d] = u}
  BY <1>1, ConnsAreLive
<1>4. left = {d \in Live' : UserOf[d] = u}
  BY <1>2, <1>3
<1>5. DOMAIN users' = IF left = {} THEN DOMAIN users \ {u} ELSE DOMAIN users
  BY DEF RemoveConn
<1>6. \A v \in DOMAIN users' : users'[v] = IF v = u THEN left ELSE users[v]
  BY <1>5 DEF RemoveConn
<1>7. DOMAIN users' = {UserOf[d] : d \in Live'}
  BY <1>2, <1>4, <1>5 DEF RegistryExact
<1>8. \A v \in DOMAIN users' : users'[v] = {d \in Live' : UserOf[d] = v}
  BY <1>2, <1>4, <1>5, <1>6 DEF RegistryExact
<1>. QED BY <1>7, <1>8 DEF RegistryExact

(* RemoveConn keeps the registry's type.                                   *)
LEMMA RemoveConnType ==
    ASSUME HubTypeOK, NEW c \in Clients, RemoveConn(c)
    PROVE  /\ DOMAIN users' \subseteq UserIDs
           /\ \A u \in DOMAIN users' : users'[u] \subseteq Clients
BY HubAssumption DEF HubTypeOK, RemoveConn, Conns

-----------------------------------------------------------------------------
LEMMA InitInv == HubInit => HubInv
<1> SUFFICES ASSUME HubInit PROVE HubInv
  OBVIOUS
<1>1. HubTypeOK
  <2>1. <<>> \in Seq(Payloads) /\ <<>> \in Seq(UserIDs) /\ Len(<<>>) = 0
    BY EmptySeq
  <2>2. \A c \in Clients : Len(send[c]) <= ClientChanSize
    BY <2>1, HubAssumption DEF HubInit
  <2>3. DOMAIN users = {}
    BY DEF HubInit
  <2>. QED BY <2>1, <2>2, <2>3 DEF HubInit, HubTypeOK
<1>2. TaskInHand /\ OnlyJoined /\ NeverSendOnClosed
  BY DEF HubInit, TaskInHand, OnlyJoined, NeverSendOnClosed, Live
<1>3. RegistryExact
  BY DEF HubInit, RegistryExact, Live
<1>. QED BY <1>1, <1>2, <1>3 DEF HubInv

LEMMA RegisterInv ==
    ASSUME HubInv, NEW c \in Clients \ joined, HubRegister(c)
    PROVE  HubInv'
<1> DEFINE u == UserOf[c]
<1> USE DEF HubInv
<1>1. u \in UserIDs
  BY HubAssumption
<1>2. Live' = Live \cup {c}
  BY DEF HubRegister, OnlyJoined, Live
<1>3. Conns(u) = {d \in Live : UserOf[d] = u}
  BY <1>1, ConnsAreLive
<1>4. /\ DOMAIN users' = DOMAIN users \cup {u}
      /\ \A v \in DOMAIN users' :
            users'[v] = IF v = u THEN Conns(u) \cup {c} ELSE users[v]
  BY DEF HubRegister
<1>5. HubTypeOK'
  <2>1. /\ DOMAIN users' \subseteq UserIDs
        /\ \A v \in DOMAIN users' : users'[v] \subseteq Clients
    BY <1>1, <1>4 DEF HubTypeOK, Conns
  <2>. QED BY <2>1 DEF HubRegister, HubTypeOK, task
<1>6. RegistryExact'
  <2>1. DOMAIN users' = {UserOf[d] : d \in Live'}
    <3>1. DOMAIN users = {UserOf[d] : d \in Live}
      BY DEF RegistryExact
    <3>2. {UserOf[d] : d \in Live'} = {UserOf[d] : d \in Live} \cup {u}
      BY <1>2
    <3>3. DOMAIN users' = DOMAIN users \cup {u}
      BY <1>4
    <3>. QED BY <3>1, <3>2, <3>3
  <2>2. ASSUME NEW v \in DOMAIN users'
        PROVE  users'[v] = {d \in Live' : UserOf[d] = v}
    <3>1. CASE v = u
      BY <1>2, <1>3, <1>4, <3>1
    <3>2. CASE v # u
      <4>1. users'[v] = users[v] /\ v \in DOMAIN users
        BY <1>4, <3>2
      <4>2. users[v] = {d \in Live : UserOf[d] = v}
        BY <4>1 DEF RegistryExact
      <4>. QED BY <1>2, <3>2, <4>1, <4>2
    <3>. QED BY <3>1, <3>2
  <2>. QED BY <2>1, <2>2 DEF RegistryExact
<1>7. TaskInHand' /\ OnlyJoined'
  BY DEF HubRegister, TaskInHand, OnlyJoined, task
<1>8. NeverSendOnClosed'
  BY <1>2 DEF HubRegister, NeverSendOnClosed, task
<1>. QED BY <1>5, <1>6, <1>7, <1>8

LEMMA UnregisterInv ==
    ASSUME HubInv, NEW c \in joined, HubUnregister(c)
    PROVE  HubInv'
<1> USE DEF HubInv
<1>0. c \in Clients /\ UserOf[c] \in UserIDs
  BY HubAssumption DEF HubTypeOK
<1>1. CASE c \in Conns(UserOf[c])
  <2>1. RemoveConn(c) /\ closed' = closed \cup {c}
    BY <1>1 DEF HubUnregister
  <2>2. c \in Live
    BY <1>0, <1>1, ConnsAreLive
  <2>3. UNCHANGED <<send, hubPc, targets, pending, payload, ctxDone,
                    joined, accepted, offered, taken>>
    BY DEF HubUnregister, task, history
  <2>4. HubTypeOK'
    BY <1>0, <2>1, <2>3, RemoveConnType DEF HubTypeOK
  <2>5. RegistryExact'
    BY <2>1, <2>2, <2>3, RemoveConnExact
  <2>6. TaskInHand' /\ OnlyJoined' /\ NeverSendOnClosed'
    BY <2>1, <2>3 DEF HubUnregister, TaskInHand, OnlyJoined, NeverSendOnClosed
  <2>. QED BY <2>4, <2>5, <2>6
<1>2. CASE c \notin Conns(UserOf[c])
  <2>1. UNCHANGED hubVars
    BY <1>2 DEF HubUnregister, registry, task, history, hubVars
  <2>. QED BY <2>1 DEF hubVars, HubTypeOK, TaskInHand, OnlyJoined,
                       RegistryExact, NeverSendOnClosed, Live
<1>. QED BY <1>1, <1>2

LEMMA DeliverInv ==
    ASSUME HubInv, NEW p \in Payloads, NEW list \in TargetLists,
           HubDeliver(p, list)
    PROVE  HubInv'
<1> USE DEF HubInv
<1>1. list \in Seq(UserIDs)
  BY HubAssumption
<1>2. HubTypeOK'
  BY <1>1 DEF HubDeliver, HubTypeOK, registry
<1>3. TaskInHand' /\ OnlyJoined' /\ RegistryExact' /\ NeverSendOnClosed'
  BY DEF HubDeliver, registry, TaskInHand, OnlyJoined, RegistryExact,
         NeverSendOnClosed, Live
<1>. QED BY <1>2, <1>3

LEMMA TargetInv ==
    ASSUME HubInv, HubTarget
    PROVE  HubInv'
<1> DEFINE u == Head(targets)
<1> USE DEF HubInv
<1>1. u \in UserIDs /\ Tail(targets) \in Seq(UserIDs)
  BY HeadTailProperties DEF HubTarget, HubTypeOK
<1>2. pending' = {c \in Live : UserOf[c] = u}
  BY <1>1, ConnsAreLive DEF HubTarget
<1>3. payload \in Payloads
  BY DEF HubTarget, TaskInHand
<1>4. offered' \in [Clients -> Seq(Payloads)]
  BY <1>3, AppendProperties DEF HubTarget, HubTypeOK
<1>5. HubTypeOK'
  BY <1>1, <1>2, <1>4 DEF HubTarget, HubTypeOK, registry, Live
<1>6. TaskInHand' /\ OnlyJoined' /\ RegistryExact' /\ NeverSendOnClosed'
  BY <1>2, <1>3 DEF HubTarget, HubTypeOK, registry, TaskInHand, OnlyJoined,
                    RegistryExact, NeverSendOnClosed, Live
<1>. QED BY <1>5, <1>6

LEMMA SendInv ==
    ASSUME HubInv, NEW c \in Clients, HubSend(c)
    PROVE  HubInv'
<1> USE DEF HubInv
<1>1. payload \in Payloads /\ c \in joined
  BY DEF HubSend, TaskInHand, NeverSendOnClosed, Live
<1>2. send' \in [Clients -> Seq(Payloads)]
  BY <1>1, AppendProperties DEF HubSend, HubTypeOK
<1>3. \A d \in Clients : Len(send'[d]) <= ClientChanSize
  <2> TAKE d \in Clients
  <2>1. CASE d = c
    <3>1. send[c] \in Seq(Payloads) /\ Len(send[c]) \in Nat
      BY LenProperties DEF HubTypeOK
    <3>2. send'[c] = Append(send[c], payload)
      BY DEF HubSend, HubTypeOK
    <3>3. Len(send'[c]) = Len(send[c]) + 1
      BY <1>1, <3>1, <3>2, AppendProperties
    <3>. QED BY <2>1, <3>1, <3>3, HubAssumption DEF HubSend
  <2>2. CASE d # c
    BY <2>2 DEF HubSend, HubTypeOK
  <2>. QED BY <2>1, <2>2
<1>4. HubTypeOK'
  BY <1>2, <1>3 DEF HubSend, HubTypeOK, registry, history
<1>5. TaskInHand' /\ OnlyJoined' /\ RegistryExact' /\ NeverSendOnClosed'
  BY <1>1 DEF HubSend, HubTypeOK, registry, history, TaskInHand, OnlyJoined,
              RegistryExact, NeverSendOnClosed, Live
<1>. QED BY <1>4, <1>5

LEMMA DropSlowInv ==
    ASSUME HubInv, NEW c \in Clients, HubDropSlow(c)
    PROVE  HubInv'
<1> USE DEF HubInv
<1>1. c \in Live
  BY DEF HubDropSlow, NeverSendOnClosed
<1>2. /\ RemoveConn(c)
      /\ closed' = closed \cup {c}
      /\ pending' = pending \ {c}
      /\ UNCHANGED <<send, hubPc, targets, payload, ctxDone,
                     joined, accepted, offered, taken>>
  BY DEF HubDropSlow, history
<1>3. HubTypeOK'
  BY <1>2, RemoveConnType DEF HubTypeOK
<1>4. RegistryExact'
  BY <1>1, <1>2, RemoveConnExact
<1>5. TaskInHand' /\ OnlyJoined' /\ NeverSendOnClosed'
  BY <1>1, <1>2 DEF TaskInHand, OnlyJoined, NeverSendOnClosed, Live
<1>. QED BY <1>3, <1>4, <1>5

LEMMA TakeInv ==
    ASSUME HubInv, NEW c \in Clients, Take(c)
    PROVE  HubInv'
<1> USE DEF HubInv
<1>1. c \in joined
  BY DEF Take, OnlyJoined
<1>2. /\ Head(send[c]) \in Payloads
      /\ Tail(send[c]) \in Seq(Payloads)
      /\ Len(Tail(send[c])) = Len(send[c]) - 1
  BY HeadTailProperties DEF Take, HubTypeOK
<1>3. Len(send[c]) \in Nat
  BY LenProperties DEF HubTypeOK
<1>4. /\ send' \in [Clients -> Seq(Payloads)]
      /\ \A d \in Clients : Len(send'[d]) <= ClientChanSize
  BY <1>2, <1>3, HubAssumption DEF Take, HubTypeOK
<1>5. taken' \in [Clients -> Seq(Payloads)]
  BY <1>2, AppendProperties DEF Take, HubTypeOK
<1>6. HubTypeOK'
  BY <1>4, <1>5 DEF Take, HubTypeOK, registry, task
<1>7. TaskInHand' /\ OnlyJoined' /\ RegistryExact' /\ NeverSendOnClosed'
  BY <1>1 DEF Take, HubTypeOK, registry, task, TaskInHand, OnlyJoined,
              RegistryExact, NeverSendOnClosed, Live
<1>. QED BY <1>6, <1>7

(* The steps that touch neither the registry nor a channel.                *)
LEMMA ControlInv ==
    ASSUME HubInv, HubTaskDone \/ HubStop \/ Cancel \/ UNCHANGED hubVars
    PROVE  HubInv'
<1> USE DEF HubInv
<1>1. /\ UNCHANGED <<users, closed, send, targets, pending,
                     joined, accepted, offered, taken>>
      /\ payload' \in {payload, None}
      /\ ctxDone' \in {ctxDone, TRUE}
      /\ hubPc' # hubPc => pending = {} /\ hubPc' \in {"select", "stopped"}
      /\ payload' # payload => hubPc' = "select"
  BY DEF HubTaskDone, HubStop, Cancel, hubVars, registry, task, history,
         TaskInHand
<1>2. HubTypeOK'
  BY <1>1 DEF HubTypeOK
<1>3. TaskInHand' /\ OnlyJoined' /\ RegistryExact' /\ NeverSendOnClosed'
  BY <1>1 DEF TaskInHand, OnlyJoined, RegistryExact, NeverSendOnClosed, Live
<1>. QED BY <1>2, <1>3

(* Every step of the hub and its clients preserves HubInv.                 *)
LEMMA StepInv == HubInv /\ [HubNext]_hubVars => HubInv'
<1> SUFFICES ASSUME HubInv, [HubNext]_hubVars PROVE HubInv'
  OBVIOUS
<1>1. CASE \E c \in Clients \ joined : HubRegister(c)
  BY <1>1, RegisterInv
<1>2. CASE \E c \in joined : HubUnregister(c)
  BY <1>2, UnregisterInv
<1>3. CASE \E p \in Payloads \ accepted, list \in TargetLists :
              HubDeliver(p, list)
  BY <1>3, DeliverInv
<1>4. CASE HubTarget
  BY <1>4, TargetInv
<1>5. CASE \E c \in Clients : HubSend(c)
  BY <1>5, SendInv
<1>6. CASE \E c \in Clients : HubDropSlow(c)
  BY <1>6, DropSlowInv
<1>7. CASE \E c \in Clients : Take(c)
  BY <1>7, TakeInv
<1>8. CASE HubTaskDone \/ HubStop \/ Cancel \/ UNCHANGED hubVars
  BY <1>8, ControlInv
<1>. QED BY <1>1, <1>2, <1>3, <1>4, <1>5, <1>6, <1>7, <1>8
         DEF HubNext, HubIterate

LEMMA HubInvariance == HubSpec => []HubInv
BY InitInv, StepInv, PTL DEF HubSpec

(* The hub's state keeps its types, and no Send channel ever holds more    *)
(* than its capacity.                                                      *)
THEOREM HubTyped == HubSpec => []HubTypeOK
<1>1. HubInv => HubTypeOK
  BY DEF HubInv
<1>. QED BY <1>1, HubInvariance, PTL

(* Hub.Users always indexes exactly the open registered connections.       *)
THEOREM RegistryIsExact == HubSpec => []RegistryExact
<1>1. HubInv => RegistryExact
  BY DEF HubInv
<1>. QED BY <1>1, HubInvariance, PTL

(* The hub never sends on, or closes, a closed Send channel.               *)
THEOREM HubNeverPanics == HubSpec => []NeverSendOnClosed
<1>1. HubInv => NeverSendOnClosed
  BY DEF HubInv
<1>. QED BY <1>1, HubInvariance, PTL

-----------------------------------------------------------------------------
(* ChannelsCarryOffered, on top of HubInv: facts about sequences first.    *)

LEMMA PrefixOfConcat ==
    ASSUME NEW S, NEW s \in Seq(S), NEW r \in Seq(S)
    PROVE  IsPrefix(s, s \o r)
<1>1. Len(s) \in Nat /\ Len(r) \in Nat /\ Len(s \o r) = Len(s) + Len(r)
  BY LenProperties, ConcatProperties
<1>2. CASE s = <<>>
  <2>1. Len(s) = 0 /\ SubSeq(s, 1, 0) = <<>> /\ SubSeq(s \o r, 1, 0) = <<>>
    BY <1>2, EmptySeq, SubSeqEmpty
  <2>. QED BY <1>1, <2>1 DEF IsPrefix
<1>3. CASE s # <<>>
  <2>1. 1 \in 1..Len(s) /\ Len(s) \in 1..Len(s)
    BY <1>1, <1>3, EmptySeq
  <2>2. SubSeq(s \o r, 1, Len(s)) = SubSeq(s, 1, Len(s))
    BY <2>1, SubSeqOfConcat1
  <2>. QED BY <1>1, <2>2 DEF IsPrefix
<1>. QED BY <1>2, <1>3

LEMMA PrefixAppend ==
    ASSUME NEW S, NEW s \in Seq(S), NEW t \in Seq(S), NEW e \in S,
           IsPrefix(s, t)
    PROVE  IsPrefix(s, Append(t, e))
<1>1. /\ Len(s) \in Nat /\ Len(t) \in Nat /\ Len(s) <= Len(t)
      /\ Len(Append(t, e)) = Len(t) + 1
  BY LenProperties, AppendProperties DEF IsPrefix
<1>2. SubSeq(Append(t, e), 1, Len(s)) = SubSeq(t, 1, Len(s))
  <2>1. CASE Len(s) = 0
    BY <2>1, SubSeqEmpty
  <2>2. CASE Len(s) # 0
    <3>1. 1 \in 1..Len(t) /\ Len(s) \in 1..Len(t)
      BY <1>1, <2>2
    <3>2. <<e>> \in Seq(S) /\ Append(t, e) = t \o <<e>>
      BY AppendIsConcat
    <3>. QED BY <3>1, <3>2, SubSeqOfConcat1
  <2>. QED BY <2>1, <2>2
<1>. QED BY <1>1, <1>2 DEF IsPrefix

LEMMA ConcatOne ==
    ASSUME NEW S, NEW s \in Seq(S), NEW t \in Seq(S), NEW e \in S
    PROVE  (s \o t) \o <<e>> = s \o (t \o <<e>>)
<1> DEFINE u == <<e>>
<1>1. u \in Seq(S)
  OBVIOUS
<1> HIDE DEF u
<1>2. (s \o t) \o u = s \o (t \o u)
  BY <1>1, ConcatAssociative
<1>. QED BY <1>2 DEF u

(* Moving the head of t to the end of s leaves their concatenation alone.  *)
LEMMA MoveHead ==
    ASSUME NEW S, NEW s \in Seq(S), NEW t \in Seq(S), t # <<>>
    PROVE  Append(s, Head(t)) \o Tail(t) = s \o t
<1> DEFINE l == Append(s, Head(t)) \o Tail(t)
           r == s \o t
<1>1. /\ Len(s) \in Nat /\ Len(t) \in Nat \ {0}
      /\ Head(t) = t[1] /\ Head(t) \in S
      /\ Tail(t) \in Seq(S) /\ Len(Tail(t)) = Len(t) - 1
      /\ \A i \in 1..Len(Tail(t)) : Tail(t)[i] = t[i + 1]
  BY LenProperties, EmptySeq, HeadTailProperties
<1>2. /\ Append(s, Head(t)) \in Seq(S)
      /\ Len(Append(s, Head(t))) = Len(s) + 1
      /\ \A i \in 1..Len(s) : Append(s, Head(t))[i] = s[i]
      /\ Append(s, Head(t))[Len(s) + 1] = t[1]
  BY <1>1, AppendProperties
<1>3. /\ l \in Seq(S) /\ Len(l) = Len(s) + Len(t)
      /\ \A i \in 1..(Len(s) + Len(t)) :
            l[i] = IF i <= Len(s) + 1 THEN Append(s, Head(t))[i]
                   ELSE Tail(t)[i - (Len(s) + 1)]
  BY <1>1, <1>2, ConcatProperties
<1>4. /\ r \in Seq(S) /\ Len(r) = Len(s) + Len(t)
      /\ \A i \in 1..(Len(s) + Len(t)) :
            r[i] = IF i <= Len(s) THEN s[i] ELSE t[i - Len(s)]
  BY ConcatProperties
<1>5. \A i \in 1..Len(l) : l[i] = r[i]
  <2> TAKE i \in 1..Len(l)
  <2>1. CASE i <= Len(s)
    BY <1>1, <1>2, <1>3, <1>4, <2>1
  <2>2. CASE i = Len(s) + 1
    BY <1>1, <1>2, <1>3, <1>4, <2>2
  <2>3. CASE i > Len(s) + 1
    <3>1. i - (Len(s) + 1) \in 1..Len(Tail(t))
      BY <1>1, <1>3, <2>3
    <3>2. Tail(t)[i - (Len(s) + 1)] = t[i - Len(s)]
      BY <1>1, <3>1
    <3>. QED BY <1>1, <1>3, <1>4, <2>3, <3>2
  <2>. QED BY <1>1, <1>3, <2>1, <2>2, <2>3
<1>. QED BY <1>3, <1>4, <1>5, SeqEqual

-----------------------------------------------------------------------------
Handed(c) == taken[c] \o send[c]

LEMMA HandedType ==
    ASSUME HubTypeOK, NEW c \in Clients
    PROVE  Handed(c) \in Seq(Payloads)
BY ConcatProperties DEF HubTypeOK, Handed

(* A step that touches no channel and no delivery keeps what is carried.   *)
LEMMA CarriedUnchanged ==
    ASSUME ChannelsCarryOffered,
           UNCHANGED <<send, taken, offered, pending>>,
           pending = {} \/ payload' = payload,
           \A c \in Live' : c \in Live \/ (offered[c] = <<>> /\ taken[c] = <<>>
                                            /\ send[c] = <<>> /\ pending = {})
    PROVE  ChannelsCarryOffered'
<1>1. \A c : Owed(c)' = Owed(c)
  BY DEF Owed
<1>2. ASSUME NEW c \in Clients, c \in Live'
      PROVE  offered'[c] = (taken'[c] \o send'[c]) \o Owed(c)'
  <2>1. CASE c \in Live
    BY <1>1, <2>1 DEF ChannelsCarryOffered
  <2>2. CASE c \notin Live
    <3>1. Owed(c)' = <<>>
      BY <1>1, <1>2, <2>2 DEF Owed
    <3>2. (<<>> \o <<>>) \o <<>> = <<>>
      BY EmptySeq, ConcatEmptySeq
    <3>. QED BY <1>2, <2>2, <3>1, <3>2
  <2>. QED BY <2>1, <2>2
<1>. QED BY <1>2 DEF ChannelsCarryOffered

LEMMA TargetCarried ==
    ASSUME HubInv, ChannelsCarryOffered, HubTarget
    PROVE  ChannelsCarryOffered'
<1> DEFINE u == Head(targets)
<1> USE DEF HubInv
<1>1. /\ u \in UserIDs /\ payload \in Payloads /\ pending = {}
      /\ pending' = {c \in Live : UserOf[c] = u}
      /\ UNCHANGED <<send, taken, payload>> /\ Live' = Live
  BY HeadTailProperties, ConnsAreLive
     DEF HubTarget, HubTypeOK, TaskInHand, registry, Live
<1> SUFFICES ASSUME NEW c \in Clients
             PROVE  /\ c \in Live => offered'[c] = Handed(c) \o Owed(c)'
                    /\ IsPrefix(Handed(c), offered'[c])
  BY <1>1 DEF ChannelsCarryOffered, Handed
<1>2. Handed(c) \in Seq(Payloads) /\ offered[c] \in Seq(Payloads)
  BY HandedType DEF HubTypeOK
<1>3. /\ offered'[c] = IF c \in joined /\ UserOf[c] = u
                       THEN Append(offered[c], payload) ELSE offered[c]
      /\ IsPrefix(Handed(c), offered[c])
  BY DEF HubTarget, ChannelsCarryOffered, Handed
<1>4. IsPrefix(Handed(c), offered'[c])
  BY <1>1, <1>2, <1>3, PrefixAppend
<1>5. ASSUME c \in Live PROVE offered'[c] = Handed(c) \o Owed(c)'
  <2>1. offered[c] = Handed(c)
    <3>1. offered[c] = Handed(c) \o <<>>
      BY <1>1, <1>5 DEF ChannelsCarryOffered, Handed, Owed
    <3>. QED BY <1>2, <3>1, ConcatEmptySeq
  <2>2. CASE UserOf[c] = u
    <3>1. offered'[c] = Append(Handed(c), payload) /\ Owed(c)' = <<payload>>
      BY <1>1, <1>3, <1>5, <2>1, <2>2 DEF Live, Owed
    <3>. QED BY <1>1, <1>2, <3>1, AppendIsConcat
  <2>3. CASE UserOf[c] # u
    <3>1. offered'[c] = Handed(c) /\ Owed(c)' = <<>>
      BY <1>1, <1>3, <2>1, <2>3 DEF Owed
    <3>. QED BY <1>2, <3>1, ConcatEmptySeq
  <2>. QED BY <2>2, <2>3
<1>. QED BY <1>4, <1>5

LEMMA SendCarried ==
    ASSUME HubInv, ChannelsCarryOffered, NEW c \in Clients, HubSend(c)
    PROVE  ChannelsCarryOffered'
<1> USE DEF HubInv
<1>1. /\ payload \in Payloads /\ c \in pending /\ pending' = pending \ {c}
      /\ UNCHANGED <<taken, offered, payload>> /\ Live' = Live /\ c \in Live
      /\ send' = [send EXCEPT ![c] = Append(@, payload)]
  BY DEF HubSend, HubTypeOK, TaskInHand, NeverSendOnClosed, registry, history,
         Live
<1>2. /\ taken[c] \in Seq(Payloads) /\ send[c] \in Seq(Payloads)
      /\ Handed(c) \in Seq(Payloads) /\ <<payload>> \in Seq(Payloads)
  BY <1>1, HandedType, AppendProperties, EmptySeq DEF HubTypeOK
<1>3. offered[c] = Handed(c) \o <<payload>>
  BY <1>1 DEF ChannelsCarryOffered, Handed, Owed
<1>4. Handed(c)' = taken[c] \o (send[c] \o <<payload>>)
  <2>1. send'[c] = Append(send[c], payload) /\ taken'[c] = taken[c]
    BY <1>1 DEF HubTypeOK
  <2>2. Append(send[c], payload) = send[c] \o <<payload>>
    BY <1>1, <1>2, AppendIsConcat
  <2>. QED BY <2>1, <2>2 DEF Handed
<1>5. Handed(c)' = offered[c]
  <2>0. \A s, t \in Seq(Payloads), e \in Payloads :
            (s \o t) \o <<e>> = s \o (t \o <<e>>)
    BY ConcatOne
  <2>1. (taken[c] \o send[c]) \o <<payload>> = taken[c] \o (send[c] \o <<payload>>)
    BY <1>1, <1>2, <2>0, Zenon
  <2>2. offered[c] = (taken[c] \o send[c]) \o <<payload>>
    BY <1>3 DEF Handed
  <2>. QED BY <1>4, <2>1, <2>2
<1> SUFFICES ASSUME NEW d \in Clients
             PROVE  /\ d \in Live => offered[d] = Handed(d)' \o Owed(d)'
                    /\ IsPrefix(Handed(d)', offered[d])
  BY <1>1 DEF ChannelsCarryOffered, Handed
<1>6. CASE d = c
  <2>1. offered[c] \in Seq(Payloads) /\ Owed(c)' = <<>>
    BY <1>1 DEF HubTypeOK, Owed
  <2>2. offered[c] \o <<>> = offered[c]
    BY <2>1, ConcatEmptySeq
  <2>3. IsPrefix(offered[c], offered[c] \o <<>>)
    BY <2>1, EmptySeq, PrefixOfConcat
  <2>. QED BY <1>5, <1>6, <2>1, <2>2, <2>3
<1>7. CASE d # c
  <2>1. Handed(d)' = Handed(d) /\ Owed(d)' = Owed(d)
    BY <1>1, <1>7 DEF Handed, Owed, HubTypeOK
  <2>. QED BY <2>1 DEF ChannelsCarryOffered, Handed
<1>. QED BY <1>6, <1>7

LEMMA DropSlowCarried ==
    ASSUME HubInv, ChannelsCarryOffered, NEW c \in Clients, HubDropSlow(c)
    PROVE  ChannelsCarryOffered'
<1>1. /\ pending' = pending \ {c} /\ closed' = closed \cup {c}
      /\ UNCHANGED <<send, taken, offered, payload, joined>>
  BY DEF HubDropSlow, history
<1> SUFFICES ASSUME NEW d \in Clients
             PROVE  /\ d \in Live' => offered[d] = Handed(d) \o Owed(d)'
                    /\ IsPrefix(Handed(d), offered[d])
  BY <1>1 DEF ChannelsCarryOffered, Handed
<1>2. ASSUME d \in Live' PROVE d \in Live /\ Owed(d)' = Owed(d)
  BY <1>1, <1>2 DEF Live, Owed
<1>. QED BY <1>2 DEF ChannelsCarryOffered, Handed

LEMMA TakeCarried ==
    ASSUME HubInv, ChannelsCarryOffered, NEW c \in Clients, Take(c)
    PROVE  ChannelsCarryOffered'
<1> USE DEF HubInv
<1>1. /\ UNCHANGED <<pending, payload, offered>> /\ Live' = Live
      /\ send[c] # <<>> /\ send' = [send EXCEPT ![c] = Tail(@)]
      /\ taken' = [taken EXCEPT ![c] = Append(@, Head(send[c]))]
  BY DEF Take, registry, task, Live
<1> SUFFICES ASSUME NEW d \in Clients
             PROVE  Handed(d)' = Handed(d) /\ Owed(d)' = Owed(d)
  BY <1>1 DEF ChannelsCarryOffered, Handed
<1>2. Owed(d)' = Owed(d)
  BY <1>1 DEF Owed
<1>3. CASE d = c
  <2>1. /\ taken[c] \in Seq(Payloads) /\ send[c] \in Seq(Payloads)
        /\ Handed(c)' = Append(taken[c], Head(send[c])) \o Tail(send[c])
    BY <1>1 DEF HubTypeOK, Handed
  <2>. QED BY <1>1, <1>2, <1>3, <2>1, MoveHead DEF Handed
<1>4. CASE d # c
  BY <1>1, <1>2, <1>4 DEF Handed, HubTypeOK
<1>. QED BY <1>3, <1>4

(* Every other step leaves the channels, and what was offered, alone.      *)
LEMMA QuietCarried ==
    ASSUME HubInv, ChannelsCarryOffered,
           \/ \E c \in Clients \ joined : HubRegister(c)
           \/ \E c \in joined : HubUnregister(c)
           \/ \E p \in Payloads \ accepted, list \in TargetLists :
                 HubDeliver(p, list)
           \/ HubTaskDone \/ HubStop \/ Cancel \/ UNCHANGED hubVars
    PROVE  ChannelsCarryOffered'
<1> USE DEF HubInv
<1>1. CASE \E c \in Clients \ joined : HubRegister(c)
  <2>1. PICK c \in Clients \ joined : HubRegister(c)
    BY <1>1
  <2>2. /\ UNCHANGED <<send, taken, offered, pending, payload, closed>>
        /\ pending = {} /\ joined' = joined \cup {c}
    BY <2>1 DEF HubRegister, task, TaskInHand
  <2>3. send[c] = <<>> /\ offered[c] = <<>> /\ taken[c] = <<>>
    BY <2>1 DEF OnlyJoined
  <2>. QED BY <2>2, <2>3, CarriedUnchanged DEF Live
<1>2. CASE \E c \in joined : HubUnregister(c)
  <2>1. PICK c \in joined : HubUnregister(c)
    BY <1>2
  <2>2. /\ UNCHANGED <<send, taken, offered, pending, payload, joined>>
        /\ closed' \in {closed, closed \cup {c}}
    BY <2>1 DEF HubUnregister, registry, task, history
  <2>. QED BY <2>2, CarriedUnchanged DEF Live
<1>3. CASE \/ \E p \in Payloads \ accepted, list \in TargetLists :
                 HubDeliver(p, list)
           \/ HubTaskDone \/ HubStop \/ Cancel \/ UNCHANGED hubVars
  <2>1. /\ UNCHANGED <<send, taken, offered, pending, joined, closed>>
        /\ pending = {} \/ payload' = payload
    BY <1>3 DEF HubDeliver, HubTaskDone, HubStop, Cancel, hubVars, registry,
                task, history, TaskInHand
  <2>. QED BY <2>1, CarriedUnchanged DEF Live
<1>. QED BY <1>1, <1>2, <1>3

LEMMA StepCarried ==
    HubInv /\ ChannelsCarryOffered /\ [HubNext]_hubVars => ChannelsCarryOffered'
<1> SUFFICES ASSUME HubInv, ChannelsCarryOffered, [HubNext]_hubVars
             PROVE  ChannelsCarryOffered'
  OBVIOUS
<1>1. CASE HubTarget
  BY <1>1, TargetCarried
<1>2. CASE \E c \in Clients : HubSend(c)
  BY <1>2, SendCarried
<1>3. CASE \E c \in Clients : HubDropSlow(c)
  BY <1>3, DropSlowCarried
<1>4. CASE \E c \in Clients : Take(c)
  BY <1>4, TakeCarried
<1>5. CASE \/ \E c \in Clients \ joined : HubRegister(c)
           \/ \E c \in joined : HubUnregister(c)
           \/ \E p \in Payloads \ accepted, list \in TargetLists :
                 HubDeliver(p, list)
           \/ HubTaskDone \/ HubStop \/ Cancel \/ UNCHANGED hubVars
  BY <1>5, QuietCarried
<1>. QED BY <1>1, <1>2, <1>3, <1>4, <1>5 DEF HubNext, HubIterate

LEMMA InitCarried == HubInit => ChannelsCarryOffered
<1> SUFFICES ASSUME HubInit, NEW c \in Clients
             PROVE  /\ c \in Live => offered[c] = (taken[c] \o send[c]) \o Owed(c)
                    /\ IsPrefix(taken[c] \o send[c], offered[c])
  BY DEF ChannelsCarryOffered
<1>1. /\ c \notin Live
      /\ send[c] = <<>> /\ taken[c] = <<>> /\ offered[c] = <<>>
  BY DEF HubInit, Live
<1>2. <<>> \in Seq(Payloads) /\ <<>> \o <<>> = <<>>
  BY EmptySeq, ConcatEmptySeq
<1>3. IsPrefix(<<>>, <<>> \o <<>>)
  BY <1>2, PrefixOfConcat
<1>. QED BY <1>1, <1>2, <1>3

(* Every live connection is handed all that was addressed to it, in order; *)
(* a disconnected one a prefix of it.                                      *)
THEOREM ChannelsCarry == HubSpec => []ChannelsCarryOffered
<1>1. [](HubInv) /\ ChannelsCarryOffered /\ [][HubNext]_hubVars
         => []ChannelsCarryOffered
  BY StepCarried, PTL
<1>. QED BY <1>1, InitCarried, HubInvariance, PTL DEF HubSpec

=============================================================================
