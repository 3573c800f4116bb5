------------------------------ MODULE Session ------------------------------
(***************************************************************************)
(* WebSocket sessions: the handler goroutine of every connection (WSHandler*)
(* of message_handlers.go, then ReadPump of ws/client.go) and its writer   *)
(* goroutine (WritePump), running against the hub of module Hub.           *)
(*                                                                         *)
(* Every step that can block is an action: a rendezvous with the hub, a    *)
(* read, write, ping or close of the connection, a call of the membership  *)
(* cache, of the message store and of Redis.  What those calls answer is   *)
(* left open here; MembershipCache models the first.                       *)
(*                                                                         *)
(* A connection is "up" until the peer is gone, a write fails or times out,*)
(* or either pump closes it; from then on every read and write fails, as   *)
(* in the coder/websocket library, which closes the socket on a write that *)
(* times out and keeps the first write error.                              *)
(***************************************************************************)
EXTENDS Hub

CONSTANTS
    Messages,    \* messages of the chat, of this instance and of others
    MessageOf,   \* the message a publication carries; a message may be published
                 \* more than once
    Frames       \* the messages that publishable frames of the peers become

ASSUME FramesAssumption ==
    /\ Frames \subseteq Messages
    /\ MessageOf \in [Payloads -> Messages]

VARIABLES
    rpc,        \* handler goroutine: WSHandler, then ReadPump
    wpc,        \* WritePump goroutine
    conn,       \* "up" or "down"
    inflight,   \* the message WritePump is writing
    wire,       \* messages written to the peer, in order
    frame,      \* the frame ReadPump is processing
    framed,     \* frames read so far, by anyone
    stored,     \* messages in the store
    sent,       \* messages whose PUBLISH was sent by a call that has returned
    published   \* publications Redis has made of the PUBLISH commands sent to it

readVars    == <<frame, framed, stored, sent, published>>
writeVars   == <<inflight, wire>>
sessionVars == <<rpc, wpc, conn, inflight, wire, frame, framed, stored,
                 sent, published>>
vars        == <<users, send, closed, hubPc, targets, pending, payload, ctxDone,
                 joined, accepted, offered, taken,
                 rpc, wpc, conn, inflight, wire, frame, framed, stored,
                 sent, published>>

ReaderPcs == {"request", "register", "start", "read", "check", "save",
              "publish", "unregister", "close", "done"}
WriterPcs == {"none", "select", "write", "ping", "close", "done"}

ReaderGoes(c, from, to) == rpc[c] = from /\ rpc' = [rpc EXCEPT ![c] = to]
WriterGoes(c, from, to) == wpc[c] = from /\ wpc' = [wpc EXCEPT ![c] = to]
ConnBecomes(c, state)   == conn' = [conn EXCEPT ![c] = state]

SessionInit ==
    /\ rpc = [c \in Clients |-> "request"]
    /\ wpc = [c \in Clients |-> "none"]
    /\ conn = [c \in Clients |-> "down"]
    /\ inflight = [c \in Clients |-> None]
    /\ wire = [c \in Clients |-> <<>>]
    /\ frame = [c \in Clients |-> None]
    /\ framed = {}
    /\ stored = {}
    /\ sent = {}
    /\ published = {}

-----------------------------------------------------------------------------
(* WSHandler: websocket.Accept succeeds or the handshake fails.            *)
Accept(c) ==
    \/ /\ ReaderGoes(c, "request", "register")
       /\ ConnBecomes(c, "up")
       /\ UNCHANGED <<hubVars, wpc, readVars, writeVars>>
    \/ /\ ReaderGoes(c, "request", "done")
       /\ UNCHANGED <<hubVars, wpc, conn, readVars, writeVars>>

(* hub.Register <- client, received by the hub.                            *)
Register(c) ==
    /\ ReaderGoes(c, "register", "start")
    /\ HubRegister(c)
    /\ UNCHANGED <<wpc, conn, readVars, writeVars>>

(* go client.WritePump(...), then client.ReadPump(...) in this goroutine.  *)
StartPumps(c) ==
    /\ ReaderGoes(c, "start", "read")
    /\ WriterGoes(c, "none", "select")
    /\ UNCHANGED <<hubVars, conn, readVars, writeVars>>

-----------------------------------------------------------------------------
(* ReadPump.  A frame that does not unmarshal is skipped and changes       *)
(* nothing, so only the others are steps.                                  *)
ReadFrame(c, m) ==
    /\ conn[c] = "up"
    /\ ReaderGoes(c, "read", "check")
    /\ frame' = [frame EXCEPT ![c] = m]
    /\ framed' = framed \cup {m}
    /\ UNCHANGED <<hubVars, wpc, conn, writeVars, stored, sent, published>>

\* Variant: the loop goes on after a read error.
ReadFailContinuing(c) ==
    /\ conn[c] = "down"
    /\ ReaderGoes(c, "read", "read")
    /\ UNCHANGED <<hubVars, wpc, conn, readVars, writeVars>>

\* Variant: the deferred function closes the connection but does not
\* unregister.
ReadFailNoUnregister(c) ==
    /\ conn[c] = "down"
    /\ ReaderGoes(c, "read", "close")
    /\ UNCHANGED <<hubVars, wpc, conn, readVars, writeVars>>

(* Conn.Read returns an error: the loop is left for the deferred function. *)
ReadFail(c) ==
    /\ conn[c] = "down"
    /\ ReaderGoes(c, "read", "unregister")
    /\ UNCHANGED <<hubVars, wpc, conn, readVars, writeVars>>

BackToRead(c, from) ==
    /\ ReaderGoes(c, from, "read")
    /\ frame' = [frame EXCEPT ![c] = None]

(* Cache.IsUserInChat answers: a member goes on; anyone else, and every    *)
(* error, drops the frame.                                                 *)
CheckMember(c) ==
    \/ /\ ReaderGoes(c, "check", "save")
       /\ UNCHANGED <<hubVars, wpc, conn, readVars, writeVars>>
    \/ /\ BackToRead(c, "check")
       /\ UNCHANGED <<hubVars, wpc, conn, writeVars, framed, stored, sent, published>>

\* Variant: an error of SaveMessage is logged and the loop goes on to publish.
SaveIgnoringError(c) ==
    /\ ReaderGoes(c, "save", "publish")
    /\ stored' \in {stored, stored \cup {frame[c]}}
    /\ UNCHANGED <<hubVars, wpc, conn, writeVars, frame, framed, sent, published>>

(* MessageUsecase.SaveMessage: on success the message is stored; an error  *)
(* drops the frame, and after a timeout the insert may have happened.      *)
Save(c) ==
    \/ /\ ReaderGoes(c, "save", "publish")
       /\ stored' = stored \cup {frame[c]}
       /\ UNCHANGED <<hubVars, wpc, conn, writeVars, frame, framed, sent, published>>
    \/ /\ BackToRead(c, "save")
       /\ stored' \in {stored, stored \cup {frame[c]}}
       /\ UNCHANGED <<hubVars, wpc, conn, writeVars, framed, sent, published>>

(* rdb.Publish returns, with a result nobody looks at.                     *)
Publish(c) ==
    /\ BackToRead(c, "publish")
    /\ sent' = sent \cup {frame[c]}
    /\ UNCHANGED <<hubVars, wpc, conn, writeVars, framed, stored, published>>

(* Redis executes a PUBLISH sent to it.  The client of main.go:40 has the  *)
(* default options: it sends the command again after an end of file or a   *)
(* timeout, which say nothing of the command it has sent.  So Redis may    *)
(* execute none of them or several, during the call or after it.           *)
RedisPublish(p) ==
    /\ p \notin published
    /\ \/ MessageOf[p] \in sent
       \/ \E c \in Clients : rpc[c] = "publish" /\ frame[c] = MessageOf[p]
    /\ published' = published \cup {p}
    /\ UNCHANGED <<hubVars, rpc, wpc, conn, writeVars, frame, framed, stored, sent>>

\* Variant: the handler registers the same client again after a read error.
UnregisterAndRetry(c) ==
    /\ ReaderGoes(c, "unregister", "register")
    /\ HubUnregister(c)
    /\ UNCHANGED <<wpc, conn, readVars, writeVars>>

(* The deferred function: c.Hub.Unregister <- c, received by the hub ...   *)
Unregister(c) ==
    /\ ReaderGoes(c, "unregister", "close")
    /\ HubUnregister(c)
    /\ UNCHANGED <<wpc, conn, readVars, writeVars>>

(* ... then Conn.Close; the handler returns, which ends the request and    *)
(* cancels its context.                                                    *)
CloseReader(c) ==
    /\ ReaderGoes(c, "close", "done")
    /\ ConnBecomes(c, "down")
    /\ UNCHANGED <<hubVars, wpc, readVars, writeVars>>

-----------------------------------------------------------------------------
(* WritePump: case message, ok := <-c.Send, with ok.                       *)
WriterTake(c) ==
    /\ WriterGoes(c, "select", "write")
    /\ Take(c)
    /\ inflight' = [inflight EXCEPT ![c] = Head(send[c])]
    /\ UNCHANGED <<rpc, conn, readVars, wire>>

\* Variant: ok is not looked at, and the zero value is written like a message.
WriterClosedWriting(c) ==
    /\ c \in closed /\ send[c] = <<>>
    /\ WriterGoes(c, "select", "write")
    /\ UNCHANGED <<hubVars, rpc, conn, readVars, writeVars>>

(* The same case without ok: the channel is closed and drained.            *)
WriterClosed(c) ==
    /\ c \in closed /\ send[c] = <<>>
    /\ WriterGoes(c, "select", "close")
    /\ UNCHANGED <<hubVars, rpc, conn, readVars, writeVars>>

(* case <-ctx.Done(): the request's context, cancelled once the handler    *)
(* has returned.                                                           *)
WriterCtxDone(c) ==
    /\ rpc[c] = "done"
    /\ WriterGoes(c, "select", "close")
    /\ UNCHANGED <<hubVars, rpc, conn, readVars, writeVars>>

(* case <-ticker.C                                                         *)
WriterTick(c) ==
    /\ WriterGoes(c, "select", "ping")
    /\ UNCHANGED <<hubVars, rpc, conn, readVars, writeVars>>

(* Conn.Write.  An error, the 10 s timeout among them, is logged and the   *)
(* loop goes on; the library has closed the connection.                    *)
Write(c) ==
    /\ WriterGoes(c, "write", "select")
    /\ inflight' = [inflight EXCEPT ![c] = None]
    /\ \/ /\ conn[c] = "up"
          /\ wire' = [wire EXCEPT ![c] = Append(@, inflight[c])]
          /\ UNCHANGED conn
       \/ /\ ConnBecomes(c, "down")
          /\ UNCHANGED wire
    /\ UNCHANGED <<hubVars, rpc, readVars>>

(* Conn.Ping.  The pong is seen only by a reader inside Conn.Read; a peer  *)
(* that is slow, or a reader busy elsewhere for 10 s, is an error.         *)
Ping(c) ==
    /\ \/ conn[c] = "up" /\ rpc[c] = "read" /\ WriterGoes(c, "ping", "select")
       \/ WriterGoes(c, "ping", "close")
    /\ UNCHANGED <<hubVars, rpc, conn, readVars, writeVars>>

\* Variant: the deferred Conn.Close is missing.
CloseWriterLeavingConn(c) ==
    /\ WriterGoes(c, "close", "done")
    /\ UNCHANGED <<hubVars, rpc, conn, readVars, writeVars>>

(* The deferred Conn.Close of WritePump.                                   *)
CloseWriter(c) ==
    /\ WriterGoes(c, "close", "done")
    /\ ConnBecomes(c, "down")
    /\ UNCHANGED <<hubVars, rpc, readVars, writeVars>>

-----------------------------------------------------------------------------
(* The peer closes the connection, breaks it, or exceeds maxMessageSize.   *)
PeerGone(c) ==
    /\ conn[c] = "up"
    /\ ConnBecomes(c, "down")
    /\ UNCHANGED <<hubVars, rpc, wpc, readVars, writeVars>>

Handler(c) ==
    \/ Accept(c) \/ Register(c) \/ StartPumps(c)
    \/ \E m \in Frames \ framed : ReadFrame(c, m)
    \/ ReadFail(c) \/ CheckMember(c) \/ Save(c) \/ Publish(c)
    \/ Unregister(c) \/ CloseReader(c)

Writer(c) ==
    \/ WriterTake(c) \/ WriterClosed(c) \/ WriterCtxDone(c) \/ WriterTick(c)
    \/ Write(c) \/ Ping(c) \/ CloseWriter(c)

(* The hub between its meetings with the handlers.                         *)
HubAlone ==
    /\ HubIterate \/ HubStop \/ Cancel
    /\ UNCHANGED sessionVars

(* Some subscriber hands the hub a task.                                   *)
AnyDelivery ==
    /\ \E p \in Payloads \ accepted, list \in TargetLists : HubDeliver(p, list)
    /\ UNCHANGED sessionVars

Sessions ==
    \/ \E c \in Clients : Handler(c) \/ Writer(c) \/ PeerGone(c)
    \/ \E p \in Payloads : RedisPublish(p)

Init == HubInit /\ SessionInit
Next == Sessions \/ HubAlone \/ AnyDelivery

(* Every goroutine runs unless it is blocked, the network, the cache, the  *)
(* store and Redis answer every call in the end, and a Go select picks at  *)
(* random among its ready cases, so that none of them is passed over for   *)
(* ever (the strong fairness).  Nothing is assumed of peers: a session may *)
(* stay idle, and the hub may never be stopped; nor of Redis, which may    *)
(* never execute a PUBLISH.                                                *)
HandlerFairness(c) ==
    /\ WF_vars(StartPumps(c)) /\ WF_vars(ReadFail(c)) /\ WF_vars(CheckMember(c))
    /\ WF_vars(Save(c)) /\ WF_vars(Publish(c)) /\ WF_vars(CloseReader(c))
    /\ SF_vars(Register(c)) /\ SF_vars(Unregister(c))

WriterFairness(c) ==
    /\ WF_vars(Write(c)) /\ WF_vars(Ping(c)) /\ WF_vars(CloseWriter(c))
    /\ SF_vars(WriterTake(c)) /\ SF_vars(WriterClosed(c)) /\ SF_vars(WriterCtxDone(c))

Fairness ==
    /\ \A c \in Clients : HandlerFairness(c) /\ WriterFairness(c)
    /\ WF_vars(HubIterate /\ UNCHANGED sessionVars)

Spec     == Init /\ [][Next]_vars
FairSpec == Spec /\ Fairness

-----------------------------------------------------------------------------
(* The types of the sessions' state.                                       *)
SessionTypeOK ==
    /\ rpc \in [Clients -> ReaderPcs]
    /\ wpc \in [Clients -> WriterPcs]
    /\ conn \in [Clients -> {"up", "down"}]
    /\ inflight \in [Clients -> Payloads \cup {None}]
    /\ wire \in [Clients -> Seq(Payloads)]
    /\ frame \in [Clients -> Frames \cup {None}]
    /\ framed \subseteq Frames
    /\ stored \subseteq Frames
    /\ sent \subseteq Frames
    /\ published \subseteq {p \in Payloads : MessageOf[p] \in Frames}

(* The handlers and pumps keep the contract the hub is specified against:  *)
(* whatever they and the network do, the hub goes through steps of HubNext.*)
KeepsHubContract == HubInit /\ [][HubNext]_hubVars

(* The peer sees, in order and without a gap, a prefix of the payloads the *)
(* hub addressed to its connection since it registered: a write error is   *)
(* never followed by a later message, although WritePump does not leave its*)
(* loop, and a slow client loses only a suffix.                            *)
WireIsPrefix == \A c \in Clients : IsPrefix(wire[c], offered[c])

(* A handler that has returned has left nothing behind in the hub: its     *)
(* connection is out of the registry and its Send channel closed, so that  *)
(* the hub will not fill a channel nobody reads.                           *)
ReturnedIsForgotten ==
    \A c \in Clients : rpc[c] \in {"close", "done"} => c \notin Live

Ended(c) == rpc[c] = "done" /\ wpc[c] \in {"none", "done"}

(* Once the hub has disconnected a client, or its connection is down, both *)
(* of its goroutines end, whichever of them notices first -- unless the hub*)
(* has been stopped.                                                       *)
SessionEnds ==
    \A c \in Clients :
        (c \in closed \/ (c \in joined /\ conn[c] = "down"))
            ~> (Ended(c) \/ hubPc = "stopped")

(* What is in a Send channel is written to the peer, unless the connection *)
(* goes down: also what the hub left behind when it closed the channel.    *)
QueuedIsWritten ==
    \A c \in Clients, p \in Payloads :
        (\E i \in DOMAIN send[c] : send[c][i] = p)
            ~> ((\E i \in DOMAIN wire[c] : wire[c][i] = p) \/ conn[c] = "down")

(* message_handlers.go:183, "the handler will hang here until the client   *)
(* disconnects": once the connection is down the handler returns.          *)
HandlerReturns ==
    \A c \in Clients : (c \in joined /\ conn[c] = "down") ~> rpc[c] = "done"

=============================================================================
