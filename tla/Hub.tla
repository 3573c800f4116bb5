-------------------------------- MODULE Hub --------------------------------
(***************************************************************************)
(* The hub of internal/ws/hub.go: one goroutine that owns the registry of  *)
(* live connections and fans delivery tasks out to their Send channels.    *)
(*                                                                         *)
(* The hub is specified here against any clients that keep to its          *)
(* contract: a connection is registered at most once, it is unregistered   *)
(* only after that (but perhaps late, or twice), and somebody may or may   *)
(* not be reading its Send channel.  Module Session shows that the pumps   *)
(* of client.go and the handler that starts them keep to it.               *)
(*                                                                         *)
(* An unbuffered Go channel is a rendezvous: the receiving hub step is the *)
(* step of the sender too.  A Send channel is its buffered contents plus   *)
(* membership in "closed".  The loop over a task's users and the loop over *)
(* a user's connections take one step per iteration, so readers interleave *)
(* with a delivery in progress.                                            *)
(***************************************************************************)
EXTENDS Naturals, Sequences, SequencesExt

CONSTANTS
    UserIDs,         \* users the tokens name
    Clients,         \* WebSocket connections (*Client values)
    UserOf,          \* Client.UserID
    Payloads,        \* the publications made on the global channel
    TargetLists,     \* the values DeliveryTask.TargetUserIDs may take
    ClientChanSize,  \* capacity of Client.Send
    Cancellable,     \* whether the context given to Hub.Run may be cancelled
    None             \* no task in hand

ASSUME HubAssumption ==
    /\ UserOf \in [Clients -> UserIDs]
    /\ TargetLists \subseteq Seq(UserIDs)
    /\ ClientChanSize \in Nat \ {0}
    /\ Cancellable \in BOOLEAN
    /\ None \notin Payloads

VARIABLES
    users,     \* Hub.Users: user -> set of connections, a partial function
    send,      \* buffered contents of every Client.Send
    closed,    \* connections whose Send channel is closed
    hubPc,     \* "select", "deliver" (inside the Deliver case) or "stopped"
    targets,   \* users of the task in hand still to be visited
    pending,   \* connections of the current user still to be visited
    payload,   \* payload of the task in hand
    ctxDone    \* the context of Hub.Run is cancelled

(* History: what the contract is about, read by no step of the program.    *)
VARIABLES
    joined,    \* connections the hub has received on Register
    accepted,  \* payloads the hub has received on Deliver
    offered,   \* per connection, the payloads addressed to it since it joined
    taken      \* per connection, the payloads its reader got out of Send

registry == <<users, closed>>
task     == <<targets, pending, payload>>
history  == <<joined, accepted, offered, taken>>
hubVars  == <<users, send, closed, hubPc, targets, pending, payload, ctxDone,
              joined, accepted, offered, taken>>

-----------------------------------------------------------------------------
(* h.Users[u], where a missing key reads as the nil (empty) set.           *)
Conns(u) == IF u \in DOMAIN users THEN users[u] ELSE {}

(* Connections registered and not yet disconnected by the hub.             *)
Live == joined \ closed

HubInit ==
    /\ users = [u \in {} |-> {}]
    /\ send = [c \in Clients |-> <<>>]
    /\ closed = {}
    /\ hubPc = "select"
    /\ targets = <<>>
    /\ pending = {}
    /\ payload = None
    /\ ctxDone = FALSE
    /\ joined = {}
    /\ accepted = {}
    /\ offered = [c \in Clients |-> <<>>]
    /\ taken = [c \in Clients |-> <<>>]

(* case client := <-h.Register                                             *)
HubRegister(c) ==
    LET u == UserOf[c]
    IN  /\ hubPc = "select"
        /\ users' = [v \in DOMAIN users \cup {u} |->
                        IF v = u THEN Conns(u) \cup {c} ELSE users[v]]
        /\ joined' = joined \cup {c}
        /\ UNCHANGED <<send, closed, hubPc, task, ctxDone,
                       accepted, offered, taken>>

\* Variant: the emptied set of a user who has gone is left in the map.
RemoveConnKeepingKey(c) ==
    users' = [users EXCEPT ![UserOf[c]] = @ \ {c}]

(* delete(connections, client), and delete(h.Users, userID) when that was  *)
(* the user's last connection.                                             *)
RemoveConn(c) ==
    LET u    == UserOf[c]
        left == Conns(u) \ {c}
    IN  users' = [v \in (IF left = {} THEN DOMAIN users \ {u} ELSE DOMAIN users)
                    |-> IF v = u THEN left ELSE users[v]]

(* case client := <-h.Unregister, ignored when the hub has already         *)
(* disconnected the client.                                                *)
HubUnregister(c) ==
    /\ hubPc = "select"
    /\ \/ /\ c \in Conns(UserOf[c])
          /\ RemoveConn(c)
          /\ closed' = closed \cup {c}
       \/ /\ c \notin Conns(UserOf[c])
          /\ UNCHANGED registry
    /\ UNCHANGED <<send, hubPc, task, ctxDone, history>>

(* case task := <-h.Deliver                                                *)
HubDeliver(p, list) ==
    /\ hubPc = "select"
    /\ hubPc' = "deliver"
    /\ targets' = list
    /\ payload' = p
    /\ accepted' = accepted \cup {p}
    /\ UNCHANGED <<registry, send, pending, ctxDone, joined, offered, taken>>

(* The next userID of the task: its connections are the ones to visit, and *)
(* none when the user is offline here.                                     *)
HubTarget ==
    /\ hubPc = "deliver" /\ pending = {} /\ targets # <<>>
    /\ targets' = Tail(targets)
    /\ pending' = Conns(Head(targets))
    /\ offered' = [c \in Clients |->
                      IF c \in joined /\ UserOf[c] = Head(targets)
                      THEN Append(offered[c], payload) ELSE offered[c]]
    /\ UNCHANGED <<registry, send, hubPc, payload, ctxDone,
                   joined, accepted, taken>>

\* Variant: the send does not look at the buffer's capacity.
HubSendUnchecked(c) ==
    /\ hubPc = "deliver" /\ c \in pending
    /\ send' = [send EXCEPT ![c] = Append(@, payload)]
    /\ pending' = pending \ {c}
    /\ UNCHANGED <<registry, hubPc, targets, payload, ctxDone, history>>

(* case client.Send <- task.Payload                                        *)
HubSend(c) ==
    /\ hubPc = "deliver" /\ c \in pending
    /\ Len(send[c]) < ClientChanSize
    /\ send' = [send EXCEPT ![c] = Append(@, payload)]
    /\ pending' = pending \ {c}
    /\ UNCHANGED <<registry, hubPc, targets, payload, ctxDone, history>>

\* Variant: no default case, so the hub waits until the reader makes room.
HubDropSlowBlocking(c) ==
    FALSE /\ c \in pending /\ UNCHANGED hubVars

\* Variant: the message of a slow client is skipped and the client is kept.
HubDropSlowSkipping(c) ==
    /\ hubPc = "deliver" /\ c \in pending
    /\ Len(send[c]) = ClientChanSize
    /\ pending' = pending \ {c}
    /\ UNCHANGED <<registry, send, hubPc, targets, payload, ctxDone, history>>

\* Variant: the channel of a slow client is closed and the client stays in
\* the registry.
HubDropSlowCloseOnly(c) ==
    /\ hubPc = "deliver" /\ c \in pending
    /\ Len(send[c]) = ClientChanSize
    /\ closed' = closed \cup {c}
    /\ pending' = pending \ {c}
    /\ UNCHANGED <<users, send, hubPc, targets, payload, ctxDone, history>>

(* default: the buffer is full, the client is disconnected.                *)
HubDropSlow(c) ==
    /\ hubPc = "deliver" /\ c \in pending
    /\ Len(send[c]) = ClientChanSize
    /\ closed' = closed \cup {c}
    /\ RemoveConn(c)
    /\ pending' = pending \ {c}
    /\ UNCHANGED <<send, hubPc, targets, payload, ctxDone, history>>

(* Both loops are over: back to the select.                                *)
HubTaskDone ==
    /\ hubPc = "deliver" /\ pending = {} /\ targets = <<>>
    /\ hubPc' = "select"
    /\ payload' = None
    /\ UNCHANGED <<registry, send, targets, pending, ctxDone, history>>

(* case <-ctx.Done(): the goroutine returns and nothing is closed.         *)
HubStop ==
    /\ hubPc = "select" /\ ctxDone
    /\ hubPc' = "stopped"
    /\ UNCHANGED <<registry, send, task, ctxDone, history>>

(* Whoever started the hub cancels its context.                            *)
Cancel ==
    /\ Cancellable /\ ~ctxDone
    /\ ctxDone' = TRUE
    /\ UNCHANGED <<registry, send, hubPc, task, history>>

(* A reader receives from Send; a closed channel still yields what it      *)
(* buffers.                                                                *)
Take(c) ==
    /\ send[c] # <<>>
    /\ send' = [send EXCEPT ![c] = Tail(@)]
    /\ taken' = [taken EXCEPT ![c] = Append(@, Head(send[c]))]
    /\ UNCHANGED <<registry, hubPc, task, ctxDone, joined, accepted, offered>>

-----------------------------------------------------------------------------
(* The iterations of a delivery, which wait for nobody.                    *)
HubIterate ==
    \/ HubTarget
    \/ HubTaskDone
    \/ \E c \in Clients : HubSend(c) \/ HubDropSlow(c)

(* The contract of the clients: Register at most once, Unregister only     *)
(* after it, and a payload is delivered at most once.                      *)
HubNext ==
    \/ \E c \in Clients \ joined : HubRegister(c)
    \/ \E c \in joined : HubUnregister(c)
    \/ \E p \in Payloads \ accepted, list \in TargetLists : HubDeliver(p, list)
    \/ HubIterate
    \/ HubStop
    \/ Cancel
    \/ \E c \in Clients : Take(c)

(* The hub's goroutine is scheduled as long as it is not blocked; no reader*)
(* is assumed to make progress.                                            *)
HubSpec     == HubInit /\ [][HubNext]_hubVars
FairHubSpec == HubSpec /\ WF_hubVars(HubIterate)

-----------------------------------------------------------------------------
(* The types of the hub's state; a Send channel never holds more than its  *)
(* capacity.                                                               *)
HubTypeOK ==
    /\ DOMAIN users \subseteq UserIDs
    /\ \A u \in DOMAIN users : users[u] \subseteq Clients
    /\ send \in [Clients -> Seq(Payloads)]
    /\ \A c \in Clients : Len(send[c]) <= ClientChanSize
    /\ closed \subseteq Clients
    /\ hubPc \in {"select", "deliver", "stopped"}
    /\ targets \in Seq(UserIDs)
    /\ pending \subseteq Clients
    /\ payload \in Payloads \cup {None}
    /\ ctxDone \in BOOLEAN
    /\ joined \subseteq Clients
    /\ accepted \subseteq Payloads
    /\ offered \in [Clients -> Seq(Payloads)]
    /\ taken \in [Clients -> Seq(Payloads)]

(* Hub.Users indexes exactly the connections that registered and whose     *)
(* channel is still open, by their user: no connection is lost from the    *)
(* map with its channel open (its write pump would wait for ever), none    *)
(* stays with its channel closed, and no user keeps an empty entry.        *)
RegistryExact ==
    /\ DOMAIN users = {UserOf[c] : c \in Live}
    /\ \A u \in DOMAIN users : users[u] = {c \in Live : UserOf[c] = u}

(* The hub never sends on, or closes, a closed channel (either panics):    *)
(* every connection a delivery still has to visit is open, however the     *)
(* earlier iterations of the same task closed others.                      *)
NeverSendOnClosed == pending \subseteq Live

(* What the hub still owes connection c in the iteration it is in.         *)
Owed(c) == IF c \in pending THEN <<payload>> ELSE <<>>

(* A live connection has been handed every payload addressed to it since   *)
(* it registered, in the order the hub took the tasks, without a gap, a    *)
(* repetition or a swap; a disconnected one has been handed a prefix.      *)
ChannelsCarryOffered ==
    \A c \in Clients :
        /\ c \in Live => offered[c] = (taken[c] \o send[c]) \o Owed(c)
        /\ IsPrefix(taken[c] \o send[c], offered[c])

(* A delivery always ends, whether or not anybody reads the Send channels: *)
(* a stuck client cannot block the hub.                                    *)
HubNeverBlocks == hubPc = "deliver" ~> hubPc = "select"

=============================================================================
