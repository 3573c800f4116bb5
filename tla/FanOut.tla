------------------------------- MODULE FanOut -------------------------------
(***************************************************************************)
(* What one instance of the service promises to the peers of its sessions: *)
(* a message is saved before it is published, and may be published more    *)
(* than once; the publications that reach the instance form one log, and   *)
(* every session is shown publications of that log in its order, each at   *)
(* most once, from the time it is open until it has gone, which it never   *)
(* comes back from.  Some may be passed over: for a session of a user who  *)
(* is not a member, or for want of the look-up.                            *)
(*                                                                         *)
(* ChatService implements this specification.                              *)
(***************************************************************************)
EXTENDS Naturals, Sequences

CONSTANTS
    Peers,         \* sessions
    Publications,
    Messages,
    MessageOf,     \* the message a publication carries
    Own            \* messages that are saved by sessions of this instance

VARIABLES
    saved,      \* messages the history will show
    log,        \* publications that reached this instance, in order
    state,      \* session -> "new", "open" or "gone"
    seen,       \* session -> what its peer has been shown, in order
    at          \* session -> place in the log of the last of these, 0 for none

fanOutVars == <<saved, log, state, seen, at>>

FanOutInit ==
    /\ saved = Messages \ Own
    /\ log = <<>>
    /\ state = [c \in Peers |-> "new"]
    /\ seen = [c \in Peers |-> <<>>]
    /\ at = [c \in Peers |-> 0]

SaveMessage(m) ==
    /\ saved' = saved \cup {m}
    /\ UNCHANGED <<log, state, seen, at>>

PublishMessage(p) ==
    /\ MessageOf[p] \in saved
    /\ \A i \in DOMAIN log : log[i] # p
    /\ log' = Append(log, p)
    /\ UNCHANGED <<saved, state, seen, at>>

Move(c, from, to) ==
    /\ state[c] \in from
    /\ state' = [state EXCEPT ![c] = to]
    /\ UNCHANGED <<saved, log, seen, at>>

(* The peer is shown a publication further on in the log.                  *)
ShowMessage(c) ==
    /\ state[c] = "open"
    /\ \E i \in DOMAIN log :
          /\ i > at[c]
          /\ seen' = [seen EXCEPT ![c] = Append(@, log[i])]
          /\ at' = [at EXCEPT ![c] = i]
    /\ UNCHANGED <<saved, log, state>>

FanOutNext ==
    \/ \E m \in Messages : SaveMessage(m)
    \/ \E p \in Publications : PublishMessage(p)
    \/ \E c \in Peers :
          Move(c, {"new"}, "open") \/ Move(c, {"new", "open"}, "gone") \/ ShowMessage(c)

FanOutSpec == FanOutInit /\ [][FanOutNext]_fanOutVars

-----------------------------------------------------------------------------
(* What follows for every implementation: the log has publications of      *)
(* saved messages only, none of them twice, and a session is shown nothing *)
(* that is not in the log, at increasing places of it.                     *)
FanOutInv ==
    /\ \A i \in DOMAIN log : MessageOf[log[i]] \in saved
    /\ \A i, j \in DOMAIN log : log[i] = log[j] => i = j
    /\ \A c \in Peers :
          /\ at[c] \in 0..Len(log)
          /\ \A k \in DOMAIN seen[c] : \E i \in 1..at[c] : log[i] = seen[c][k]
          /\ \A j, k \in DOMAIN seen[c] :
                j < k => \E m, n \in 1..at[c] :
                            m < n /\ log[m] = seen[c][j] /\ log[n] = seen[c][k]

=============================================================================
