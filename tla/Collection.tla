----------------------------- MODULE Collection -----------------------------
(***************************************************************************)
(* What the messages collection promises to those who use it, whichever    *)
(* requests, sessions, failures and restarts are behind it: an id stands   *)
(* for one message for ever, a message stays in its chat and with its      *)
(* author, its text is always of the author's own hand and is never edited *)
(* away, and a message that has been removed does not come back.           *)
(*                                                                         *)
(* MessageStore and Requests implement this specification.                 *)
(***************************************************************************)
CONSTANTS
    IDs, Users, Chats, Texts,
    NoText      \* the empty text, which a message may be written with

VARIABLES
    messages,   \* id -> message, a partial function
    drawn       \* ids that stand, or stood, for a message

collectionVars == <<messages, drawn>>

Entry == [chat: Chats, author: Users, text: Texts, by: Users]

CollectionInit ==
    /\ drawn \subseteq IDs
    /\ messages \in [drawn -> Entry]
    /\ \A id \in drawn : messages[id].by = messages[id].author

(* A user writes a message to a chat.                                      *)
Add(id, ch, u, text) ==
    /\ id \in IDs \ drawn
    /\ drawn' = drawn \cup {id}
    /\ messages' = [i \in DOMAIN messages \cup {id} |->
                        IF i = id
                        THEN [chat |-> ch, author |-> u, text |-> text, by |-> u]
                        ELSE messages[i]]

(* The author gives a message another text, and not an empty one.          *)
Rewrite(id, text) ==
    /\ id \in DOMAIN messages
    /\ text # NoText
    /\ messages' = [messages EXCEPT ![id].text = text]
    /\ UNCHANGED drawn

(* A message is removed.                                                   *)
Remove(id) ==
    /\ id \in DOMAIN messages
    /\ messages' = [i \in DOMAIN messages \ {id} |-> messages[i]]
    /\ UNCHANGED drawn

CollectionNext ==
    \E id \in IDs :
        \/ \E ch \in Chats, u \in Users, text \in Texts : Add(id, ch, u, text)
        \/ \E text \in Texts : Rewrite(id, text)
        \/ Remove(id)

CollectionSpec == CollectionInit /\ [][CollectionNext]_collectionVars

-----------------------------------------------------------------------------
(* What follows for every implementation: ids are not drawn twice, and     *)
(* nobody puts words in another's mouth.                                   *)
CollectionInv ==
    /\ drawn \subseteq IDs
    /\ DOMAIN messages \subseteq drawn
    /\ messages \in [DOMAIN messages -> Entry]
    /\ \A id \in DOMAIN messages : messages[id].by = messages[id].author

=============================================================================
