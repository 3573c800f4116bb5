---------------------------- MODULE MessageStore ----------------------------
(***************************************************************************)
(* The messages of the chats: the use cases of message_usecase.go over the *)
(* MongoDB collection of message_repo.go, behind the HTTP handlers of      *)
(* message_handlers.go.  Any number of writers save, update and delete     *)
(* while clients page through a chat, by listing it or by searching it.    *)
(*                                                                         *)
(* A message id is a random UUID: its place in the order of ids says       *)
(* nothing about when the message was saved, so Save draws any unused id   *)
(* and ids are compared as numbers.  MongoDB changes one document at a     *)
(* time.  An operation that fails has changed nothing, or some of its      *)
(* documents, which are then the steps it took; the client of a failed page*)
(* asks again.  (Requests models the failures and what clients are told.)  *)
(***************************************************************************)
EXTENDS Naturals, Sequences, SequencesExt

CONSTANTS
    MessageIDs,    \* the UUIDs, in their string order
    UserIDs,
    ChatIDs,
    Types,         \* Message.Type; "text" is the one that is searched
    Contents,      \* what messages are saved with
    Texts,         \* what updates bring, contents and others
    Blank,         \* the empty content
    Trimmed,       \* strings.TrimSpace
    Matching,      \* contents the readers' search text finds
    Readers,       \* clients paging through a chat
    ChatOf,        \* the chat a reader reads
    Limit          \* messages per page, after the handler's clamping

ASSUME StoreAssumption ==
    /\ MessageIDs \subseteq Nat \ {0}
    /\ "text" \in Types
    /\ Contents \subseteq Texts /\ Blank \in Contents
    /\ Trimmed \in [Texts -> Contents] /\ Trimmed[Blank] = Blank
    /\ Matching \subseteq Contents \ {Blank}
    /\ ChatOf \in [Readers -> ChatIDs]
    /\ Limit \in Nat \ {0}

VARIABLES
    coll,     \* the collection: id -> message, a partial function
    query,    \* per reader, what it asks: "list" or "search"
    status,   \* per reader: "idle", "paging", "done" or "rejected"
    anchor,   \* per reader, the anchor of its next request, 0 for none
    got,      \* per reader, the ids it has been shown, in order

    drawn,    \* history: the ids of every message there ever was
    writer,   \* history: id -> the user whose content it holds
    stable    \* history: per reader, the ids that have answered its query
              \* ever since it started

readerVars == <<query, status, anchor, got>>
storeVars  == <<coll, query, status, anchor, got, drawn, writer, stable>>

-----------------------------------------------------------------------------
(* The filters of ListMessages and SearchMessages, without their anchor.   *)
Listed(ch, messages) ==
    {id \in DOMAIN messages : messages[id].chat = ch}

Searched(ch, messages) ==
    {id \in Listed(ch, messages) :
        /\ messages[id].type = "text"
        /\ messages[id].content \in Matching
        /\ messages[id].recent}

Answers(r, messages) ==
    IF query[r] = "list" THEN Listed(ChatOf[r], messages)
                         ELSE Searched(ChatOf[r], messages)

(* What still answers every query that is going on.                        *)
Settle == stable' = [r \in Readers |-> stable[r] \cap Answers(r, coll')]

(* uuid.New(): any id that was never drawn.                                *)
NewIDs == MessageIDs \ drawn

(* f with x for id.                                                        *)
With(f, id, x) == [i \in DOMAIN f \cup {id} |-> IF i = id THEN x ELSE f[i]]

(* SaveMessage: a fresh id and the time of day, whatever the content; an   *)
(* empty one is stored like any other.                                     *)
Save(u, ch, type, text) ==
    /\ \E id \in NewIDs :
          /\ coll' = With(coll, id, [chat |-> ch, sender |-> u, type |-> type,
                                     content |-> text, recent |-> TRUE])
          /\ writer' = With(writer, id, u)
          /\ drawn' = drawn \cup {id}
    /\ Settle
    /\ UNCHANGED readerVars

(* The use case refuses an update whose content trims to nothing.          *)
Acceptable(text) == Trimmed[text] # Blank

\* Variant: the filter has lost its sender_id.
UpdateByAnyone(u, ch, id, text) ==
    /\ Acceptable(text)
    /\ id \in DOMAIN coll /\ coll[id].chat = ch
    /\ coll' = [coll EXCEPT ![id].content = Trimmed[text]]
    /\ writer' = [writer EXCEPT ![id] = u]
    /\ Settle
    /\ UNCHANGED <<readerVars, drawn>>

\* Variant: content that trims to nothing is not refused.
UpdateBlank(u, ch, id, text) ==
    /\ id \in DOMAIN coll /\ coll[id].chat = ch /\ coll[id].sender = u
    /\ coll' = [coll EXCEPT ![id].content = Trimmed[text]]
    /\ writer' = [writer EXCEPT ![id] = u]
    /\ Settle
    /\ UNCHANGED <<readerVars, drawn>>

\* Variant: the update is an upsert, with the filter and $set as they are.
UpdateUpserting(u, ch, id, text) ==
    /\ Acceptable(text)
    /\ \/ /\ id \in DOMAIN coll /\ coll[id].chat = ch /\ coll[id].sender = u
          /\ coll' = [coll EXCEPT ![id].content = Trimmed[text]]
       \/ /\ id \notin DOMAIN coll
          /\ coll' = With(coll, id, [chat |-> ch, sender |-> u,
                                     content |-> Trimmed[text]])
    /\ writer' = With(writer, id, u)
    /\ Settle
    /\ UNCHANGED <<readerVars, drawn>>

(* UpdateMessage: the trimmed content, unless it is empty, replaces that of*)
(* the author's own message of that chat; otherwise an error.              *)
Update(u, ch, id, text) ==
    /\ Acceptable(text)
    /\ id \in DOMAIN coll /\ coll[id].chat = ch /\ coll[id].sender = u
    /\ coll' = [coll EXCEPT ![id].content = Trimmed[text]]
    /\ writer' = [writer EXCEPT ![id] = u]
    /\ Settle
    /\ UNCHANGED <<readerVars, drawn>>

(* DeleteMessages: those of the ids that are messages of that chat go, one *)
(* at a time, so that others see it half done and a failure leaves it so.  *)
Delete(ch, id) ==
    /\ id \in DOMAIN coll /\ coll[id].chat = ch
    /\ coll' = [i \in DOMAIN coll \ {id} |-> coll[i]]
    /\ writer' = [i \in DOMAIN coll \ {id} |-> writer[i]]
    /\ Settle
    /\ UNCHANGED <<readerVars, drawn>>

(* A message becomes older than the 60 days of SearchMessages.             *)
Age(id) ==
    /\ id \in DOMAIN coll /\ coll[id].recent
    /\ coll' = [coll EXCEPT ![id].recent = FALSE]
    /\ Settle
    /\ UNCHANGED <<readerVars, drawn, writer>>

-----------------------------------------------------------------------------
\* Variant: the anchor itself is on the next page again.
BeforeOrAt(r, id) == anchor[r] = 0 \/ id <= anchor[r]

(* filter["_id"] = {"$lt": anchor}, when there is an anchor.               *)
Before(r, id) == anchor[r] = 0 \/ id < anchor[r]

Descending(s) == \A i, j \in DOMAIN s : i < j => s[i] > s[j]

(* The last n of a set of ids, in descending order, or all of them.        *)
LastOf(ids, n) ==
    CHOOSE s \in [1..Min({n, Cardinality(ids)}) -> ids] :
        /\ Descending(s)
        /\ \A id \in ids \ Range(s) : \A i \in DOMAIN s : id < s[i]

\* Variant: the use case does not ask for the one message more.
FoundNoExtra(r) == LastOf({id \in Answers(r, coll) : Before(r, id)}, Limit)

(* Find with sort {_id: -1} and SetLimit(limit + 1).                       *)
Found(r) == LastOf({id \in Answers(r, coll) : Before(r, id)}, Limit + 1)

(* A client opens the chat, or starts a search.                            *)
Start(r) ==
    /\ status[r] = "idle"
    /\ status' = [status EXCEPT ![r] = "paging"]
    /\ \/ /\ query' = [query EXCEPT ![r] = "list"]
          /\ stable' = [stable EXCEPT ![r] = Listed(ChatOf[r], coll)]
       \/ /\ query' = [query EXCEPT ![r] = "search"]
          /\ stable' = [stable EXCEPT ![r] = Searched(ChatOf[r], coll)]
    /\ UNCHANGED <<coll, anchor, got, drawn, writer>>

(* The use case cuts the extra message off, which only tells that there is *)
(* more.                                                                   *)
HasMore(found) == Len(found) > Limit
Shown(found)   == IF HasMore(found) THEN SubSeq(found, 1, Limit) ELSE found

(* One request answered.  The client goes on from the page's last id until *)
(* it is told that there is no more.                                       *)
Page(r) ==
    LET page == Shown(Found(r))
    IN  /\ status[r] = "paging"
        /\ query[r] = "list" => anchor[r] = 0
        /\ got' = [got EXCEPT ![r] = @ \o page]
        /\ anchor' = [anchor EXCEPT ![r] = IF page = <<>> THEN @ ELSE Last(page)]
        /\ status' = [status EXCEPT ![r] =
                         IF HasMore(Found(r)) THEN "paging" ELSE "done"]
        /\ UNCHANGED <<coll, query, drawn, writer, stable>>

(* ListMessages takes the anchor for the hex form of an ObjectID, which no *)
(* id of a message is: ErrInvalidInput.  (The client passes the anchor by  *)
(* the name the handler binds, which is "anchor,ulid" to the letter.)      *)
RejectAnchor(r) ==
    /\ status[r] = "paging" /\ query[r] = "list" /\ anchor[r] # 0
    /\ status' = [status EXCEPT ![r] = "rejected"]
    /\ UNCHANGED <<coll, query, anchor, got, drawn, writer, stable>>

-----------------------------------------------------------------------------
StoreInit ==
    /\ coll = <<>>
    /\ query = [r \in Readers |-> "list"]
    /\ status = [r \in Readers |-> "idle"]
    /\ anchor = [r \in Readers |-> 0]
    /\ got = [r \in Readers |-> <<>>]
    /\ drawn = {}
    /\ writer = <<>>
    /\ stable = [r \in Readers |-> {}]

(* Everything that is done to the collection by users.                     *)
Write ==
    \/ \E u \in UserIDs, ch \in ChatIDs :
          \/ \E type \in Types, text \in Contents : Save(u, ch, type, text)
          \/ \E id \in MessageIDs, text \in Texts : Update(u, ch, id, text)
    \/ \E ch \in ChatIDs, id \in MessageIDs : Delete(ch, id)

StoreNext ==
    \/ Write
    \/ \E id \in MessageIDs : Age(id)
    \/ \E r \in Readers : Start(r) \/ Page(r) \/ RejectAnchor(r)

StoreSpec == StoreInit /\ [][StoreNext]_storeVars

-----------------------------------------------------------------------------
Message == [chat: ChatIDs, sender: UserIDs, type: Types, content: Contents,
            recent: BOOLEAN]

(* The types of the collection and of the readers.                         *)
StoreTypeOK ==
    /\ DOMAIN coll \subseteq drawn /\ drawn \subseteq MessageIDs
    /\ \A id \in DOMAIN coll : coll[id] \in Message
    /\ query \in [Readers -> {"list", "search"}]
    /\ status \in [Readers -> {"idle", "paging", "done", "rejected"}]
    /\ anchor \in [Readers -> MessageIDs \cup {0}]
    /\ got \in [Readers -> Seq(MessageIDs)]

(* A client that has been told there is no more has been shown every       *)
(* message that answered its query from its first request to its last,     *)
(* whatever was saved, edited or deleted around its anchor meanwhile.      *)
PagingIsComplete ==
    \A r \in Readers : status[r] = "done" => stable[r] \subseteq Range(got[r])

(* No message is shown twice, on one page or on two, and the pages continue*)
(* one descending order of ids.                                            *)
PagingIsOrdered == \A r \in Readers : Descending(got[r])

(* Saves, edits and deletes of several users, in whatever order they reach *)
(* the database, are changes a collection of messages may make: an id      *)
(* stands for one message for ever, a message stays where it was written,  *)
(* says nothing its author did not write, is not emptied by an edit, and is*)
(* not brought back by one once it is deleted.                             *)
AsPromised == INSTANCE Collection WITH
    IDs      <- MessageIDs,
    Users    <- UserIDs,
    Chats    <- ChatIDs,
    Texts    <- Contents,
    NoText   <- Blank,
    messages <- [id \in DOMAIN coll |->
                    [chat |-> coll[id].chat, author |-> coll[id].sender,
                     text |-> coll[id].content, by |-> writer[id]]],
    drawn    <- drawn

ImplementsCollection == AsPromised!CollectionSpec

(* message_usecase.go:84, one message more is asked for "to know whether   *)
(* there are more pages": the pages announced can be fetched.              *)
AnnouncedPagesExist == \A r \in Readers : status[r] # "rejected"

=============================================================================
