--------------------------- MODULE MCMessageStore ---------------------------
(***************************************************************************)
(* Three messages in two chats, two users, and a reader of one of the chats*)
(* that is shown one message a page.  Content "spaces" trims to nothing.   *)
(***************************************************************************)
EXTENDS MessageStore

CONSTANTS u1, u2, chat, elsewhere, reader, hit, spaces, blank

MCTrimmed == [t \in Texts |-> IF t = spaces THEN blank ELSE t]
MCChatOf  == [r \in Readers |-> chat]

(* The two users may change places everywhere.                             *)
MCSymmetry == Permutations(UserIDs)
=============================================================================
