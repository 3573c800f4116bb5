----------------------------- MODULE MCRequests -----------------------------
(***************************************************************************)
(* A request against two messages of two users in one chat; pages of one   *)
(* message; the API as it is put together, and as its handlers expect it.  *)
(* Every kind of refusal has a call that meets it.                         *)
(***************************************************************************)
EXTENDS Requests

CONSTANTS u1, u2, chat, hit, spaces, long, blank

MCTrimmed == [t \in Texts |-> IF t = spaces THEN blank ELSE IF t = long THEN hit ELSE t]
MCChatOf  == <<>>

Intended  == [key |-> "user_id", tags |-> {"ulid", "uiid"}, params |-> TRUE]
MCWirings == {AsBuilt, Intended}

Token(u) == [signed |-> TRUE, stale |-> FALSE, claims |-> [sub |-> u]]

Basic == [op |-> "list", bearer |-> TRUE, token |-> Token(u1), binds |-> TRUE,
          chat |-> chat, listed |-> TRUE, ids |-> <<>>, text |-> hit,
          limit |-> 0, anchor |-> 0]

Lists    == {Basic, [Basic EXCEPT !.limit = 1]}
Searches == {[q EXCEPT !.op = "search"] : q \in Lists}
Updates  == {[Basic EXCEPT !.op = "update", !.token = Token(u), !.ids = <<1>>] :
                u \in {u1, u2}}
Deletes  == {[Basic EXCEPT !.op = "delete", !.ids = ids] :
                ids \in {<<>>, <<1>>, <<1, 2>>, <<2, 1, 2>>}}

Unauthorized ==
    {[Basic EXCEPT !.bearer = FALSE],
     [Basic EXCEPT !.token.signed = FALSE],
     [Basic EXCEPT !.token.stale = TRUE],
     [Basic EXCEPT !.token = Token(NotULID)],
     [Basic EXCEPT !.token = NewAccessToken(u1)]}

Refused ==
    {[Basic EXCEPT !.binds = FALSE],
     [Basic EXCEPT !.chat = NoChat],
     [Basic EXCEPT !.limit = MaxList + 1],
     [Basic EXCEPT !.limit = -1],
     [Basic EXCEPT !.anchor = 1],
     [Basic EXCEPT !.op = "search", !.text = blank],
     [Basic EXCEPT !.op = "search", !.limit = MaxSearch + 1],
     [Basic EXCEPT !.op = "search", !.anchor = 2],
     [Basic EXCEPT !.op = "delete", !.listed = FALSE],
     [Basic EXCEPT !.op = "update", !.ids = <<1>>, !.text = spaces],
     [Basic EXCEPT !.op = "update", !.ids = <<1>>, !.text = blank],
     [Basic EXCEPT !.op = "update", !.ids = <<1>>, !.text = long]}

MCCalls == Lists \cup Searches \cup Updates \cup Deletes \cup Unauthorized \cup Refused
=============================================================================
