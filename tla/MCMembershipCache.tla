------------------------- MODULE MCMembershipCache -------------------------
(***************************************************************************)
(* Two connections of two users, which ask about two chats.                *)
(***************************************************************************)
EXTENDS MembershipCache, TLC

CONSTANTS u1, u2, k1, k2, chat1, chat2

MCUserOf == (k1 :> u1) @@ (k2 :> u2)

=============================================================================
