--------------------------- MODULE MCChatService ---------------------------
(***************************************************************************)
(* Instances of ChatService for TLC: two users with a connection each, and *)
(* one user with one.  Channels have one slot.  m1 is sent by a peer and   *)
(* may be published twice, as p1 and p2; p3 carries m2, which another      *)
(* instance publishes.                                                     *)
(***************************************************************************)
EXTENDS ChatService

CONSTANTS u1, u2, c1, c2, m1, m2, p1, p2, p3

PairUserOf == (c1 :> u1) @@ (c2 :> u2)
LoneUserOf == c1 :> u1

MCMessageOf == [p \in Payloads |-> IF p = p3 THEN m2 ELSE m1]

PairTargetLists == {<<>>, <<u1>>, <<u2>>, <<u1, u2>>, <<u2, u1>>}
LoneTargetLists == {<<>>, <<u1>>}

=============================================================================
