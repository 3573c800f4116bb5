------------------------------- MODULE MCHub -------------------------------
(***************************************************************************)
(* A small hub: user u1 has two connections and u2 one, channels of one    *)
(* slot, two publications, and tasks that name no user, one user, both,  *)
(* or the same user twice.                                                 *)
(***************************************************************************)
EXTENDS Hub

CONSTANTS u1, u2, c1, c2, c3

MCUserOf == (c1 :> u1) @@ (c2 :> u1) @@ (c3 :> u2)

MCTargetLists == {<<>>, <<u1>>, <<u2, u1>>, <<u1, u1>>}

=============================================================================
