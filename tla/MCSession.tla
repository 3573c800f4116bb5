----------------------------- MODULE MCSession -----------------------------
(***************************************************************************)
(* One idle connection, to which one message of another instance may be    *)
(* delivered, and a hub that may be stopped.                               *)
(***************************************************************************)
EXTENDS Session

CONSTANTS u1, c1, m1, p1

MCUserOf      == c1 :> u1
MCMessageOf   == p1 :> m1
MCTargetLists == {<<u1>>}
=============================================================================
