-------------------------- MODULE MCPendingDeletion --------------------------
(***************************************************************************)
(* Instances of PendingDeletion for TLC.                                   *)
(***************************************************************************)
EXTENDS PendingDeletionInvariant, TLC

CONSTANTS c1, t1, t2, w1

OneTurn  == t1 :> c1
TwoTurns == t1 :> c1 @@ t2 :> c1
===============================================================================
