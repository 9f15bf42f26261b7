------------------------- MODULE MCProviderCleanup --------------------------
(***************************************************************************)
(* Instances of ProviderCleanup for TLC: one Claude conversation with the  *)
(* session of the chat and the one of a turn that is deleted with it.      *)
(***************************************************************************)
EXTENDS ProviderCleanup, TLC

CONSTANTS c1, s1, s2

OneChat   == s1 :> c1 @@ s2 :> c1
TwiceOnce == s1 :> 2 @@ s2 :> 1
===============================================================================
