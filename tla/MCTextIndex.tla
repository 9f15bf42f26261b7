----------------------------- MODULE MCTextIndex -----------------------------
(***************************************************************************)
(* Instances of TextIndex for TLC.                                         *)
(***************************************************************************)
EXTENDS TextIndex

CONSTANTS d1, d2
=============================================================================
