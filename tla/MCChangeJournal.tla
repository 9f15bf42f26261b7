--------------------------- MODULE MCChangeJournal ---------------------------
(***************************************************************************)
(* Instances of ChangeJournal for TLC.                                     *)
(***************************************************************************)
EXTENDS ChangeJournal, TLC

CONSTANTS lib, note, o1, o2

\* A tool call with two changes and a note change that shares its first object.
BatchAndNote == 1 :> lib @@ 2 :> lib @@ 3 :> note
SharedNote == 1 :> o1 @@ 2 :> o2 @@ 3 :> o1
\* One change each, of the same object.
OneEach == 1 :> lib @@ 2 :> note
SameObject == 1 :> o1 @@ 2 :> o1
=============================================================================
