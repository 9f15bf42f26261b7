--------------------------- MODULE DeletionPromise ---------------------------
(***************************************************************************)
(* What the deletion of conversations and turns promises, with no word of  *)
(* lanes, timers, tables or retries.                                       *)
(*                                                                         *)
(* A decision to delete something is recorded once.  While it is pending   *)
(* its rows may go, in one step; it ends by being restored, which is       *)
(* final, or by being discharged, which it is only when its rows are gone. *)
(* Nothing ever goes without a pending decision that covers it, and what   *)
(* is gone stays gone.                                                     *)
(***************************************************************************)
CONSTANTS
    Decision,    \* decisions to delete
    Thing,       \* what can be deleted
    Covers(_)    \* the things that go with a thing

VARIABLES
    status,      \* of each decision
    subject,     \* what each decision deletes
    exists       \* the things whose rows exist

Status == {"absent", "pending", "restored"}

Promised == <<status, subject, exists>>

PromiseInit ==
    /\ status = [d \in Decision |-> "absent"]
    /\ exists = Thing

\* Somebody decides to delete a thing that exists.
Decide(d) ==
    /\ status[d] = "absent"
    /\ \E x \in exists : subject' = [subject EXCEPT ![d] = x]
    /\ UNCHANGED <<status, exists>>

\* The decision becomes durable.
Record(d) ==
    /\ status[d] = "absent"
    /\ status' = [status EXCEPT ![d] = "pending"]
    /\ UNCHANGED <<subject, exists>>

\* The decision is taken back.
Restore(d) ==
    /\ status[d] = "pending"
    /\ status' = [status EXCEPT ![d] = "restored"]
    /\ UNCHANGED <<subject, exists>>

\* The decision is carried out.
Destroy(d) ==
    /\ status[d] = "pending"
    /\ exists' = exists \ Covers(subject[d])
    /\ UNCHANGED <<status, subject>>

\* The decision is forgotten: nothing is left to delete.
Discharge(d) ==
    /\ status[d] = "pending"
    /\ subject[d] \notin exists
    /\ status' = [status EXCEPT ![d] = "absent"]
    /\ UNCHANGED <<subject, exists>>

PromiseNext ==
    \E d \in Decision :
        Decide(d) \/ Record(d) \/ Restore(d) \/ Destroy(d) \/ Discharge(d)

Promise == PromiseInit /\ [][PromiseNext]_Promised
===============================================================================
