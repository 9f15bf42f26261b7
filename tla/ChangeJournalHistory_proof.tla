--------------------- MODULE ChangeJournalHistory_proof ---------------------
(***************************************************************************)
(* What an undo leaves of an action.  The proof keeps, beside the state,   *)
(* the set of the values that have ever been in the library and, for each  *)
(* of them, the values an undo can still bring back from it: its own       *)
(* pre-image, the pre-image of that, and so on.  Undoing a step leads to a *)
(* value from which the step cannot be reached any more.                   *)
(***************************************************************************)
EXTENDS ChangeJournal_proof

\* What this part leaves out: a call and an undo of one action at a time, an
\* edit of the user that repeats an earlier one's text, and a retry in an
\* instance in which statements fail.
FaultsHere ==
    /\ {"overlap", "repeat"} \cap Faults = {}
    /\ ~({"db", "resume"} \subseteq Faults)
-----------------------------------------------------------------------------
(***************************************************************************)
(* How the rows go with the call and the undo that work on them.           *)
(***************************************************************************)

\* The statuses of steps that leave an undone action nothing to take back.
NothingLeft == {"absent", "reverted", "failed", "irreversible", "no_effect"}

\* The phases of a call that has claimed its step.
Claimed == {"claim_action", "write", "reconcile", "clean", "record", "rerecord",
            "uncertain", "failed"}

\* A first call finds its rows missing, a retry finds the row it may claim:
\* it is never refused.
CallFlow(a) ==
    /\ action[a] = "absent" => \A s \in StepsOf(a) : step[s].status = "absent"
    /\ phase[a] # "idle" => action[a] \notin {"reverting", "reverted", "revert_failed"}
    /\ phase[a] \notin {"idle", "enter", "prepare", "refuse", "settle_failed"} =>
         action[a] # "absent"
    /\ phase[a] \in {"enter", "prepare"} /\ ~IsFirst(at[a]) => action[a] # "absent"
    /\ phase[a] # "idle" /\ ~resumed[a] =>
         /\ \A s \in StepsOf(a) : s > at[a] => step[s].status = "absent"
         /\ phase[a] \in {"enter", "prepare"} => step[at[a]].status = "absent"
         /\ phase[a] \in {"claim", "refuse"} =>
              step[at[a]].status \in {"absent", "prepared", "applying"}
    /\ phase[a] # "idle" /\ resumed[a] =>
         /\ a \in Notes /\ "resume" \in Faults /\ action[a] # "absent"
         /\ phase[a] \notin {"prepare", "refuse"}
    /\ phase[a] \in Claimed => step[at[a]].status = "applying"

\* A note's change keeps its inverse while a call works on it and is never said
\* to have had no effect; when no statement fails, a row that may be retried
\* says so.
NoteFlow(a) == a \in Notes =>
    /\ phase[a] \in {"record", "rerecord"} => out[a] = "applied"
    /\ phase[a] \in {"claim"} \union Claimed => step[at[a]].inverse
    /\ phase[a] = "enter" /\ resumed[a] => step[at[a]].inverse
    /\ \A s \in StepsOf(a) :
         /\ step[s].status # "no_effect" /\ (step[s].status = "absent" => ~step[s].inverse)
         /\ "db" \notin Faults /\ step[s].inverse
                /\ action[a] \notin {"absent", "reverting", "reverted", "revert_failed"} =>
              /\ action[a] # "irreversible"
              /\ step[s].status \notin Retriable =>
                   /\ step[s].status = "applying"
                   /\ phase[a] \in Claimed \union {"refuse"}

\* What an undo has read of its rows is what they still say, but for what it
\* has done itself; a step it is through with has nothing left, unless it failed.
RowFlow(a, s) ==
    /\ step[s].before = Seen(a, s).before /\ step[s].after = Seen(a, s).after
    /\ step[s].inverse = Seen(a, s).inverse
    /\ \/ step[s].status = Seen(a, s).status
       \/ /\ Seen(a, s).status \notin Passed
          /\ step[s].status \in {"reverting", "reverted", "revert_failed"}
    /\ undo[a].failed \/ s \in undo[a].todo \/ step[s].status \in NothingLeft

\* Where an undo can be, and what it has made of the action and the rows.
UndoFlow(a) ==
    /\ undo[a].phase # "idle" => \A s \in StepsOf(a) : RowFlow(a, s)
    /\ undo[a].phase \notin {"idle", "claim_action"} => action[a] = "reverting"
    /\ undo[a].phase \in Replaying =>
         /\ undo[a].at \in undo[a].todo /\ Seen(a, undo[a].at).inverse
         /\ Seen(a, undo[a].at).status \notin Passed
    /\ action[a] = "reverted" => \A s \in StepsOf(a) : step[s].status \in NothingLeft

\* Every call and every undo is where the code can have it.
FlowInv == \A a \in Actions : CallFlow(a) /\ NoteFlow(a) /\ UndoFlow(a)

\* Nothing is under way at the start.
LEMMA FlowInit == Init => FlowInv
BY StepFacts DEF Init, FlowInv, CallFlow, NoteFlow, UndoFlow, NoUndo, NoRow, Claimed, Replaying

\* What an action is about is left alone.
Unmoved(b) ==
    /\ action'[b] = action[b] /\ undo'[b] = undo[b]
    /\ phase'[b] = phase[b] /\ at'[b] = at[b]
    /\ resumed'[b] = resumed[b] /\ out'[b] = out[b]
    /\ \A s \in StepsOf(b) : step'[s] = step[s]

\* A step of one action leaves the others alone.
LEMMA FlowOthers ==
    ASSUME TypeOK, FlowInv, NEW b \in Actions, Unmoved(b)
    PROVE  CallFlow(b)' /\ NoteFlow(b)' /\ UndoFlow(b)'
<1>1. CallFlow(b) /\ NoteFlow(b) /\ UndoFlow(b)
  BY DEF FlowInv
<1>2. at[b] \in StepsOf(b) /\ IsFirst(at[b])' = IsFirst(at[b])
  BY DEF TypeOK, Unmoved, IsFirst
<1>3. CallFlow(b)'
  BY <1>1, <1>2 DEF Unmoved, CallFlow
<1>4. NoteFlow(b)'
  BY <1>1, <1>2 DEF Unmoved, NoteFlow
<1>5. UndoFlow(b)'
  <2>1. undo[b].phase \in Replaying => undo[b].at \in StepsOf(b)
    BY DEF TypeOK, Undos
  <2>2. \A s \in StepsOf(b) : RowFlow(b, s) => RowFlow(b, s)'
    BY DEF Unmoved, RowFlow, Seen
  <2> QED BY <1>1, <2>1, <2>2 DEF Unmoved, UndoFlow, Seen
<1> QED BY <1>3, <1>4, <1>5

\* A call runs while no undo of its action does, and does not undo anything.
LEMMA CallUndoesNothing ==
    ASSUME TypeOK, WindowInv, FlowInv, NEW a \in Actions,
           CallSteps(a) \/ Begin(a) \/ Resume(a), "overlap" \notin Faults
    PROVE  /\ undo' = undo /\ undo[a].phase = "idle"
           /\ action[a] \notin {"reverting", "reverted", "revert_failed"}
           /\ action'[a] \notin {"reverting", "reverted", "revert_failed"}
           /\ UndoFlow(a)'
           /\ \A b \in Actions \ {a} : Unmoved(b)
<1> USE DEF TypeOK, GoTo, SetRow
<1>1. \A b \in Actions \ {a} : \A s \in StepsOf(b) : s \in Steps /\ s \notin StepsOf(a)
  BY StepFacts
<1>2. undo' = undo /\ undo[a].phase = "idle"
  <2>1. undo[a].phase = "idle"
    BY DEF CallSteps, Begin, Resume, Apart, WindowInv, EnterWindow, Prepare, ClaimStep,
         ClaimAction, ClaimFails, Refuse, WriteLibrary, WriteNote, Reconcile, TryOnceMore,
         Record, RecordFails, StepFails, Finish, FinishFails, Settle
  <2> QED BY <2>1 DEF CallSteps, Begin, Resume, EnterWindow, Prepare, ClaimStep,
         ClaimAction, ClaimFails, Refuse, WriteLibrary, WriteNote, Reconcile, TryOnceMore,
         Record, RecordFails, StepFails, Finish, FinishFails, Settle
<1>3. action[a] \notin {"reverting", "reverted", "revert_failed"}
  BY DEF CallSteps, Begin, Resume, FlowInv, CallFlow, EnterWindow, Prepare, ClaimStep,
         ClaimAction, ClaimFails, Refuse, WriteLibrary, WriteNote, Reconcile, TryOnceMore,
         Record, RecordFails, StepFails, Finish, FinishFails, Settle
<1>4. /\ action'[a] \notin {"reverting", "reverted", "revert_failed"}
      /\ \A b \in Actions \ {a} : /\ action'[b] = action[b] /\ phase'[b] = phase[b]
           /\ at'[b] = at[b] /\ resumed'[b] = resumed[b] /\ out'[b] = out[b]
      /\ \A s \in Steps \ StepsOf(a) : step'[s] = step[s]
  <2>1. CASE Begin(a) \/ Resume(a) \/ EnterWindow(a) \/ ClaimStep(a) \/ ClaimFails(a) \/ Refuse(a)
    BY <1>3, <2>1 DEF Begin, Resume, EnterWindow, ClaimStep, ClaimFails, Refuse
  <2>2. CASE Prepare(a)
    <3>1. /\ phase' = [phase EXCEPT ![a] = "claim"] /\ at' = at /\ resumed' = resumed /\ out' = out
          /\ action' = action \/ action' = [action EXCEPT ![a] = "prepared"]
          /\ \E row : step' = [step EXCEPT ![at[a]] = row]
      BY <2>2 DEF Prepare
    <3> QED BY <1>3, <3>1
  <2>7. CASE ClaimAction(a)
    BY <1>3, <2>7 DEF ClaimAction
  <2>3. CASE WriteLibrary(a) \/ WriteNote(a)
    BY <1>3, <2>3 DEF WriteLibrary, WriteNote
  <2>4. CASE Reconcile(a) \/ TryOnceMore(a)
    BY <1>3, <2>4 DEF Reconcile, TryOnceMore
  <2>5. CASE Record(a) \/ RecordFails(a) \/ StepFails(a) \/ FinishFails(a)
    BY <1>3, <2>5 DEF Record, RecordFails, StepFails, FinishFails
  <2>6. CASE Finish(a) \/ Settle(a)
    BY <1>3, <2>6 DEF Finish, Settle
  <2> QED BY <2>1, <2>2, <2>3, <2>4, <2>5, <2>6, <2>7 DEF CallSteps
<1>5. UndoFlow(a)'
  BY <1>2, <1>4 DEF UndoFlow, Replaying
<1> QED BY <1>1, <1>2, <1>3, <1>4, <1>5 DEF Unmoved

\* Where the call of an action stands goes with its rows.
LEMMA CallFlowNext ==
    ASSUME TypeOK, WindowInv, FlowInv, NEW a \in Actions,
           CallSteps(a) \/ Begin(a) \/ Resume(a), FaultsHere
    PROVE  CallFlow(a)'
<1>1. /\ CallFlow(a) /\ at[a] \in StepsOf(a) /\ at[a] \in Steps
      /\ action[a] \notin {"reverting", "reverted", "revert_failed"}
      /\ action'[a] \notin {"reverting", "reverted", "revert_failed"}
  BY StepFacts, CallUndoesNothing DEF FlowInv, TypeOK, FaultsHere
<1>2. NoteFlow(a) /\ (resumed[a] /\ phase[a] # "idle" => "db" \notin Faults /\ a \in Notes)
  BY DEF FlowInv, CallFlow, FaultsHere
<1>3. \A s \in StepsOf(a) : s \in Steps /\ s \in Nat
  BY StepFacts
<1> USE <1>1, <1>2, <1>3 DEF CallFlow, TypeOK, GoTo, SetRow, Claimed
<1>4. CASE Begin(a)
  BY <1>4 DEF Begin, IsFirst
<1>5. CASE Resume(a)
  BY <1>5 DEF Resume, Fault
<1>6. CASE EnterWindow(a)
  BY <1>6 DEF EnterWindow
<1>7. CASE Prepare(a)
  BY <1>7 DEF Prepare
<1>8. CASE ClaimStep(a)
  <2>1. resumed[a] => step[at[a]].status \in Retriable
    BY <1>8 DEF ClaimStep, NoteFlow
  <2>2. step' = step \/ step' = [step EXCEPT ![at[a]].status = "applying"]
    BY <1>8 DEF ClaimStep
  <2>3. \A s \in StepsOf(a) : s # at[a] => step'[s] = step[s]
    BY <2>2
  <2>4. \/ /\ phase'[a] = "claim_action" /\ step'[at[a]].status = "applying"
        \/ phase'[a] = "refuse" /\ step' = step /\ ~resumed[a]
    <3>1. \/ SetRow(a, "applying") /\ GoTo(a, "claim_action")
          \/ GoTo(a, "refuse") /\ step' = step /\ ~resumed[a]
      BY ONLY <1>8, <2>1 DEF ClaimStep, Row
    <3>2. step[at[a]] \in Rows
      OBVIOUS
    <3> QED BY <3>1, <3>2 DEF Rows
  <2>5. action' = action /\ at' = at /\ resumed' = resumed /\ phase[a] = "claim"
    BY <1>8 DEF ClaimStep
  <2> QED BY <2>3, <2>4, <2>5
<1>9. CASE ClaimAction(a)
  <2>1. resumed[a] => action[a] \in {"prepared", "applying"} \union Retriable
    BY <1>9 DEF ClaimAction, NoteFlow, StepStatus, Retriable
  <2>2. \/ action'[a] = "applying" /\ phase'[a] = "write"
        \/ action'[a] = action[a] /\ phase'[a] = "refuse" /\ ~resumed[a]
    BY <1>9, <2>1 DEF ClaimAction
  <2>3. step' = step /\ at' = at /\ resumed' = resumed /\ phase[a] = "claim_action"
    BY <1>9 DEF ClaimAction
  <2> QED BY <2>2, <2>3
<1>10. CASE ClaimFails(a)
  BY <1>10 DEF ClaimFails, Fault
<1>11. CASE Refuse(a)
  <2>1. \A s \in StepsOf(a) : step'[s] = step[s] \/ (s = at[a] /\ step[s].status # "absent")
    BY <1>11 DEF Refuse, Row
  <2>2. action' = action /\ at' = at /\ resumed' = resumed
        /\ phase[a] = "refuse" /\ phase'[a] = "settle_failed"
    BY <1>11 DEF Refuse
  <2> QED BY <2>1, <2>2
<1>12. CASE WriteLibrary(a)
  BY <1>12 DEF WriteLibrary
<1>13. CASE WriteNote(a)
  BY <1>13 DEF WriteNote
<1>14. CASE Reconcile(a)
  BY <1>14 DEF Reconcile
<1>15. CASE TryOnceMore(a)
  BY <1>15 DEF TryOnceMore
<1>16. CASE Record(a)
  <2>1. PICK i \in StepsOf(a) : i = at[a]
    OBVIOUS
  <2>2. \A s \in StepsOf(a) : s # i => step'[s] = step[s]
    BY <1>16, <2>1 DEF Record
  <2>3. action[a] # "absent" /\ action' = action /\ resumed' = resumed /\ phase[a] # "idle"
    BY <1>16 DEF Record
  <2>4. CASE phase'[a] = "finish" /\ at' = at
    BY <2>1, <2>2, <2>3, <2>4
  <2>5. CASE phase'[a] = "enter" /\ at'[a] \in Following(i)
    <3>1. at'[a] \in StepsOf(a) /\ at'[a] > i
      BY <2>5, StepFacts DEF Following, Later
    <3>2. ~resumed[a]
      <4>1. a \in Notes => at'[a] = i
        BY <3>1, StepsAssumption
      <4> QED BY <2>3, <3>1, <4>1
    <3>3. \A s \in StepsOf(a) : s > i => step[s].status = "absent"
      BY <2>1, <2>3, <3>2
    <3>4. PICK j \in StepsOf(a) : j = at'[a]
      BY <3>1
    <3>5. \A s \in StepsOf(a) : s >= j => step'[s].status = "absent"
      BY <2>1, <2>2, <3>1, <3>3, <3>4
    <3> QED BY <2>3, <2>5, <3>2, <3>4, <3>5
  <2> QED BY <1>16, <2>1, <2>4, <2>5 DEF Record
<1>17. CASE RecordFails(a)
  BY <1>17 DEF RecordFails
<1>18. CASE StepFails(a)
  BY <1>18 DEF StepFails
<1>19. CASE Finish(a)
  BY <1>19 DEF Finish
<1>20. CASE FinishFails(a)
  BY <1>20 DEF FinishFails
<1>21. CASE Settle(a)
  BY <1>21 DEF Settle
<1> QED BY <1>4, <1>5, <1>6, <1>7, <1>8, <1>9, <1>10, <1>11, <1>12, <1>13, <1>14, <1>15,
           <1>16, <1>17, <1>18, <1>19, <1>20, <1>21 DEF CallSteps

\* A call on a note leaves it retriable.
LEMMA NoteFlowNext ==
    ASSUME TypeOK, WindowInv, FlowInv, NEW a \in Actions,
           CallSteps(a) \/ Begin(a) \/ Resume(a), FaultsHere
    PROVE  NoteFlow(a)'
<1> SUFFICES ASSUME a \in Notes PROVE NoteFlow(a)'
  BY DEF NoteFlow
<1>1. PICK i \in StepsOf(a) : i = at[a]
  BY DEF TypeOK
<1>2. \A s \in StepsOf(a) : s = i
  BY <1>1, StepsAssumption
<1>3. /\ CallFlow(a) /\ NoteFlow(a) /\ i \in Steps /\ step[i] \in Rows
      /\ action[a] \notin {"reverting", "reverted", "revert_failed"}
      /\ (resumed[a] /\ phase[a] # "idle" => "db" \notin Faults)
  <2>1. CallFlow(a) /\ NoteFlow(a) /\ i \in Steps /\ step[i] \in Rows
    BY StepFacts DEF FlowInv, TypeOK
  <2>2. action[a] \notin {"reverting", "reverted", "revert_failed"}
    BY CallUndoesNothing DEF FaultsHere
  <2>3. resumed[a] /\ phase[a] # "idle" => "db" \notin Faults
    BY <2>1 DEF CallFlow, FaultsHere
  <2> QED BY <2>1, <2>2, <2>3
<1>4. \A k : Fault(k) => k \in Faults
  BY DEF Fault
<1> USE <1>1, <1>2, <1>3, <1>4 DEF NoteFlow, TypeOK, GoTo, SetRow, Claimed, Retriable, Row
<1>5. CASE Begin(a)
  BY <1>5 DEF Begin
<1>6. CASE Resume(a)
  BY <1>6 DEF Resume
<1>7. CASE EnterWindow(a)
  BY <1>7 DEF EnterWindow
<1>8. CASE Prepare(a)
  <2>1. step' = [step EXCEPT ![i] = [status |-> "prepared", inverse |-> TRUE,
                                     before |-> target[Object(a)], after |-> NoImage]]
    BY <1>8 DEF Prepare
  <2>2. step'[i].status = "prepared" /\ step'[i].inverse
    BY <2>1
  <2>3. IsFirst(i)
    <3>1. i \in Nat /\ ActionOf[i] = a
      BY StepFacts
    <3> QED BY <3>1 DEF IsFirst
  <2>4. phase'[a] = "claim" /\ at' = at /\ action'[a] = "prepared"
    BY <1>8, <2>3 DEF Prepare
  <2> QED BY <2>2, <2>4
<1>9. CASE ClaimStep(a)
  <2>1. /\ step'[i].status \in {"applying", step[i].status} /\ step'[i].inverse = step[i].inverse
        /\ phase'[a] \in {"claim_action", "refuse"} /\ phase[a] = "claim"
        /\ action' = action /\ at' = at /\ out' = out /\ resumed' = resumed
    BY <1>9 DEF ClaimStep, Rows
  <2> QED BY <2>1
<1>10. CASE ClaimAction(a)
  <2>1. step' = step /\ phase'[a] \in {"write", "refuse"} /\ action'[a] \in {"applying", action[a]}
        /\ at' = at /\ out' = out /\ resumed' = resumed /\ phase[a] = "claim_action"
    BY <1>10 DEF ClaimAction
  <2> QED BY <2>1 DEF CallFlow
<1>11. CASE ClaimFails(a)
  BY <1>11 DEF ClaimFails
<1>12. CASE Refuse(a)
  <2>1. /\ step'[i].status \in {"failed", step[i].status} /\ step'[i].inverse = step[i].inverse
        /\ phase'[a] = "settle_failed" /\ phase[a] = "refuse"
        /\ action' = action /\ at' = at /\ out' = out /\ resumed' = resumed
        /\ "db" \notin Faults => step'[i].status \in {"failed", "absent"}
    BY <1>12 DEF Refuse, Rows
  <2> QED BY <2>1
<1>13. CASE WriteNote(a)
  <2>1. /\ step' = step /\ action' = action /\ at' = at /\ resumed' = resumed /\ phase[a] = "write"
        /\ phase'[a] \in {"record", "reconcile", "clean", "uncertain"}
        /\ phase'[a] = "record" => out'[a] = "applied"
    BY <1>13 DEF WriteNote
  <2> QED BY <2>1
<1>14. CASE Reconcile(a)
  <2>1. /\ step' = step /\ action' = action /\ at' = at /\ resumed' = resumed /\ phase[a] = "reconcile"
        /\ phase'[a] \in {"rerecord", "uncertain", "clean"}
        /\ phase'[a] = "rerecord" => out'[a] = "applied"
    BY <1>14 DEF Reconcile
  <2> QED BY <2>1
<1>15. CASE TryOnceMore(a)
  <2>1. /\ step' = step /\ action' = action /\ at' = at /\ resumed' = resumed /\ phase[a] = "clean"
        /\ phase'[a] \in {"rerecord", "uncertain", "failed"}
        /\ phase'[a] = "rerecord" => out'[a] = "applied"
    BY <1>15 DEF TryOnceMore
  <2> QED BY <2>1
<1>16. CASE Record(a)
  <2>1. Later(i) = {}
    <3>1. \A t \in StepsOf(ActionOf[i]) : t = i /\ ~(t > i)
      BY StepFacts
    <3> QED BY <3>1 DEF Later
  <2>2. Outcome(a) = "applied" /\ step[i].inverse
    BY <1>16 DEF Record, Outcome
  <2>3. /\ step'[i].status = Outcome(a) /\ step'[i].inverse = step[i].inverse
        /\ phase'[a] = "finish" /\ action' = action /\ resumed' = resumed /\ at' = at
    BY <1>16, <2>1 DEF Record, Rows
  <2> QED BY <2>2, <2>3
<1>17. CASE RecordFails(a)
  BY <1>17 DEF RecordFails
<1>18. CASE StepFails(a)
  <2>1. /\ step'[i].status \in {"failed", "uncertain", step[i].status} /\ step'[i].inverse = step[i].inverse
        /\ phase'[a] \in {"settle_failed", "settle_uncertain"}
        /\ action' = action /\ at' = at /\ out' = out /\ resumed' = resumed
        /\ "db" \notin Faults => step'[i].status \in {"failed", "uncertain"}
    BY <1>18 DEF StepFails, Rows
  <2> QED BY <2>1
<1>19. CASE Finish(a)
  <2>1. /\ step' = step /\ phase'[a] = "idle" /\ phase[a] = "finish"
        /\ action'[a] # "irreversible" \/ NoneUndoable(ChangedSteps(a))
    BY <1>19 DEF Finish
  <2>2. NoneUndoable(ChangedSteps(a)) => ~step[i].inverse
    BY DEF NoneUndoable, ChangedSteps
  <2> QED BY <1>19, <2>1, <2>2 DEF Finish, CallFlow
<1>20. CASE FinishFails(a)
  BY <1>20 DEF FinishFails
<1>21. CASE Settle(a)
  <2>1. /\ step' = step /\ phase'[a] = "idle" /\ phase[a] \in {"settle_failed", "settle_uncertain"}
        /\ action'[a] \in {"uncertain", "failed", action[a]}
        /\ "db" \notin Faults => action'[a] \in {"uncertain", "failed"}
    <3>1. step' = step /\ GoTo(a, "idle") /\ phase[a] \in {"settle_failed", "settle_uncertain"}
      BY <1>21 DEF Settle
    <3>2. \/ action' = [action EXCEPT ![a] = "uncertain"] \/ action' = [action EXCEPT ![a] = "failed"]
          \/ action' = action /\ "db" \in Faults
      BY <1>21 DEF Settle
    <3> QED BY <3>1, <3>2
  <2>2. action[a] = "absent" => ~step[i].inverse
    BY DEF CallFlow
  <2> QED BY <2>1, <2>2
<1>22. ~WriteLibrary(a)
  BY DEF WriteLibrary
<1> QED BY <1>5, <1>6, <1>7, <1>8, <1>9, <1>10, <1>11, <1>12, <1>13, <1>14, <1>15,
           <1>16, <1>17, <1>18, <1>19, <1>20, <1>21, <1>22 DEF CallSteps

\* What a step of an undo does to its action: the row of the step it is at gets
\* another status, or the rows are erased at the end.
Reverts(a, status) ==
    /\ undo[a].phase \in Replaying /\ action' = action
    /\ step' = [step EXCEPT ![undo[a].at].status = status]

Closes(a) ==
    /\ SetUndo(a, NoUndo(a))
    /\ \/ step' = step /\ action' = action
       \/ /\ step' = step /\ action' = [action EXCEPT ![a] = "revert_failed"]
          /\ undo[a].phase = "steps"
       \/ /\ undo[a].phase = "steps" /\ undo[a].todo = {} /\ ~undo[a].failed
          /\ action' = [action EXCEPT ![a] = "reverted"]
          /\ step' = [s \in Steps |-> IF ActionOf[s] = a THEN Erased(step[s]) ELSE step[s]]

Moves(a) ==
    /\ step' = step /\ action' = action /\ undo[a].phase \notin {"idle", "claim_action"}
    /\ \/ UndoAt(a, "steps")
       \/ undo[a].phase \in Replaying /\ \E p \in Replaying : UndoAt(a, p)

Starts(a) ==
    \/ RequestUndo(a)
    \/ /\ undo[a].phase = "claim_action" /\ step' = step
       /\ action' = [action EXCEPT ![a] = "reverting"] /\ UndoAt(a, "enter")

\* Every step of an undo is one of these.
LEMMA UndoForms ==
    ASSUME NEW a \in Actions, UndoSteps(a) \/ RequestUndo(a)
    PROVE  /\ UNCHANGED call
           /\ \/ Starts(a) \/ Moves(a) \/ PickStep(a) \/ Closes(a)
              \/ Reverts(a, "reverting") /\ UndoAt(a, "recheck")
              \/ Reverts(a, "reverted") /\ SetUndo(a, Done(a, undo[a].at, FALSE))
              \/ /\ Reverts(a, "revert_failed") \/ (step' = step /\ action' = action)
                 /\ undo[a].phase \in Replaying
                 /\ SetUndo(a, Done(a, undo[a].at, TRUE))
<1>1. CASE RequestUndo(a)
  BY <1>1 DEF RequestUndo, Starts
<1>2. CASE ClaimUndo(a)
  BY <1>2 DEF ClaimUndo, Starts, Closes
<1>3. CASE ClaimUndoFails(a) \/ FinishUndo(a) \/ FinishUndoFails(a)
  BY <1>3 DEF ClaimUndoFails, FinishUndo, FinishUndoFails, Closes
<1>4. CASE PickStep(a)
  BY <1>4 DEF PickStep
<1>5. CASE \/ UndoEnters(a) \/ Recheck(a) \/ RunInverse(a) \/ Reread(a) \/ UndoStepFails(a)
  BY <1>5 DEF UndoEnters, Recheck, RunInverse, Reread, UndoStepFails, Moves, Replaying
<1>6. CASE ClaimStepUndo(a)
  BY <1>6 DEF ClaimStepUndo, Moves, Reverts, Replaying
<1>7. CASE MarkReverted(a) \/ GiveUpStep(a)
  BY <1>7 DEF MarkReverted, GiveUpStep, Reverts, Replaying
<1> QED BY <1>1, <1>2, <1>3, <1>4, <1>5, <1>6, <1>7 DEF UndoSteps

\* A step of an undo takes care of its own action's rows only.
LEMMA UndoMovesOnly ==
    ASSUME TypeOK, WindowInv, NEW a \in Actions, UndoSteps(a) \/ RequestUndo(a),
           "overlap" \notin Faults
    PROVE  /\ phase[a] = "idle" /\ phase'[a] = "idle" /\ action[a] # "absent" /\ action'[a] # "absent"
           /\ \A b \in Actions \ {a} : Unmoved(b)
<1>1. UNCHANGED call
  BY UndoForms
<1>2. /\ phase[a] = "idle" /\ action[a] # "absent"
  BY DEF WindowInv, RequestUndo, Apart, UndoSteps, ClaimUndo, ClaimUndoFails, UndoEnters,
         PickStep, ClaimStepUndo, Recheck, RunInverse, Reread, MarkReverted, UndoStepFails,
         GiveUpStep, FinishUndo, FinishUndoFails
<1>3. /\ \A b \in Actions \ {a} : action'[b] = action[b] /\ undo'[b] = undo[b]
      /\ action'[a] # "absent"
  <2>1. \E u : SetUndo(a, u)
    BY UndoForms DEF Starts, Moves, Closes, RequestUndo, PickStep, UndoAt
  <2>2. \/ action' = action
        \/ \E v \in {"reverting", "revert_failed", "reverted"} : action' = [action EXCEPT ![a] = v]
    BY UndoForms DEF Starts, Moves, Closes, Reverts, RequestUndo, PickStep
  <2> QED BY <1>2, <2>1, <2>2 DEF TypeOK, SetUndo
<1>4. ASSUME NEW s \in Steps, s \notin StepsOf(a)
      PROVE  step'[s] = step[s]
  <2>1. \/ step' = step
        \/ \E t \in StepsOf(a) : \E v : step' = [step EXCEPT ![t].status = v]
        \/ step' = [r \in Steps |-> IF ActionOf[r] = a THEN Erased(step[r]) ELSE step[r]]
    BY UndoForms DEF TypeOK, Undos, Starts, Moves, Closes, Reverts, RequestUndo, PickStep
  <2> QED BY <1>4, <2>1 DEF TypeOK, StepsOf
<1>5. \A b \in Actions \ {a} : \A s \in StepsOf(b) : s \in Steps /\ s \notin StepsOf(a)
  BY StepFacts
<1> QED BY <1>1, <1>2, <1>3, <1>4, <1>5 DEF Unmoved, call

\* What an undo does to a row.
LEMMA RevertedRow ==
    ASSUME TypeOK, NEW a \in Actions, NEW status, Reverts(a, status)
    PROVE  /\ undo[a].at \in StepsOf(a)
           /\ \A s \in StepsOf(a) :
                /\ step'[s].before = step[s].before /\ step'[s].after = step[s].after
                /\ step'[s].inverse = step[s].inverse
                /\ step'[s].status = IF s = undo[a].at THEN status ELSE step[s].status
BY StepFacts DEF TypeOK, Undos, Rows, Reverts

\* What is left of an erased row.
LEMMA ErasedRow ==
    ASSUME NEW row \in Rows
    PROVE  Erased(row).status = row.status /\ ~Erased(row).inverse
BY DEF Erased, NoRow, Rows

\* What a restart leaves of a row.
LEMMA RestartedRow ==
    ASSUME Restart, NEW s \in Steps, step[s] \in Rows
    PROVE  /\ step'[s].status = RecoveredStep(step[s].status)
           /\ step'[s].inverse => /\ step[s].inverse /\ step'[s].before = step[s].before
                                  /\ step'[s].after = step[s].after
<1> DEFINE row == [step[s] EXCEPT !.status = RecoveredStep(@)]
<1>1. RecoveredStep(step[s].status) \in StepStatus
  BY RecoveredStepType DEF Rows
<1>2. /\ row.status = RecoveredStep(step[s].status) /\ row.inverse = step[s].inverse
      /\ row.before = step[s].before /\ row.after = step[s].after /\ row \in Rows
  BY <1>1 DEF Rows
<1>3. step'[s] = row \/ step'[s] = Erased(row)
  BY DEF Restart
<1> HIDE DEF row
<1> QED BY <1>2, <1>3, ErasedRow

\* The undo of an action keeps in step with its rows.
LEMMA UndoFlowNext ==
    ASSUME TypeOK, WindowInv, FlowInv, NEW a \in Actions, UndoSteps(a) \/ RequestUndo(a),
           "overlap" \notin Faults
    PROVE  UndoFlow(a)'
<1>1. /\ undo[a] \in Undos(a) /\ UndoFlow(a) /\ StepsOf(a) \subseteq Steps
      /\ \A s \in StepsOf(a) : step[s] \in Rows
  BY StepFacts DEF FlowInv, TypeOK
<1>2. ASSUME NEW u, SetUndo(a, u) PROVE undo'[a] = u
  BY <1>2 DEF TypeOK, SetUndo
<1>3. CASE RequestUndo(a)
  <2> DEFINE u == [phase |-> "claim_action", at |-> NoStep, failed |-> FALSE,
                   seen |-> [s \in StepsOf(a) |-> step[s]],
                   todo |-> {s \in StepsOf(a) : step[s].status # "absent"}]
  <2>1. undo'[a] = u /\ step' = step /\ action' = action /\ action[a] # "reverted"
    BY <1>2, <1>3 DEF RequestUndo
  <2>2. \A s \in StepsOf(a) : RowFlow(a, s)'
    BY <2>1 DEF RowFlow, Seen, NothingLeft
  <2> QED BY <2>1, <2>2 DEF UndoFlow, Replaying
<1>4. CASE Starts(a) /\ ~RequestUndo(a)
  <2>1. undo'[a] = [undo[a] EXCEPT !.phase = "enter"] /\ step' = step /\ action'[a] = "reverting"
        /\ undo[a].phase = "claim_action"
    BY <1>2, <1>4 DEF Starts, UndoAt, TypeOK
  <2>2. /\ undo'[a].seen = undo[a].seen /\ undo'[a].todo = undo[a].todo
        /\ undo'[a].failed = undo[a].failed /\ undo'[a].phase = "enter"
    BY <1>1, <2>1 DEF Undos
  <2>3. \A s \in StepsOf(a) : RowFlow(a, s)'
    BY <1>1, <2>1, <2>2 DEF UndoFlow, RowFlow, Seen
  <2> QED BY <2>1, <2>2, <2>3 DEF UndoFlow, Replaying
<1>5. CASE Moves(a)
  <2>1. /\ step' = step /\ action' = action /\ undo[a].phase \notin {"idle", "claim_action"}
        /\ undo'[a].seen = undo[a].seen /\ undo'[a].todo = undo[a].todo
        /\ undo'[a].failed = undo[a].failed /\ undo'[a].at = undo[a].at
        /\ undo'[a].phase = "steps" \/ (undo[a].phase \in Replaying /\ undo'[a].phase \in Replaying)
    BY <1>1, <1>2, <1>5 DEF Moves, UndoAt, Undos
  <2>2. \A s \in StepsOf(a) : RowFlow(a, s)'
    BY <1>1, <2>1 DEF UndoFlow, RowFlow, Seen
  <2> QED BY <1>1, <2>1, <2>2 DEF UndoFlow, Replaying, Seen
<1>6. CASE PickStep(a)
  <2>1. /\ undo[a].phase = "steps" /\ step' = step /\ action' = action
        /\ \A s \in StepsOf(a) : RowFlow(a, s)
    BY <1>1, <1>6 DEF PickStep, UndoFlow
  <2>2. PICK s \in Last(a) :
          \/ Seen(a, s).status \in Passed /\ SetUndo(a, Done(a, s, FALSE))
          \/ SetUndo(a, Done(a, s, TRUE))
          \/ /\ Seen(a, s).status \notin Passed /\ Seen(a, s).inverse
             /\ SetUndo(a, [undo[a] EXCEPT !.phase = "claim", !.at = s])
    BY <1>6 DEF PickStep
  <2>3. s \in undo[a].todo /\ s \in StepsOf(a)
    BY <1>1, <2>2 DEF Last, Undos
  <2>4. CASE Seen(a, s).status \in Passed /\ SetUndo(a, Done(a, s, FALSE))
    <3>1. step[s].status \in NothingLeft
      BY <2>1, <2>3, <2>4 DEF RowFlow, Passed, NothingLeft
    <3>2. /\ undo'[a].phase = "steps" /\ undo'[a].seen = undo[a].seen
          /\ undo'[a].todo = undo[a].todo \ {s} /\ undo'[a].failed = undo[a].failed
      <4>1. undo'[a] = Done(a, s, FALSE)
        BY <2>4 DEF SetUndo, TypeOK
      <4> QED BY <1>1, <4>1 DEF Done, Undos
    <3>3. \A t \in StepsOf(a) : RowFlow(a, t)'
      BY <2>1, <3>1, <3>2 DEF RowFlow, Seen
    <3> QED BY <1>1, <2>1, <3>2, <3>3 DEF UndoFlow, Replaying
  <2>5. CASE SetUndo(a, Done(a, s, TRUE))
    <3>1. undo'[a].phase = "steps" /\ undo'[a].seen = undo[a].seen /\ undo'[a].failed
      <4>1. undo'[a] = Done(a, s, TRUE)
        BY <2>5 DEF SetUndo, TypeOK
      <4> QED BY <1>1, <4>1 DEF Done, Undos
    <3>2. \A t \in StepsOf(a) : RowFlow(a, t)'
      BY <2>1, <3>1 DEF RowFlow, Seen
    <3> QED BY <1>1, <2>1, <3>1, <3>2 DEF UndoFlow, Replaying
  <2>6. CASE /\ Seen(a, s).status \notin Passed /\ Seen(a, s).inverse
             /\ SetUndo(a, [undo[a] EXCEPT !.phase = "claim", !.at = s])
    <3>1. /\ undo'[a].phase = "claim" /\ undo'[a].at = s /\ undo'[a].seen = undo[a].seen
          /\ undo'[a].todo = undo[a].todo /\ undo'[a].failed = undo[a].failed
      <4>1. undo'[a] = [undo[a] EXCEPT !.phase = "claim", !.at = s]
        BY <2>6 DEF SetUndo, TypeOK
      <4> QED BY <1>1, <4>1 DEF Undos
    <3>2. \A t \in StepsOf(a) : RowFlow(a, t)'
      BY <2>1, <3>1 DEF RowFlow, Seen
    <3> QED BY <1>1, <2>1, <2>3, <2>6, <3>1, <3>2 DEF UndoFlow, Seen
  <2> QED BY <2>2, <2>4, <2>5, <2>6
<1>7. CASE Closes(a)
  <2>1. undo'[a].phase = "idle"
    BY <1>2, <1>7 DEF Closes, NoUndo
  <2>2. CASE action' = action /\ step' = step
    BY <1>1, <2>1, <2>2 DEF UndoFlow, Replaying
  <2>3. CASE action'[a] = "revert_failed"
    BY <2>1, <2>3 DEF UndoFlow, Replaying
  <2>4. CASE /\ undo[a].phase = "steps" /\ undo[a].todo = {} /\ ~undo[a].failed
             /\ step' = [s \in Steps |-> IF ActionOf[s] = a THEN Erased(step[s]) ELSE step[s]]
    <3>1. \A s \in StepsOf(a) : step[s].status \in NothingLeft
      BY <1>1, <2>4 DEF UndoFlow, RowFlow
    <3>2. \A s \in StepsOf(a) : step'[s].status \in NothingLeft
      BY <1>1, <2>4, <3>1, ErasedRow, StepFacts
    <3> QED BY <2>1, <3>2 DEF UndoFlow, Replaying
  <2> QED BY <1>7, <2>2, <2>3, <2>4 DEF Closes, TypeOK
<1>8. ASSUME NEW status \in {"reverting", "reverted", "revert_failed"}, Reverts(a, status)
      PROVE  /\ undo[a].at \in StepsOf(a) /\ undo[a].at \in undo[a].todo /\ action'[a] = "reverting"
             /\ \A s \in StepsOf(a) :
                  /\ RowFlow(a, s)
                  /\ step'[s].before = step[s].before /\ step'[s].after = step[s].after
                  /\ step'[s].inverse = step[s].inverse
                  /\ step'[s].status = IF s = undo[a].at THEN status ELSE step[s].status
             /\ Seen(a, undo[a].at).inverse /\ Seen(a, undo[a].at).status \notin Passed
  <2>1. undo[a].phase \in Replaying /\ action' = action
    BY <1>8 DEF Reverts
  <2>2. undo[a].phase \notin {"idle", "claim_action"}
    BY <2>1 DEF Replaying
  <2> QED BY <1>1, <1>8, <2>1, <2>2, RevertedRow DEF UndoFlow
<1>9. CASE Reverts(a, "reverting") /\ UndoAt(a, "recheck")
  <2>1. /\ undo'[a].phase = "recheck" /\ undo'[a].at = undo[a].at /\ undo'[a].seen = undo[a].seen
        /\ undo'[a].todo = undo[a].todo /\ undo'[a].failed = undo[a].failed
    BY <1>1, <1>2, <1>9 DEF Undos, UndoAt
  <2>2. \A s \in StepsOf(a) : RowFlow(a, s)'
    BY <1>8, <1>9, <2>1 DEF RowFlow, Seen
  <2> QED BY <1>8, <1>9, <2>1, <2>2 DEF UndoFlow, Seen
<1>10. CASE Reverts(a, "reverted") /\ SetUndo(a, Done(a, undo[a].at, FALSE))
  <2>1. /\ undo'[a].phase = "steps" /\ undo'[a].seen = undo[a].seen
        /\ undo'[a].todo = undo[a].todo \ {undo[a].at} /\ undo'[a].failed = undo[a].failed
    <3>1. undo'[a] = Done(a, undo[a].at, FALSE)
      BY <1>10 DEF SetUndo, TypeOK
    <3> QED BY <1>1, <3>1 DEF Done, Undos
  <2>2. \A s \in StepsOf(a) : RowFlow(a, s)'
    BY <1>8, <1>10, <2>1 DEF RowFlow, Seen, NothingLeft
  <2> QED BY <1>8, <1>10, <2>1, <2>2 DEF UndoFlow, Replaying
<1>11. CASE /\ Reverts(a, "revert_failed") \/ (step' = step /\ action' = action)
            /\ undo[a].phase \in Replaying /\ SetUndo(a, Done(a, undo[a].at, TRUE))
  <2>1. undo'[a].phase = "steps" /\ undo'[a].seen = undo[a].seen /\ undo'[a].failed
    <3>1. undo'[a] = Done(a, undo[a].at, TRUE)
      BY <1>11 DEF SetUndo, TypeOK
    <3> QED BY <1>1, <3>1 DEF Done, Undos
  <2>2. action'[a] = "reverting" /\ \A s \in StepsOf(a) : RowFlow(a, s)
    <3>1. undo[a].phase \notin {"idle", "claim_action"} /\ action' = action
      BY <1>11 DEF Replaying, Reverts
    <3> QED BY <1>1, <3>1 DEF UndoFlow
  <2>3. \A s \in StepsOf(a) : RowFlow(a, s)'
    <3>1. CASE step' = step
      BY <2>1, <2>2, <3>1 DEF RowFlow, Seen
    <3>2. CASE Reverts(a, "revert_failed")
      BY <1>8, <2>1, <3>2 DEF RowFlow, Seen
    <3> QED BY <1>11, <3>1, <3>2
  <2> QED BY <2>1, <2>2, <2>3 DEF UndoFlow, Replaying
<1> QED BY <1>3, <1>4, <1>5, <1>6, <1>7, <1>9, <1>10, <1>11, UndoForms

\* An undo leaves its action's call and its note as they may be found.
LEMMA UndoFlowOwn ==
    ASSUME TypeOK, WindowInv, FlowInv, NEW a \in Actions, UndoSteps(a) \/ RequestUndo(a),
           "overlap" \notin Faults
    PROVE  CallFlow(a)' /\ NoteFlow(a)'
<1>1. /\ phase[a] = "idle" /\ phase'[a] = "idle" /\ action'[a] # "absent" /\ action[a] # "absent"
      /\ CallFlow(a) /\ NoteFlow(a) /\ UndoFlow(a)
  BY UndoMovesOnly DEF FlowInv
<1>2. CallFlow(a)'
  BY <1>1 DEF CallFlow, Claimed
<1>3. \A s \in StepsOf(a) : s \in Steps /\ ActionOf[s] = a /\ step[s] \in Rows
  BY StepFacts DEF TypeOK
<1>4. ASSUME NEW s \in StepsOf(a)
      PROVE  /\ step'[s].inverse => step[s].inverse
             /\ step'[s].status \in {step[s].status, "reverting", "reverted", "revert_failed"}
             /\ step'[s] = step[s] \/ action'[a] \in {"reverting", "reverted"}
  <2>1. CASE step' = step
    BY <2>1
  <2>2. ASSUME NEW v \in {"reverting", "reverted", "revert_failed"}, Reverts(a, v)
        PROVE  /\ step'[s].inverse = step[s].inverse /\ step'[s].status \in {step[s].status, v}
               /\ action'[a] = "reverting"
    <3>1. undo[a].phase \notin {"idle", "claim_action"} /\ action' = action
      BY <2>2 DEF Reverts, Replaying
    <3> QED BY <1>1, <2>2, <3>1, RevertedRow DEF UndoFlow
  <2>3. CASE /\ action' = [action EXCEPT ![a] = "reverted"]
             /\ step' = [r \in Steps |-> IF ActionOf[r] = a THEN Erased(step[r]) ELSE step[r]]
    <3>1. step'[s] = Erased(step[s]) /\ action'[a] = "reverted"
      BY <1>3, <2>3 DEF TypeOK
    <3> QED BY <1>3, <3>1, ErasedRow
  <2>4. \/ step' = step
        \/ \E v \in {"reverting", "reverted", "revert_failed"} : Reverts(a, v)
        \/ /\ action' = [action EXCEPT ![a] = "reverted"]
           /\ step' = [r \in Steps |-> IF ActionOf[r] = a THEN Erased(step[r]) ELSE step[r]]
    BY UndoForms DEF Starts, Moves, Closes, RequestUndo, PickStep
  <2> QED BY <2>1, <2>2, <2>3, <2>4
<1>5. ASSUME a \in Notes, NEW s \in StepsOf(a)
      PROVE  /\ step'[s].status # "no_effect"
             /\ step'[s].status = "absent" => ~step'[s].inverse
             /\ "db" \notin Faults /\ step'[s].inverse
                   /\ action'[a] \notin {"absent", "reverting", "reverted", "revert_failed"} =>
                  action'[a] # "irreversible" /\ step'[s].status \in Retriable
  <2>1. action'[a] \in {action[a], "reverting", "reverted", "revert_failed"}
    BY UndoForms DEF TypeOK, Starts, Moves, Closes, Reverts, RequestUndo, PickStep
  <2> QED BY <1>1, <1>4, <1>5, <2>1 DEF NoteFlow, Claimed
<1>6. NoteFlow(a)'
  BY <1>1, <1>5 DEF NoteFlow, Claimed
<1> QED BY <1>2, <1>6

\* A restart finds rows it leaves retriable, and forgets who was at work.
LEMMA FlowRestart ==
    ASSUME TypeOK, FlowInv, Restart
    PROVE  FlowInv'
<1> SUFFICES ASSUME NEW a \in Actions PROVE CallFlow(a)' /\ NoteFlow(a)' /\ UndoFlow(a)'
  BY DEF FlowInv
<1>1. /\ CallFlow(a) /\ NoteFlow(a) /\ UndoFlow(a) /\ action[a] \in StepStatus
      /\ \A s \in StepsOf(a) : s \in Steps /\ step[s] \in Rows
  BY StepFacts DEF FlowInv, TypeOK
<1>2. phase'[a] = "idle" /\ undo'[a].phase = "idle" /\ action'[a] = RecoveredAction(a)
  BY DEF Restart, NoUndo
<1>3. ASSUME NEW s \in StepsOf(a)
      PROVE  /\ step'[s].status = RecoveredStep(step[s].status)
             /\ step'[s].inverse => step[s].inverse
  BY <1>1, RestartedRow
<1>4. /\ action[a] = "absent" <=> RecoveredAction(a) = "absent"
      /\ RecoveredAction(a) \in {action[a], "revert_failed", "uncertain", "partially_applied",
                                 "no_effect", "failed"}
      /\ RecoveredAction(a) \notin {"reverting", "prepared", "applying"}
      /\ RecoveredAction(a) = "reverted" => action[a] = "reverted"
      /\ action[a] \in {"reverting", "revert_failed"} => RecoveredAction(a) = "revert_failed"
  BY <1>1 DEF RecoveredAction, StepStatus
<1>5. CallFlow(a)'
  BY <1>1, <1>2, <1>3, <1>4 DEF CallFlow, RecoveredStep, Claimed
<1>6. NoteFlow(a)'
  <2> SUFFICES ASSUME a \in Notes PROVE NoteFlow(a)'
    BY DEF NoteFlow
  <2>1. ASSUME NEW s \in StepsOf(a)
        PROVE  /\ step'[s].status # "no_effect"
               /\ step'[s].status = "absent" => ~step'[s].inverse
    <3>1. step[s].status # "no_effect" /\ (step[s].status = "absent" => ~step[s].inverse)
      BY <1>1 DEF NoteFlow
    <3> QED BY <1>3, <3>1 DEF RecoveredStep
  <2>2. ASSUME NEW s \in StepsOf(a), "db" \notin Faults, step'[s].inverse,
               action'[a] \notin {"absent", "reverting", "reverted", "revert_failed"}
        PROVE  action'[a] # "irreversible" /\ step'[s].status \in Retriable
    <3>1. /\ action[a] # "irreversible"
          /\ step[s].status \in Retriable \/ step[s].status = "applying"
      <4>1. /\ step[s].inverse
            /\ action[a] \notin {"absent", "reverting", "reverted", "revert_failed"}
        <5>1. RecoveredAction(a) \notin {"absent", "reverting", "reverted", "revert_failed"}
          BY <1>2, <2>2
        <5>2. action[a] # "reverted" \/ RecoveredAction(a) = "reverted"
          BY DEF RecoveredAction
        <5> QED BY <1>3, <1>4, <2>2, <5>1, <5>2
      <4> QED BY <1>1, <2>2, <4>1 DEF NoteFlow
    <3> QED BY <1>2, <1>3, <1>4, <3>1 DEF RecoveredStep, Retriable
  <2> QED BY <1>2, <2>1, <2>2 DEF NoteFlow, Claimed
<1>7. UndoFlow(a)'
  BY <1>1, <1>2, <1>3, <1>4 DEF UndoFlow, RecoveredStep, NothingLeft, Replaying
<1> QED BY <1>5, <1>6, <1>7

\* Every step keeps the rows with the call and the undo that work on them.
LEMMA FlowNext ==
    ASSUME TypeOK, WindowInv, FlowInv, [Next]_vars, FaultsHere
    PROVE  FlowInv'
<1>1. ASSUME \A b \in Actions : Unmoved(b) PROVE FlowInv'
  BY <1>1, FlowOthers DEF FlowInv
<1>2. CASE UNCHANGED vars
  BY <1>1, <1>2 DEF vars, Unmoved
<1>3. ASSUME NEW a \in Actions, CallSteps(a) \/ Begin(a) \/ Resume(a) PROVE FlowInv'
  <2>1. CallFlow(a)' /\ NoteFlow(a)' /\ UndoFlow(a)' /\ \A b \in Actions \ {a} : Unmoved(b)
    BY <1>3, CallFlowNext, NoteFlowNext, CallUndoesNothing DEF FaultsHere
  <2> QED BY <2>1, FlowOthers DEF FlowInv
<1>4. ASSUME NEW a \in Actions, UndoSteps(a) \/ RequestUndo(a) PROVE FlowInv'
  <2>1. CallFlow(a)' /\ NoteFlow(a)' /\ UndoFlow(a)' /\ \A b \in Actions \ {a} : Unmoved(b)
    BY <1>4, UndoFlowOwn, UndoFlowNext, UndoMovesOnly DEF FaultsHere
  <2> QED BY <2>1, FlowOthers DEF FlowInv
<1>5. ASSUME NEW o \in Objects, UserEdits(o) PROVE FlowInv'
  BY <1>1, <1>5 DEF UserEdits, Unmoved, call
<1> QED BY <1>2, <1>3, <1>4, <1>5, FlowRestart DEF Next
-----------------------------------------------------------------------------
(***************************************************************************)
(* What the rows say of the steps a call is through with, in an instance   *)
(* in which no operation changes only a part of its targets.               *)
(***************************************************************************)

\* The statuses of steps that made no change that anybody knows of.
Unmade == {"absent", "failed", "no_effect"}

\* The steps before the one a call is at are recorded; only a retry finds an
\* action that has an outcome already.  A step that cannot be undone has no
\* inverse, and an action without effect, or that cannot be undone, keeps
\* inverses only for changes that were not made.
OutcomeFlow(a) ==
    /\ out[a] # "partial" /\ \A s \in StepsOf(a) : step[s].status # "partially_applied"
    /\ phase[a] # "idle" => \A s \in StepsOf(a) : s < at[a] => step[s].status \in Recorded
    /\ phase[a] = "finish" => \A s \in StepsOf(a) : step[s].status \in Recorded
    /\ phase[a] # "idle" /\ ~resumed[a] => action[a] \in {"absent", "prepared", "applying"}
    /\ phase[a] \in Claimed \ {"claim_action"} => action[a] = "applying"
    /\ action[a] \in {"prepared", "applying"} =>
         \A s \in StepsOf(a) : step[s].status \notin {"reverting", "reverted", "revert_failed"}
    /\ a \in Notes => action[a] # "no_effect"
    /\ \A s \in StepsOf(a) : step[s].status = "irreversible" => ~step[s].inverse
    /\ action[a] \in {"no_effect", "irreversible"} =>
         \A s \in StepsOf(a) : step[s].inverse => step[s].status \in Unmade

\* What is known of the outcomes when no effect is partial.
OutcomeInv == "partial" \notin Faults => \A a \in Actions : OutcomeFlow(a)

\* Nothing has an outcome at the start.
LEMMA OutcomeInit == Init => OutcomeInv
BY StepFacts DEF Init, OutcomeInv, OutcomeFlow, NoRow, Claimed

\* A step of one action leaves the outcomes of the others alone.
LEMMA OutcomeOthers ==
    ASSUME TypeOK, NEW b \in Actions, OutcomeFlow(b), Unmoved(b)
    PROVE  OutcomeFlow(b)'
<1>1. at[b] \in StepsOf(b)
  BY DEF TypeOK
<1> QED BY <1>1 DEF Unmoved, OutcomeFlow

\* The outcome of a change is one of those a step is recorded with.
LEMMA OutcomeRecorded ==
    ASSUME TypeOK, NEW a \in Actions, out[a] # "partial"
    PROVE  /\ Outcome(a) \in Recorded
           /\ Outcome(a) = "irreversible" => ~Row(a).inverse
<1>1. out[a] \in {"none", "applied"}
  BY DEF TypeOK
<1> QED BY <1>1 DEF Outcome, Recorded

\* The steps of a call keep the outcomes of its action.
LEMMA OutcomeCall ==
    ASSUME TypeOK, WindowInv, FlowInv, NEW a \in Actions, FaultsHere,
           "partial" \notin Faults, OutcomeFlow(a), CallSteps(a) \/ Begin(a) \/ Resume(a)
    PROVE  OutcomeFlow(a)'
<1>1. PICK i \in StepsOf(a) : i = at[a]
  BY DEF TypeOK
<1>2. /\ CallFlow(a) /\ NoteFlow(a) /\ i \in Steps /\ step[i] \in Rows /\ Row(a) = step[i]
      /\ \A s \in StepsOf(a) : s \in Steps /\ s \in Nat
      /\ a \in Notes => \A s \in StepsOf(a) : s = i
  <2>1. a \in Notes => \A s \in StepsOf(a) : s = i
    BY <1>1, StepsAssumption
  <2> QED BY <1>1, <2>1, StepFacts DEF FlowInv, TypeOK, Row
<1>3. resumed[a] /\ phase[a] # "idle" => a \in Notes
  BY <1>2 DEF CallFlow
<1> USE <1>1, <1>2, <1>3 DEF OutcomeFlow, TypeOK, GoTo, SetRow, Claimed
<1>4. CASE Begin(a)
  <2>1. PICK j \in StepsOf(a) : IsFirst(j) /\ at' = [at EXCEPT ![a] = j]
    BY <1>4 DEF Begin
  <2>2. \A s \in StepsOf(a) : ~(s < j)
    BY <2>1, StepFacts DEF IsFirst
  <2>3. /\ phase'[a] = "enter" /\ action' = action /\ step' = step /\ out' = out /\ at'[a] = j
        /\ action[a] = "absent"
    BY <1>4, <2>1 DEF Begin
  <2> QED BY <2>2, <2>3
<1>5. CASE Resume(a)
  BY <1>5 DEF Resume
<1>6. CASE EnterWindow(a)
  BY <1>6 DEF EnterWindow
<1>7. CASE Prepare(a)
  <2>1. /\ phase[a] = "prepare" /\ phase'[a] = "claim" /\ at' = at /\ resumed' = resumed /\ out' = out
        /\ action'[a] \in {"prepared", action[a]}
        /\ \A s \in StepsOf(a) \ {i} : step'[s] = step[s]
        /\ step'[i].status = "prepared"
    BY <1>7 DEF Prepare
  <2>2. ~resumed[a] /\ action[a] \in {"absent", "prepared", "applying"}
    BY <2>1 DEF CallFlow
  <2>3. action[a] = "absent" => \A s \in StepsOf(a) : step[s].status = "absent"
    BY DEF CallFlow
  <2> QED BY <2>1, <2>2, <2>3
<1>8. CASE ClaimStep(a)
  <2>1. /\ phase[a] = "claim" /\ phase'[a] \in {"claim_action", "refuse"}
        /\ at' = at /\ resumed' = resumed /\ out' = out /\ action' = action
        /\ \A s \in StepsOf(a) \ {i} : step'[s] = step[s]
        /\ step'[i].inverse = step[i].inverse
        /\ \/ step'[i].status = step[i].status
           \/ step'[i].status = "applying" /\ (step[i].status = "prepared" \/ resumed[a])
    BY <1>8 DEF ClaimStep, Rows
  <2>2. action[a] \in {"no_effect", "irreversible"} /\ step'[i].inverse =>
          step'[i].status \in Unmade
    <3>1. ~resumed[a] => action[a] \notin {"no_effect", "irreversible"}
      BY <2>1
    <3>2. resumed[a] => action[a] \notin {"no_effect", "irreversible"}
      <4> SUFFICES ASSUME resumed[a] PROVE action[a] \notin {"no_effect", "irreversible"}
        OBVIOUS
      <4>1. a \in Notes /\ "db" \notin Faults /\ step[i].inverse
        BY <2>1 DEF CallFlow, FaultsHere, NoteFlow
      <4>2. action[a] \notin {"absent", "reverting", "reverted", "revert_failed"}
        BY <2>1 DEF CallFlow
      <4> QED BY <4>1, <4>2 DEF NoteFlow
    <3> QED BY <3>1, <3>2
  <2> QED BY <2>1, <2>2
<1>9. CASE ClaimAction(a)
  <2>1. /\ step' = step /\ at' = at /\ resumed' = resumed /\ out' = out /\ phase[a] = "claim_action"
        /\ \/ phase'[a] = "write" /\ action'[a] = "applying"
           \/ phase'[a] = "refuse" /\ action' = action
    BY <1>9 DEF ClaimAction
  <2>2. step[i].status = "applying"
    BY <2>1 DEF CallFlow
  <2>3. \A s \in StepsOf(a) : step[s].status \notin {"reverting", "reverted", "revert_failed"}
    <3>1. CASE resumed[a]
      BY <2>1, <2>2, <3>1
    <3>2. CASE ~resumed[a]
      BY <2>1, <3>2 DEF CallFlow
    <3> QED BY <3>1, <3>2
  <2> QED BY <2>1, <2>3
<1>10. CASE ClaimFails(a)
  BY <1>10 DEF ClaimFails
<1>11. CASE Refuse(a) \/ StepFails(a)
  <2>1. /\ phase[a] \in {"refuse", "uncertain", "failed"}
        /\ phase'[a] \in {"settle_failed", "settle_uncertain"}
        /\ at' = at /\ resumed' = resumed /\ out' = out /\ action' = action
        /\ \A s \in StepsOf(a) \ {i} : step'[s] = step[s]
        /\ step'[i].inverse = step[i].inverse
        /\ step'[i].status \in {step[i].status, "failed", "uncertain"}
        /\ step'[i].status = "uncertain" =>
             step[i].status = "uncertain" \/ phase[a] = "uncertain"
    BY <1>11 DEF Refuse, StepFails, Rows
  <2>2. phase[a] = "uncertain" => step[i].status = "applying"
    BY DEF CallFlow
  <2> QED BY <2>1, <2>2 DEF Unmade
<1>12. CASE WriteLibrary(a) \/ WriteNote(a) \/ Reconcile(a) \/ TryOnceMore(a)
  <2>1. /\ step' = step /\ at' = at /\ resumed' = resumed /\ action' = action
        /\ phase[a] \in Claimed \ {"claim_action"} /\ phase'[a] \notin {"idle", "finish"}
        /\ out'[a] \in {out[a], "none", "applied"}
    BY <1>12 DEF WriteLibrary, WriteNote, Reconcile, TryOnceMore
  <2> QED BY <2>1
<1>13. CASE Record(a)
  <2>1. /\ \A s \in StepsOf(a) \ {i} : step'[s] = step[s]
        /\ step'[i].inverse = step[i].inverse /\ step'[i].status = Outcome(a)
        /\ phase[a] \in {"record", "rerecord"} /\ resumed' = resumed /\ action' = action /\ out' = out
    BY <1>13 DEF Record, Rows
  <2>2. Outcome(a) \in Recorded /\ (Outcome(a) = "irreversible" => ~step[i].inverse)
    BY OutcomeRecorded
  <2>3. /\ phase'[a] = "finish" => at' = at /\ \A s \in StepsOf(a) : s <= i
        /\ phase'[a] # "finish" => /\ phase'[a] = "enter"
                                   /\ \A s \in StepsOf(a) : s < at'[a] => s <= i
    <3>1. CASE Later(i) = {}
      <4>1. \A s \in StepsOf(a) : s <= i
        <5>1. ActionOf[i] = a
          BY StepFacts
        <5>2. \A s \in StepsOf(a) : ~(s > i)
          BY ONLY <3>1, <5>1 DEF Later
        <5> QED BY <5>2
      <4> QED BY <1>13, <3>1, <4>1 DEF Record
    <3>2. CASE Later(i) # {}
      <4>1. PICK j \in Following(i) : at' = [at EXCEPT ![a] = j]
        BY <1>13, <3>2 DEF Record
      <4>2. \A s \in StepsOf(a) : s > i => j <= s
        BY <4>1, StepFacts DEF Following, Later
      <4>3. j \in Nat /\ at'[a] = j
        BY <4>1, StepFacts DEF Following, Later
      <4> QED BY <1>13, <3>2, <4>2, <4>3 DEF Record
    <3> QED BY <3>1, <3>2
  <2>4. action[a] # "absent"
    BY <2>1 DEF CallFlow
  <2>5. \A s \in StepsOf(a) : s <= i => step'[s].status \in Recorded
    BY <2>1, <2>2
  <2>6. action[a] \in {"no_effect", "irreversible"} /\ step'[i].inverse =>
          step'[i].status \in Unmade
    <3>1. step[i].status = "applying"
      BY <2>1 DEF CallFlow
    <3> QED BY <2>1, <3>1 DEF Unmade
  <2> QED BY <2>1, <2>2, <2>3, <2>4, <2>5, <2>6 DEF Recorded
<1>14. CASE RecordFails(a)
  BY <1>14 DEF RecordFails
<1>15. CASE Finish(a)
  <2>1. /\ step' = step /\ phase'[a] = "idle" /\ phase[a] = "finish" /\ out' = out
        /\ action'[a] = IF ChangedSteps(a) = {} THEN "no_effect"
            ELSE IF \E s \in ChangedSteps(a) : step[s].status = "partially_applied"
            THEN "partially_applied"
            ELSE IF NoneUndoable(ChangedSteps(a)) THEN "irreversible" ELSE "applied"
    BY <1>15 DEF Finish
  <2>2. \A s \in StepsOf(a) : step[s].status = "no_effect" \/ s \in ChangedSteps(a)
    BY <2>1 DEF Recorded, ChangedSteps, Changed
  <2>3. a \in Notes => ChangedSteps(a) # {}
    BY <2>2 DEF NoteFlow
  <2>4. action'[a] \in {"no_effect", "irreversible"} =>
          \A s \in StepsOf(a) : step[s].inverse => step[s].status \in Unmade
    BY <2>1, <2>2 DEF NoneUndoable, Unmade
  <2>5. action'[a] \notin {"prepared", "applying"} /\ (a \in Notes => action'[a] # "no_effect")
    BY <2>1, <2>3
  <2> QED BY <2>1, <2>4, <2>5
<1>16. CASE FinishFails(a)
  BY <1>16 DEF FinishFails
<1>17. CASE Settle(a)
  <2>1. /\ step' = step /\ phase'[a] = "idle" /\ out' = out
        /\ action'[a] \in {"partially_applied", "uncertain", "failed", action[a]}
    BY <1>17 DEF Settle
  <2> QED BY <2>1
<1> QED BY <1>4, <1>5, <1>6, <1>7, <1>8, <1>9, <1>10, <1>11, <1>12, <1>13, <1>14, <1>15,
           <1>16, <1>17 DEF CallSteps

\* So do the steps of an undo.
LEMMA OutcomeUndo ==
    ASSUME TypeOK, WindowInv, FlowInv, NEW a \in Actions, "overlap" \notin Faults,
           OutcomeFlow(a), UndoSteps(a) \/ RequestUndo(a)
    PROVE  OutcomeFlow(a)'
<1>1. phase'[a] = "idle" /\ out' = out /\ UndoFlow(a)
  BY UndoMovesOnly, UndoForms DEF FlowInv, call
<1>2. \A s \in StepsOf(a) : s \in Steps /\ step[s] \in Rows
  BY StepFacts DEF TypeOK
<1>3. CASE step' = step /\ action' = action
  BY <1>1, <1>3 DEF OutcomeFlow, Claimed
<1>4. CASE step' = step /\ action'[a] \in {"reverting", "revert_failed"}
  BY <1>1, <1>4 DEF OutcomeFlow, Claimed
<1>5. ASSUME NEW status \in {"reverting", "reverted", "revert_failed"}, Reverts(a, status)
      PROVE  OutcomeFlow(a)'
  <2>1. action'[a] = "reverting"
    BY <1>1, <1>5 DEF Reverts, UndoFlow, Replaying
  <2>2. \A s \in StepsOf(a) : /\ step'[s].inverse = step[s].inverse
                              /\ step'[s].status \in {step[s].status, status}
    BY <1>5, RevertedRow
  <2> QED BY <1>1, <2>1, <2>2 DEF OutcomeFlow, Claimed
<1>6. CASE /\ action' = [action EXCEPT ![a] = "reverted"]
           /\ step' = [s \in Steps |-> IF ActionOf[s] = a THEN Erased(step[s]) ELSE step[s]]
  <2>1. action'[a] = "reverted"
    BY <1>6 DEF TypeOK
  <2>2. \A s \in StepsOf(a) : step'[s].status = step[s].status /\ ~step'[s].inverse
    BY <1>2, <1>6, ErasedRow, StepFacts
  <2> QED BY <1>1, <2>1, <2>2 DEF OutcomeFlow, Claimed
<1>7. CASE Starts(a) \/ Moves(a) \/ PickStep(a)
  BY <1>3, <1>4, <1>7 DEF Starts, Moves, RequestUndo, PickStep, TypeOK
<1>8. CASE Closes(a)
  <2>1. CASE step' = step /\ action' = [action EXCEPT ![a] = "revert_failed"]
    BY <1>4, <2>1 DEF TypeOK
  <2> QED BY <1>3, <1>6, <1>8, <2>1 DEF Closes
<1> QED BY <1>3, <1>5, <1>7, <1>8, UndoForms

\* What the recovery makes of the rows goes together, too.
LEMMA OutcomeRestart ==
    ASSUME TypeOK, FlowInv, NEW a \in Actions, OutcomeFlow(a), Restart
    PROVE  OutcomeFlow(a)'
<1>1. /\ NoteFlow(a) /\ action[a] \in StepStatus
      /\ \A s \in StepsOf(a) : s \in Steps /\ step[s] \in Rows /\ step[s].status \in StepStatus
  BY StepFacts DEF FlowInv, TypeOK, Rows
<1>2. phase'[a] = "idle" /\ out' = out /\ action'[a] = RecoveredAction(a)
  BY DEF Restart
<1>3. ASSUME NEW s \in StepsOf(a)
      PROVE  /\ step'[s].status = RecoveredStep(step[s].status)
             /\ step'[s].inverse => step[s].inverse
  BY <1>1, RestartedRow
<1>4. ASSUME action[a] \in {"prepared", "applying"}, NEW s \in StepsOf(a)
      PROVE  RecoveredStep(step[s].status) \in
               Unmade \union {"applied", "irreversible", "uncertain"}
  <2>1. step[s].status \notin {"reverting", "reverted", "revert_failed", "partially_applied"}
    BY <1>4 DEF OutcomeFlow
  <2> QED BY <1>1, <2>1 DEF RecoveredStep, StepStatus, Unmade
<1>5. RecoveredAction(a) \notin {"prepared", "applying"}
  BY <1>1 DEF RecoveredAction
<1>6. a \in Notes => RecoveredAction(a) # "no_effect"
  <2>1. a \in Notes => \A s \in StepsOf(a) : RecoveredStep(step[s].status) # "no_effect"
    BY DEF RecoveredStep, NoteFlow, FlowInv
  <2> QED BY <1>4, <2>1 DEF RecoveredAction, OutcomeFlow, Unmade
<1>7. ASSUME RecoveredAction(a) \in {"no_effect", "irreversible"}, NEW s \in StepsOf(a),
             step'[s].inverse
      PROVE  step'[s].status \in Unmade
  <2>1. CASE action[a] \in {"prepared", "applying"}
    BY <1>3, <1>4, <1>7, <2>1 DEF RecoveredAction
  <2>2. CASE action[a] \notin {"prepared", "applying"}
    <3>1. RecoveredAction(a) \in {action[a], "revert_failed"}
      BY <2>2 DEF RecoveredAction
    <3>2. step[s].status \in Unmade
      BY <1>3, <1>7, <3>1 DEF OutcomeFlow
    <3> QED BY <1>3, <3>2 DEF RecoveredStep, Unmade
  <2> QED BY <2>1, <2>2
<1>8. \A s \in StepsOf(a) :
        /\ step'[s].status # "partially_applied"
        /\ step'[s].status = "irreversible" => ~step'[s].inverse
  BY <1>3 DEF OutcomeFlow, RecoveredStep
<1> QED BY <1>2, <1>5, <1>6, <1>7, <1>8 DEF OutcomeFlow, Claimed

\* Every step of the system does.
LEMMA OutcomeNext ==
    ASSUME TypeOK, WindowInv, FlowInv, OutcomeInv, [Next]_vars, FaultsHere
    PROVE  OutcomeInv'
<1> SUFFICES ASSUME "partial" \notin Faults, NEW b \in Actions PROVE OutcomeFlow(b)'
  BY DEF OutcomeInv
<1>1. OutcomeFlow(b) /\ "overlap" \notin Faults
  BY DEF OutcomeInv, FaultsHere
<1>2. CASE UNCHANGED vars
  BY <1>1, <1>2, OutcomeOthers DEF vars, Unmoved
<1>3. ASSUME NEW a \in Actions, CallSteps(a) \/ Begin(a) \/ Resume(a) PROVE OutcomeFlow(b)'
  BY <1>1, <1>3, OutcomeCall, OutcomeOthers, CallUndoesNothing
<1>4. ASSUME NEW a \in Actions, UndoSteps(a) \/ RequestUndo(a) PROVE OutcomeFlow(b)'
  BY <1>1, <1>4, OutcomeUndo, OutcomeOthers, UndoMovesOnly
<1>5. ASSUME NEW o \in Objects, UserEdits(o) PROVE OutcomeFlow(b)'
  BY <1>1, <1>5, OutcomeOthers DEF UserEdits, Unmoved, call
<1> QED BY <1>1, <1>2, <1>3, <1>4, <1>5, OutcomeRestart DEF Next
-----------------------------------------------------------------------------
(***************************************************************************)
(* What an undo can bring back.  W is the set of the values that have been *)
(* in the library; reach[v] are the ones an undo leads to from v, v itself *)
(* included.                                                               *)
(***************************************************************************)

\* The pre-image of a step was there before it and leads back no further; its
\* post-image leads to the pre-image.  A step that failed or was undone cannot
\* come back, one that was never made has never been there.
RowHistory(W, reach, s) ==
    /\ step[s].inverse =>
         /\ step[s].before \in W /\ s \notin reach[step[s].before]
         /\ s \in W => reach[s] = {s} \union reach[step[s].before]
         /\ step[s].after # NoImage /\ step[s].status # "no_effect" =>
              step[s].after \in W /\ reach[step[s].before] \subseteq reach[step[s].after]
    /\ step[s].status \in {"absent", "prepared"} => s \notin W
    /\ step[s].status \in {"failed", "reverted"} => s \notin reach[target[TargetOf[s]]]

\* A call whose change is about to be made has not made it, one that has
\* provably failed has left nothing, and one that records its change can be
\* taken back to its pre-image.
CallHistory(W, reach, a) ==
    /\ phase[a] \in {"claim", "claim_action", "refuse", "write"} /\ ~resumed[a] => at[a] \notin W
    /\ phase[a] \in {"clean", "failed"} => at[a] \notin reach[target[Object(a)]]
    /\ (\/ phase[a] \in {"claim", "claim_action", "write"} /\ ~resumed[a]
        \/ phase[a] \in {"record", "rerecord"} /\ out[a] # "none") =>
         /\ step[at[a]].before \in W
         /\ reach[step[at[a]].before] \subseteq reach[target[Object(a)]]

\* An undo that has put the pre-image back has taken the step away; one that
\* is about to can.
UndoHistory(W, reach, a) ==
    /\ undo[a].phase \in {"reread", "mark"} =>
         undo[a].at \notin reach[target[TargetOf[undo[a].at]]]
    /\ undo[a].phase = "inverse" =>
         /\ step[undo[a].at].before \in W
         /\ reach[step[undo[a].at].before] \subseteq reach[target[TargetOf[undo[a].at]]]

\* A step is gone when what is in the library does not lead back to it.
Gone(reach, s) == step[s].status = "no_effect" \/ s \notin reach[target[TargetOf[s]]]

\* When every operation changes all of its targets or none, the steps of an
\* action that failed are gone; so are those of one that is about to be called
\* failed, but for the ones that are recorded as changes.
FailedHistory(reach, a) == "partial" \notin Faults =>
    /\ action[a] = "failed" => \A s \in StepsOf(a) : Gone(reach, s)
    /\ phase[a] = "settle_failed" =>
         \A s \in StepsOf(a) : Gone(reach, s) \/ (a \notin Notes /\ step[s].status \in Changed)

\* Edits in the middle of some work are counted; an edit leads to no step.
ValueHistory(W, reach) ==
    /\ Edited \in W /\ reach[Edited] \cap Steps = {}
    /\ \A v \in W : v \in reach[v]
    /\ \A o \in Objects : target[o] \in W
    /\ \A n \in Nat : MidEdit(n) \in W => n < edits

\* W holds the contents there have been, and reach says which of them an undo
\* can still bring back from each.
History(W, reach) ==
    /\ ValueHistory(W, reach)
    /\ \A s \in Steps : RowHistory(W, reach, s)
    /\ \A a \in Actions :
         CallHistory(W, reach, a) /\ UndoHistory(W, reach, a) /\ FailedHistory(reach, a)

\* There is such a history of the library.
HistoryInv ==
    \E W \in SUBSET Value : \E reach \in [W -> SUBSET W] : History(W, reach)

\* At the start there is nothing to bring back.
LEMMA HistoryInit == Init => HistoryInv
<1> SUFFICES ASSUME Init PROVE HistoryInv
  OBVIOUS
<1>1. PICK W \in SUBSET Value : W = {Original, Edited}
  BY Values
<1>2. PICK reach \in [W -> SUBSET W] : \A v \in W : reach[v] = {v}
  <2> DEFINE r == [v \in W |-> {v}]
  <2>1. r \in [W -> SUBSET W] /\ \A v \in W : r[v] = {v}
    OBVIOUS
  <2> QED BY <2>1
<1>3. Original \notin Steps /\ Edited \notin Steps
  BY StepFacts, Values DEF Original
<1>4. ValueHistory(W, reach)
  <2>1. \A n \in Nat : MidEdit(n) \notin W
    BY <1>1, Values
  <2> QED BY <1>1, <1>2, <1>3, <2>1 DEF Init, ValueHistory
<1>5. ASSUME NEW s \in Steps PROVE RowHistory(W, reach, s)
  BY <1>1, <1>3 DEF Init, RowHistory, NoRow
<1>6. ASSUME NEW a \in Actions
      PROVE  CallHistory(W, reach, a) /\ UndoHistory(W, reach, a) /\ FailedHistory(reach, a)
  BY DEF Init, CallHistory, UndoHistory, FailedHistory, NoUndo
<1> QED BY <1>4, <1>5, <1>6 DEF History, HistoryInv

\* Steps stay gone while nothing leads back to them that did not before.
LEMMA FailedStays ==
    ASSUME NEW a \in Actions, NEW reach, NEW reach1, FailedHistory(reach, a),
           action'[a] = action[a], phase'[a] = phase[a],
           \A s \in StepsOf(a) :
               /\ step'[s] = step[s]
               /\ s \notin reach[target[TargetOf[s]]] => s \notin reach1[target'[TargetOf[s]]]
    PROVE  FailedHistory(reach1, a)'
BY DEF FailedHistory, Gone

\* A step of one action, that adds no value but perhaps the step it is at,
\* keeps the history of the others.
LEMMA HistoryOthers ==
    ASSUME TypeOK, WindowInv, NEW a \in Actions, \A b \in Actions \ {a} : Unmoved(b),
           NEW W \in SUBSET Value, NEW reach \in [W -> SUBSET W], History(W, reach),
           NEW W1 \in SUBSET Value, NEW reach1 \in [W1 -> SUBSET W1],
           W \subseteq W1, W1 \subseteq W \union {at[a]},
           \A v \in W : reach1[v] = reach[v], \A v \in W1 : v \in reach1[v],
           \A o \in Objects : /\ target'[o] \in W1
                              /\ reach1[target'[o]] \subseteq reach[target[o]] \union {at[a]},
           target' = target \/ Inside(a), edits' = edits,
           \A s \in StepsOf(a) : RowHistory(W1, reach1, s)',
           CallHistory(W1, reach1, a)', UndoHistory(W1, reach1, a)', FailedHistory(reach1, a)'
    PROVE  HistoryInv'
<1>1. at[a] \in StepsOf(a) /\ at[a] \in Steps
  BY StepFacts DEF TypeOK
<1>2. ValueHistory(W1, reach1)'
  <2>1. ValueHistory(W, reach)
    BY DEF History
  <2>2. \A n \in Nat : MidEdit(n) # at[a]
    BY <1>1, Values
  <2> QED BY <2>1, <2>2 DEF ValueHistory
<1>3. ASSUME NEW s \in Steps PROVE RowHistory(W1, reach1, s)'
  <2>1. CASE ActionOf[s] = a
    BY <2>1 DEF StepsOf
  <2>2. CASE ActionOf[s] # a
    <3>1. s # at[a] /\ step'[s] = step[s] /\ TargetOf[s] \in Objects
      BY <1>1, <2>2, StepFacts DEF Unmoved
    <3>2. /\ s \in W1 => s \in W
          /\ s \in reach1[target'[TargetOf[s]]] => s \in reach[target[TargetOf[s]]]
      BY <3>1
    <3>3. RowHistory(W, reach, s)
      BY DEF History
    <3> QED BY <3>1, <3>2, <3>3 DEF RowHistory
  <2> QED BY <2>1, <2>2
<1>4. ASSUME NEW b \in Actions, b # a
      PROVE  CallHistory(W1, reach1, b)' /\ UndoHistory(W1, reach1, b)' /\ FailedHistory(reach1, b)'
  <2>1. CallHistory(W, reach, b) /\ UndoHistory(W, reach, b) /\ Unmoved(b)
    BY <1>4 DEF History
  <2>2. /\ at[b] \in StepsOf(b) /\ at[b] \in Steps /\ Object(b) \in Objects /\ at[b] # at[a]
        /\ Object(b)' = Object(b) /\ step'[at'[b]] = step[at[b]] /\ at'[b] = at[b]
    BY <1>1, <1>4, <2>1, StepFacts, AtType DEF TypeOK, Unmoved, Object
  <2>3. target' = target \/ ~Inside(b)
    BY <1>4 DEF WindowInv, Inside
  <2>4. CallHistory(W1, reach1, b)'
    <3>1. at[b] \in W1 => at[b] \in W
      BY <2>2
    <3>2. at[b] \in reach1[target'[Object(b)]] => at[b] \in reach[target[Object(b)]]
      BY <2>2
    <3>3. Inside(b) => target'[Object(b)] \in W /\ reach1[target'[Object(b)]] = reach[target[Object(b)]]
      BY <2>2, <2>3 DEF History, ValueHistory
    <3>4. phase[b] \in {"claim", "claim_action", "write", "record", "rerecord"} => Inside(b)
      BY DEF Inside, Working
    <3> QED BY <2>1, <2>2, <3>1, <3>2, <3>3, <3>4 DEF CallHistory, Unmoved
  <2>5. UndoHistory(W1, reach1, b)'
    <3>1. undo[b].phase \in {"reread", "mark", "inverse"} =>
            undo[b].at \in StepsOf(b) /\ undo[b].at \in Steps /\ target' = target
      BY <2>3, StepFacts DEF TypeOK, Undos, Replaying, Inside, Undoing
    <3>2. \A s \in StepsOf(b) : TargetOf[s] \in Objects /\ target[TargetOf[s]] \in W
      BY StepFacts DEF History, ValueHistory
    <3>3. ASSUME undo[b].phase = "inverse"
          PROVE  /\ step'[undo[b].at].before \in W1
                 /\ reach1[step'[undo[b].at].before] \subseteq reach1[target'[TargetOf[undo[b].at]]]
      <4>1. step'[undo[b].at] = step[undo[b].at]
        BY <2>1, <3>1, <3>3 DEF Unmoved
      <4> QED BY <2>1, <3>1, <3>2, <3>3, <4>1 DEF UndoHistory
    <3> QED BY <2>1, <3>1, <3>2, <3>3 DEF UndoHistory, Unmoved
  <2>6. FailedHistory(reach1, b)'
    <3>1. \A s \in StepsOf(b) : s # at[a] /\ TargetOf[s] \in Objects
      BY <1>1, <1>4, StepFacts
    <3>2. \A s \in StepsOf(b) :
            s \notin reach[target[TargetOf[s]]] => s \notin reach1[target'[TargetOf[s]]]
      BY <3>1
    <3>3. FailedHistory(reach, b)
      BY DEF History
    <3> QED BY <2>1, <3>2, <3>3, FailedStays DEF Unmoved
  <2> QED BY <2>4, <2>5, <2>6
<1>5. History(W1, reach1)'
  BY <1>2, <1>3, <1>4 DEF History
<1> QED BY <1>5 DEF HistoryInv

\* A step that changes nothing in the library only has to keep its own part.
LEMMA HistoryReads ==
    ASSUME TypeOK, WindowInv, NEW a \in Actions, \A b \in Actions \ {a} : Unmoved(b),
           NEW W \in SUBSET Value, NEW reach \in [W -> SUBSET W], History(W, reach),
           target' = target, edits' = edits,
           \A s \in StepsOf(a) : RowHistory(W, reach, s)',
           CallHistory(W, reach, a)', UndoHistory(W, reach, a)', FailedHistory(reach, a)'
    PROVE  HistoryInv'
<1>1. \A o \in Objects : target'[o] \in W /\ reach[target'[o]] = reach[target[o]]
  BY DEF History, ValueHistory
<1>2. \A v \in W : v \in reach[v]
  BY DEF History, ValueHistory
<1> QED BY <1>1, <1>2, HistoryOthers

\* A row that only gets another status keeps its history.
LEMMA RowHistoryStatus ==
    ASSUME NEW W, NEW reach, NEW s, RowHistory(W, reach, s), target' = target,
           step'[s].inverse => /\ step[s].inverse /\ step'[s].before = step[s].before
                               /\ step'[s].after = step[s].after
                               /\ step[s].status = "no_effect" => step'[s].status = "no_effect",
           \/ step'[s].status \notin {"absent", "prepared", "failed", "reverted"}
           \/ step'[s].status = step[s].status
           \/ step'[s].status \in {"failed", "reverted"} /\ s \notin reach[target[TargetOf[s]]]
    PROVE  RowHistory(W, reach, s)'
BY DEF RowHistory

\* A call says of its action that it failed when its steps are gone.
LEMMA FailedCallReads ==
    ASSUME TypeOK, WindowInv, FlowInv, OutcomeInv, NEW a \in Actions, FaultsHere,
           NEW W \in SUBSET Value, NEW reach \in [W -> SUBSET W], History(W, reach),
           target' = target, CallSteps(a) \/ Begin(a) \/ Resume(a)
    PROVE  FailedHistory(reach, a)'
<1> SUFFICES ASSUME "partial" \notin Faults PROVE FailedHistory(reach, a)'
  BY DEF FailedHistory
<1>1. PICK i \in StepsOf(a) : i = at[a]
  BY DEF TypeOK
<1>2. /\ CallFlow(a) /\ NoteFlow(a) /\ OutcomeFlow(a) /\ CallHistory(W, reach, a)
      /\ FailedHistory(reach, a)
      /\ \A s \in StepsOf(a) : s \in Nat /\ s \in Steps /\ step[s] \in Rows
  BY StepFacts DEF FlowInv, OutcomeInv, History, TypeOK
<1>3. \A s \in StepsOf(a) : /\ s \notin W => s \notin reach[target[TargetOf[s]]]
                            /\ step[s].status = "absent" => s \notin W
                            /\ step[s].status \in {"no_effect"} \union Changed
                               \/ step[s].status \notin Recorded
  BY <1>2, StepFacts DEF History, ValueHistory, RowHistory, Recorded, Changed
<1>4. a \in Notes => \A s \in StepsOf(a) : s = i
  BY <1>1, StepsAssumption
<1>5. Object(a) = TargetOf[i] /\ Row(a) = step[i]
  BY <1>1 DEF Object, Row
<1> USE DEF TypeOK, GoTo, SetRow
<1>6. ASSUME action[a] = "failed", action'[a] = "failed"
      PROVE  \A s \in StepsOf(a) : Gone(reach, s)'
  <2>1. CASE phase[a] = "idle"
    <3>1. step' = step
      BY <1>6, <2>1 DEF CallSteps, Begin, Resume, EnterWindow, Prepare, ClaimStep,
         ClaimAction, ClaimFails, Refuse, WriteLibrary, WriteNote, Reconcile, TryOnceMore,
         Record, RecordFails, StepFails, Finish, FinishFails, Settle
    <3> QED BY <1>2, <1>6, <3>1 DEF FailedHistory, Gone
  <2>2. CASE phase[a] # "idle"
    <3>1. a \in Notes
      BY <1>2, <1>6, <2>2 DEF OutcomeFlow, CallFlow
    <3>2. \A s \in StepsOf(a) : s \notin reach[target[TargetOf[s]]]
      BY <1>2, <1>6, <3>1 DEF FailedHistory, Gone, NoteFlow
    <3> QED BY <3>2 DEF Gone
  <2> QED BY <2>1, <2>2
<1>7. ASSUME action[a] # "failed", action'[a] = "failed"
      PROVE  Settle(a) /\ phase[a] = "settle_failed"
  <2>1. CASE Settle(a)
    BY <1>7, <2>1 DEF Settle
  <2>2. CASE Begin(a) \/ Resume(a) \/ EnterWindow(a) \/ ClaimStep(a) \/ ClaimFails(a)
    BY <1>7, <2>2 DEF Begin, Resume, EnterWindow, ClaimStep, ClaimFails
  <2>5. CASE Prepare(a)
    BY <1>7, <2>5 DEF Prepare
  <2>6. CASE ClaimAction(a)
    BY <1>7, <2>6 DEF ClaimAction
  <2>3. CASE Refuse(a) \/ WriteLibrary(a) \/ WriteNote(a) \/ Reconcile(a) \/ TryOnceMore(a)
    BY <1>7, <2>3 DEF Refuse, WriteLibrary, WriteNote, Reconcile, TryOnceMore
  <2>4. CASE \/ Record(a) \/ RecordFails(a) \/ StepFails(a) \/ Finish(a) \/ FinishFails(a)
    BY <1>7, <2>4 DEF Record, RecordFails, StepFails, Finish, FinishFails
  <2> QED BY <2>1, <2>2, <2>3, <2>4, <2>5, <2>6 DEF CallSteps
<1>8. ASSUME Settle(a), phase[a] = "settle_failed", action'[a] = "failed", action[a] # "failed"
      PROVE  \A s \in StepsOf(a) : Gone(reach, s)'
  <2>1. step' = step /\ (a \in Notes \/ ChangedSteps(a) = {})
    BY <1>8 DEF Settle
  <2>2. \A s \in StepsOf(a) : Gone(reach, s) \/ (a \notin Notes /\ s \in ChangedSteps(a))
    BY <1>2, <1>8 DEF FailedHistory, ChangedSteps
  <2>3. \A s \in StepsOf(a) : Gone(reach, s)
    BY <2>1, <2>2
  <2> QED BY <2>1, <2>3 DEF Gone
<1>9. ASSUME phase'[a] = "settle_failed"
      PROVE  \A s \in StepsOf(a) :
                 Gone(reach, s)' \/ (a \notin Notes /\ step'[s].status \in Changed)
  <2>1. CASE FinishFails(a)
    <3>1. step' = step /\ phase[a] = "finish" /\ a \notin Notes
      BY <1>9, <2>1 DEF FinishFails
    <3> QED BY <1>2, <1>3, <3>1 DEF OutcomeFlow, Gone
  <2>2. CASE Refuse(a) \/ (StepFails(a) /\ phase[a] = "failed")
    <3>1. /\ phase[a] \in {"refuse", "failed"} /\ \A s \in StepsOf(a) \ {i} : step'[s] = step[s]
      BY <1>1, <1>2, <2>2 DEF Refuse, StepFails
    <3>2. i \notin reach[target[TargetOf[i]]]
      BY <1>1, <1>2, <1>3, <1>5, <3>1 DEF CallHistory, CallFlow
    <3>3. ASSUME NEW s \in StepsOf(a), s < i
          PROVE  a \notin Notes /\ (step[s].status = "no_effect" \/ step[s].status \in Changed)
      BY <1>1, <1>2, <1>3, <1>4, <3>1, <3>3 DEF OutcomeFlow
    <3>4. ASSUME NEW s \in StepsOf(a), s > i PROVE s \notin reach[target[TargetOf[s]]]
      <4>1. ~resumed[a]
        BY <1>2, <1>4, <3>1, <3>4 DEF CallFlow
      <4> QED BY <1>1, <1>2, <1>3, <3>1, <3>4, <4>1 DEF CallFlow
    <3>5. ASSUME NEW s \in StepsOf(a)
          PROVE  Gone(reach, s)' \/ (a \notin Notes /\ step'[s].status \in Changed)
      <4>1. CASE s = i
        BY <3>2, <4>1 DEF Gone
      <4>2. CASE s < i
        <5>1. step'[s] = step[s]
          BY <1>2, <3>1, <4>2
        <5> QED BY <3>3, <4>2, <5>1 DEF Gone
      <4>3. CASE s > i
        BY <3>4, <4>3 DEF Gone
      <4> QED BY <1>2, <4>1, <4>2, <4>3
    <3> QED BY <3>5
  <2>3. Refuse(a) \/ FinishFails(a) \/ (StepFails(a) /\ phase[a] = "failed")
    <3>1. CASE Begin(a) \/ Resume(a) \/ EnterWindow(a) \/ Prepare(a) \/ ClaimStep(a)
      BY <1>9, <3>1 DEF Begin, Resume, EnterWindow, Prepare, ClaimStep
    <3>2. CASE ClaimAction(a) \/ ClaimFails(a) \/ WriteLibrary(a) \/ WriteNote(a)
      BY <1>9, <3>2 DEF ClaimAction, ClaimFails, WriteLibrary, WriteNote
    <3>3. CASE Reconcile(a) \/ TryOnceMore(a) \/ Record(a) \/ RecordFails(a)
      BY <1>9, <3>3 DEF Reconcile, TryOnceMore, Record, RecordFails
    <3>4. CASE StepFails(a) \/ Finish(a) \/ Settle(a)
      BY <1>9, <3>4 DEF StepFails, Finish, Settle
    <3> QED BY <3>1, <3>2, <3>3, <3>4 DEF CallSteps
  <2> QED BY <2>1, <2>2, <2>3
<1> QED BY <1>6, <1>7, <1>8, <1>9 DEF FailedHistory

\* The steps of a call that change nothing in the library.
LEMMA HistoryCallReads ==
    ASSUME TypeOK, WindowInv, FlowInv, FlowInv', OutcomeInv, NEW a \in Actions, FaultsHere,
           NEW W \in SUBSET Value, NEW reach \in [W -> SUBSET W], History(W, reach),
           target' = target, CallSteps(a) \/ Begin(a) \/ Resume(a)
    PROVE  HistoryInv'
<1>1. PICK i \in StepsOf(a) : i = at[a]
  BY DEF TypeOK
<1>2. /\ undo' = undo /\ undo[a].phase = "idle" /\ \A b \in Actions \ {a} : Unmoved(b)
      /\ edits' = edits
  <2>1. edits' = edits
    BY DEF CallSteps, Begin, Resume, EnterWindow, Prepare, ClaimStep,
         ClaimAction, ClaimFails, Refuse, WriteLibrary, WriteNote, Reconcile, TryOnceMore,
         Record, RecordFails, StepFails, Finish, FinishFails, Settle, bounds
  <2> QED BY <2>1, CallUndoesNothing DEF FaultsHere
<1>3. UndoHistory(W, reach, a)'
  BY <1>2 DEF UndoHistory
<1>4. /\ CallFlow(a) /\ NoteFlow(a) /\ CallFlow(a)' /\ NoteFlow(a)' /\ CallHistory(W, reach, a)
      /\ \A s \in StepsOf(a) : RowHistory(W, reach, s) /\ s \in Steps /\ step[s] \in Rows
      /\ ValueHistory(W, reach)
  BY StepFacts DEF FlowInv, History, TypeOK
<1>5. /\ TargetOf[i] \in Objects /\ Object(a) = TargetOf[i] /\ Row(a) = step[i]
      /\ target[TargetOf[i]] \in W
  BY <1>1, <1>4, StepFacts DEF Object, Row, ValueHistory
<1>6. SUFFICES CallHistory(W, reach, a)' /\ \A s \in StepsOf(a) : RowHistory(W, reach, s)'
  BY <1>2, <1>3, FailedCallReads, HistoryReads
<1> USE <1>1, <1>4, <1>5 DEF TypeOK, GoTo, SetRow
<1>7. ASSUME step' = step PROVE \A s \in StepsOf(a) : RowHistory(W, reach, s)'
  BY <1>7, RowHistoryStatus
<1>8. ASSUME phase'[a] \notin {"claim", "claim_action", "refuse", "write", "clean", "failed",
                               "record", "rerecord"}
      PROVE  CallHistory(W, reach, a)'
  BY <1>8 DEF CallHistory
<1>9. CASE Begin(a) \/ Resume(a) \/ RecordFails(a) \/ Finish(a) \/ FinishFails(a) \/ Settle(a)
  BY <1>7, <1>8, <1>9 DEF Begin, Resume, RecordFails, Finish, FinishFails, Settle
<1>10. CASE EnterWindow(a)
  BY <1>7, <1>10 DEF EnterWindow, CallHistory
<1>11. CASE ClaimAction(a) \/ ClaimFails(a)
  <2>1. /\ step' = step /\ at' = at /\ resumed' = resumed
        /\ phase[a] \in {"prepare", "claim", "claim_action"} /\ phase'[a] \in {"write", "refuse"}
        /\ phase'[a] = "write" => phase[a] = "claim_action"
    BY <1>11 DEF ClaimAction, ClaimFails
  <2>2. resumed[a] => phase'[a] = "write"
    BY <2>1 DEF CallFlow
  <2>3. phase[a] = "prepare" => i \notin W
    BY <2>1 DEF CallFlow, RowHistory
  <2>4. CallHistory(W, reach, a)'
    BY <2>1, <2>2, <2>3 DEF CallHistory, Object
  <2> QED BY <1>7, <2>1, <2>4
<1>12. CASE Reconcile(a)
  <2>1. /\ step' = step /\ at' = at /\ resumed' = resumed /\ phase[a] = "reconcile"
        /\ \/ /\ phase'[a] = "rerecord" /\ target[TargetOf[i]] = i
              /\ out'[a] = IF a \in Notes THEN "applied" ELSE "none"
           \/ phase'[a] = "clean" /\ a \in Notes /\ target[TargetOf[i]] = step[i].before
           \/ phase'[a] = "uncertain"
    BY <1>12 DEF Reconcile, Unwritten
  <2>2. a \in Notes => /\ step[i].before \in W /\ i \notin reach[step[i].before]
                       /\ i \in W => reach[i] = {i} \union reach[step[i].before]
    BY <2>1 DEF NoteFlow, Claimed, RowHistory
  <2>3. CallHistory(W, reach, a)'
    BY <2>1, <2>2 DEF CallHistory, Object
  <2> QED BY <1>7, <2>1, <2>3
<1>13. CASE Prepare(a)
  <2>1. PICK inverse \in BOOLEAN : step' = [step EXCEPT ![i] =
                    [status |-> "prepared", inverse |-> inverse,
                     before |-> target[Object(a)], after |-> NoImage]]
    BY <1>13 DEF Prepare
  <2>2. /\ phase[a] = "prepare" /\ phase'[a] = "claim" /\ at' = at /\ resumed' = resumed
    BY <1>13 DEF Prepare
  <2>3. ~resumed[a] /\ i \notin W
    BY <2>2 DEF CallFlow, RowHistory
  <2>4. /\ step'[i].status = "prepared" /\ step'[i].before = target[TargetOf[i]]
        /\ step'[i].after = NoImage /\ \A s \in StepsOf(a) \ {i} : step'[s] = step[s]
    BY <2>1
  <2>5. RowHistory(W, reach, i)'
    BY <2>3, <2>4 DEF RowHistory
  <2>6. \A s \in StepsOf(a) \ {i} : RowHistory(W, reach, s)'
    BY <2>4, RowHistoryStatus
  <2>7. CallHistory(W, reach, a)'
    BY <2>2, <2>3, <2>4 DEF CallHistory, Object
  <2> QED BY <2>5, <2>6, <2>7
<1>14. CASE ClaimStep(a)
  <2>1. /\ phase[a] = "claim" /\ at' = at /\ resumed' = resumed
        /\ \A s \in StepsOf(a) \ {i} : step'[s] = step[s]
        /\ step'[i].before = step[i].before /\ step'[i].after = step[i].after
        /\ step'[i].inverse = step[i].inverse
        /\ \/ step' = step /\ phase'[a] = "refuse"
           \/ /\ step'[i].status = "applying" /\ phase'[a] = "claim_action"
              /\ step[i].status = "prepared" \/ resumed[a]
    BY <1>14 DEF ClaimStep, Rows
  <2>2. resumed[a] => phase'[a] # "refuse" /\ step[i].status # "no_effect"
    BY <2>1 DEF CallFlow, NoteFlow
  <2>3. RowHistory(W, reach, i)'
    BY <2>1, <2>2, RowHistoryStatus
  <2>4. \A s \in StepsOf(a) \ {i} : RowHistory(W, reach, s)'
    BY <2>1, RowHistoryStatus
  <2>5. CallHistory(W, reach, a)'
    BY <2>1, <2>2 DEF CallHistory, Object
  <2> QED BY <2>3, <2>4, <2>5
<1>15. CASE Refuse(a) \/ StepFails(a)
  <2>1. /\ \A s \in StepsOf(a) \ {i} : step'[s] = step[s]
        /\ step'[i].before = step[i].before /\ step'[i].after = step[i].after
        /\ step'[i].inverse = step[i].inverse
        /\ phase[a] \in {"refuse", "uncertain", "failed"}
        /\ phase'[a] \in {"settle_failed", "settle_uncertain"}
        /\ \/ step'[i].status = step[i].status
           \/ step'[i].status = "uncertain" /\ phase[a] = "uncertain"
           \/ step'[i].status = "failed" /\ phase[a] \in {"refuse", "failed"}
    BY <1>15 DEF Refuse, StepFails, Rows
  <2>2. phase[a] \in {"refuse", "failed"} => i \notin reach[target[TargetOf[i]]]
    BY <2>1 DEF CallHistory, CallFlow
  <2>3. step[i].status # "no_effect"
    BY <2>1 DEF CallFlow, Claimed
  <2>4. RowHistory(W, reach, i)'
    BY <2>1, <2>2, <2>3, RowHistoryStatus
  <2>5. \A s \in StepsOf(a) \ {i} : RowHistory(W, reach, s)'
    BY <2>1, RowHistoryStatus
  <2> QED BY <1>8, <2>1, <2>4, <2>5
<1>16. CASE Record(a)
  <2>1. /\ \A s \in StepsOf(a) \ {i} : step'[s] = step[s]
        /\ step'[i].before = step[i].before /\ step'[i].after = target[TargetOf[i]]
        /\ step'[i].inverse = step[i].inverse /\ step'[i].status = Outcome(a)
        /\ phase[a] \in {"record", "rerecord"} /\ phase'[a] \in {"finish", "enter"}
    BY <1>16 DEF Record, Rows
  <2>2. /\ Outcome(a) \notin {"absent", "prepared", "failed", "reverted"}
        /\ out[a] = "none" => Outcome(a) = "no_effect"
    BY DEF Outcome
  <2>3. out[a] # "none" => /\ step[i].before \in W
                           /\ reach[step[i].before] \subseteq reach[target[TargetOf[i]]]
    BY <2>1 DEF CallHistory
  <2>4. RowHistory(W, reach, i)'
    BY <2>1, <2>2, <2>3 DEF RowHistory
  <2>5. \A s \in StepsOf(a) \ {i} : RowHistory(W, reach, s)'
    BY <2>1, RowHistoryStatus
  <2> QED BY <1>8, <2>1, <2>4, <2>5
<1>17. CASE WriteLibrary(a) \/ WriteNote(a) \/ TryOnceMore(a)
  <2>1. /\ step' = step /\ at' = at /\ resumed' = resumed
        /\ phase[a] \in {"write", "clean"}
    BY <1>17 DEF WriteLibrary, WriteNote, TryOnceMore
  <2>2. a \in Notes => /\ step[i].before \in W /\ i \notin reach[step[i].before]
                       /\ i \in W => reach[i] = {i} \union reach[step[i].before]
    BY <2>1 DEF NoteFlow, Claimed, RowHistory
  <2>3. CASE WriteLibrary(a)
    <3>1. i \notin W /\ a \notin Notes
      BY <2>3 DEF WriteLibrary, CallHistory, CallFlow
    <3>2. phase'[a] \in {"record", "reconcile"} /\ (phase'[a] = "record" => out'[a] = "none")
      <4>1. target[TargetOf[i]] # i
        BY <3>1
      <4>2. target' # [target EXCEPT ![Object(a)] = at[a]]
        BY <4>1
      <4> QED BY <2>3, <4>2 DEF WriteLibrary
    <3> QED BY <1>7, <2>1, <3>2 DEF CallHistory
  <2>4. CASE WriteNote(a)
    <3>1. \/ phase'[a] = "reconcile"
          \/ phase'[a] = "record" /\ target[TargetOf[i]] = i /\ a \in Notes
          \/ phase'[a] = "clean" /\ target[TargetOf[i]] = step[i].before /\ a \in Notes
          \/ phase'[a] = "uncertain"
      BY <2>4 DEF WriteNote
    <3> QED BY <1>7, <2>1, <2>2, <3>1 DEF CallHistory, Object
  <2>5. CASE TryOnceMore(a)
    <3>1. \/ phase'[a] \in {"uncertain", "failed"}
          \/ phase'[a] = "rerecord" /\ target[TargetOf[i]] = i /\ a \in Notes
      BY <2>5 DEF TryOnceMore, Unwritten
    <3>2. phase[a] = "clean"
      BY <2>5 DEF TryOnceMore
    <3> QED BY <1>7, <2>1, <2>2, <3>1, <3>2 DEF CallHistory, Object
  <2> QED BY <1>17, <2>3, <2>4, <2>5
<1> QED BY <1>9, <1>10, <1>11, <1>12, <1>13, <1>14, <1>15, <1>16, <1>17 DEF CallSteps

\* A call that writes its step's value makes it lead back to the pre-image.
LEMMA HistoryCallWrites ==
    ASSUME TypeOK, WindowInv, FlowInv, OutcomeInv, NEW a \in Actions, FaultsHere,
           NEW W \in SUBSET Value, NEW reach \in [W -> SUBSET W], History(W, reach),
           target' = [target EXCEPT ![Object(a)] = at[a]],
           WriteLibrary(a) \/ WriteNote(a) \/ TryOnceMore(a)
    PROVE  HistoryInv'
<1>1. PICK i \in StepsOf(a) : i = at[a]
  BY DEF TypeOK
<1>2. undo' = undo /\ undo[a].phase = "idle" /\ \A b \in Actions \ {a} : Unmoved(b)
  BY CallUndoesNothing DEF FaultsHere, CallSteps
<1>3. /\ CallFlow(a) /\ NoteFlow(a) /\ CallHistory(W, reach, a)
      /\ \A s \in StepsOf(a) : RowHistory(W, reach, s) /\ s \in Steps
      /\ ValueHistory(W, reach)
  BY StepFacts DEF FlowInv, History
<1>4. /\ TargetOf[i] \in Objects /\ Object(a) = TargetOf[i] /\ Row(a) = step[i]
      /\ target[TargetOf[i]] \in W
  BY <1>1, <1>3, StepFacts DEF Object, Row, ValueHistory
<1>5. /\ step' = step /\ at' = at /\ resumed' = resumed /\ edits' = edits
      /\ phase[a] \in {"write", "clean"} /\ Inside(a)
      /\ phase'[a] \in {"record", "rerecord", "reconcile", "uncertain", "failed", "clean"}
      /\ phase'[a] \in {"failed", "clean"} => target' = target
  <2>1. CASE WriteLibrary(a)
    BY <2>1 DEF WriteLibrary, bounds, Inside, Working, TypeOK, GoTo
  <2>2. CASE WriteNote(a)
    BY <2>2 DEF WriteNote, bounds, Inside, Working, TypeOK, GoTo
  <2>3. CASE TryOnceMore(a)
    BY <2>3 DEF TryOnceMore, bounds, Inside, Working, TypeOK, GoTo
  <2> QED BY <2>1, <2>2, <2>3
<1>6. step[i].status = "applying"
  BY <1>1, <1>3, <1>5 DEF CallFlow, Claimed
<1>7. \/ i \notin W /\ a \notin Notes
      \/ a \in Notes /\ target[TargetOf[i]] \in {i, step[i].before}
  <2>1. CASE WriteLibrary(a)
    BY <1>1, <1>3, <2>1 DEF WriteLibrary, CallHistory, CallFlow
  <2>2. CASE WriteNote(a)
    <3>1. target' # target => target[TargetOf[i]] \in {i, step[i].before}
      BY <1>1, <1>4, <2>2 DEF WriteNote
    <3>2. target' = target => target[TargetOf[i]] = i
      BY <1>1, <1>4 DEF TypeOK
    <3> QED BY <2>2, <3>1, <3>2 DEF WriteNote
  <2>3. CASE TryOnceMore(a)
    <3>1. phase[a] = "clean" /\ i \notin reach[target[TargetOf[i]]]
      BY <1>1, <1>3, <1>4, <2>3 DEF TryOnceMore, CallHistory
    <3>2. target[TargetOf[i]] # i
      BY <1>3, <1>4, <3>1 DEF ValueHistory
    <3>3. target' # target
      BY <1>1, <1>4, <3>2 DEF TypeOK
    <3>4. Unwritten(a)
      BY <2>3, <3>3 DEF TryOnceMore
    <3> QED BY <1>1, <1>4, <3>4 DEF Unwritten
  <2> QED BY <2>1, <2>2, <2>3
<1>8. /\ step[i].before \in W /\ reach[step[i].before] \subseteq reach[target[TargetOf[i]]]
      /\ i \in W => reach[i] = {i} \union reach[step[i].before]
  <2>1. CASE i \notin W /\ a \notin Notes
    <3>1. WriteLibrary(a) \/ TryOnceMore(a)
      BY <2>1 DEF WriteNote
    <3>2. phase[a] = "write" /\ ~resumed[a]
      <4>1. CASE WriteLibrary(a)
        BY <1>3, <2>1, <4>1 DEF WriteLibrary, CallFlow
      <4>2. CASE TryOnceMore(a)
        <5>1. target' = target
          BY <2>1, <4>2 DEF TryOnceMore, Unwritten
        <5>2. target[TargetOf[i]] = i
          BY <1>1, <1>4, <5>1 DEF TypeOK
        <5>3. i \in W
          BY <1>4, <5>2
        <5> QED BY <2>1, <5>3
      <4> QED BY <3>1, <4>1, <4>2
    <3> QED BY <1>1, <1>3, <1>4, <2>1, <3>2 DEF CallHistory
  <2>2. CASE a \in Notes /\ target[TargetOf[i]] \in {i, step[i].before}
    <3>1. step[i].inverse
      BY <1>1, <1>3, <1>5, <2>2 DEF NoteFlow, Claimed
    <3> QED BY <1>3, <1>4, <2>2, <3>1 DEF RowHistory
  <2> QED BY <1>7, <2>1, <2>2
<1>9. PICK W1 \in SUBSET Value : W1 = W \union {i}
  BY <1>3, Values
<1>10. PICK reach1 \in [W1 -> SUBSET W1] :
         /\ \A v \in W : reach1[v] = reach[v]
         /\ reach1[i] = {i} \union reach[step[i].before]
  <2> DEFINE r == [v \in W1 |-> IF v \in W THEN reach[v] ELSE {i} \union reach[step[i].before]]
  <2>1. r \in [W1 -> SUBSET W1]
    BY <1>8, <1>9
  <2>2. (\A v \in W : r[v] = reach[v]) /\ r[i] = {i} \union reach[step[i].before]
    BY <1>8, <1>9
  <2> QED BY <2>1, <2>2
<1>11. /\ target'[TargetOf[i]] = i
       /\ \A o \in Objects \ {TargetOf[i]} : target'[o] = target[o]
  BY <1>1, <1>4 DEF TypeOK
<1>12. \A o \in Objects : /\ target'[o] \in W1
                          /\ reach1[target'[o]] \subseteq reach[target[o]] \union {i}
  BY <1>3, <1>8, <1>9, <1>10, <1>11 DEF ValueHistory
<1>13. \A v \in W1 : v \in reach1[v]
  BY <1>3, <1>9, <1>10 DEF ValueHistory
<1>14. ASSUME NEW s \in StepsOf(a) PROVE RowHistory(W1, reach1, s)'
  <2>1. /\ s \in Steps /\ TargetOf[s] \in Objects /\ RowHistory(W, reach, s)
        /\ step'[s] = step[s]
    BY <1>3, <1>5, StepFacts
  <2>2. CASE s # i
    BY <1>9, <1>10, <1>12, <2>1, <2>2 DEF RowHistory
  <2>3. CASE s = i
    BY <1>6, <1>8, <1>9, <1>10, <2>1, <2>3 DEF RowHistory
  <2> QED BY <2>2, <2>3
<1>15. CallHistory(W1, reach1, a)'
  <2>1. Object(a)' = TargetOf[i] /\ at'[a] = i /\ step'[i] = step[i]
    BY <1>1, <1>5 DEF Object
  <2>2. phase'[a] \notin {"failed", "clean"}
    <3>1. target[TargetOf[i]] = i => phase[a] # "clean" /\ a \in Notes
      <4>1. target[TargetOf[i]] = i => i \in W /\ i \in reach[i]
        BY <1>4, <1>3 DEF ValueHistory
      <4> QED BY <1>1, <1>3, <1>4, <1>7, <4>1 DEF CallHistory
    <3>2. target' = target => target[TargetOf[i]] = i
      BY <1>1, <1>4 DEF TypeOK
    <3>3. CASE WriteNote(a) /\ target[TargetOf[i]] = i
      <4>1. step[i].before # i
        <5>1. step[i].inverse
          BY <1>1, <1>3, <1>5, <3>3 DEF NoteFlow, Claimed, WriteNote
        <5>2. step[i].before \in W /\ i \notin reach[step[i].before]
          BY <1>3, <5>1 DEF RowHistory
        <5> QED BY <1>3, <5>2 DEF ValueHistory
      <4>2. target[Object(a)] = i /\ Row(a).before # i
        BY <1>4, <3>3, <4>1
      <4> QED BY <1>1, <3>3, <4>2 DEF WriteNote, TypeOK, GoTo
    <3>4. ~TryOnceMore(a) \/ target' # target
      BY <3>1, <3>2 DEF TryOnceMore
    <3>5. ~WriteLibrary(a) \/ target' # target
      BY <3>1, <3>2 DEF WriteLibrary
    <3> QED BY <1>5, <3>2, <3>3, <3>4, <3>5
  <2> QED BY <1>5, <1>8, <1>9, <1>10, <1>11, <2>1, <2>2 DEF CallHistory
<1>16. UndoHistory(W1, reach1, a)'
  BY <1>2 DEF UndoHistory
<1>17. FailedHistory(reach1, a)'
  <2>1. WriteLibrary(a) \/ WriteNote(a) \/ TryOnceMore(a) => action' = action
    BY DEF WriteLibrary, WriteNote, TryOnceMore
  <2>2. "partial" \notin Faults => action'[a] # "failed"
    BY <1>5, <2>1 DEF OutcomeInv, OutcomeFlow, Claimed
  <2> QED BY <1>5, <2>2 DEF FailedHistory
<1>18. W \subseteq W1 /\ W1 \subseteq W \union {at[a]}
  BY <1>1, <1>9
<1>19. /\ \A v \in W : reach1[v] = reach[v]
       /\ \A o \in Objects : /\ target'[o] \in W1
                             /\ reach1[target'[o]] \subseteq reach[target[o]] \union {at[a]}
  BY <1>1, <1>10, <1>12
<1>20. /\ \A b \in Actions \ {a} : Unmoved(b)
       /\ Inside(a) /\ edits' = edits
  BY <1>2, <1>5
<1> QED BY <1>13, <1>14, <1>15, <1>16, <1>17, <1>18, <1>19, <1>20, HistoryOthers

\* An undo that looks at its step, runs its inverse or looks at what that left
\* goes on with the step; the others are not about to touch the library.
LEMMA UndoLooks ==
    ASSUME TypeOK, NEW a \in Actions, UndoSteps(a) \/ RequestUndo(a)
    PROVE  /\ edits' = edits
           /\ ~RunInverse(a) => target' = target
           /\ Recheck(a) \/ RunInverse(a) \/ Reread(a) =>
                /\ undo[a].phase \in Replaying /\ step' = step
                /\ undo'[a].at = undo[a].at
           /\ ~(Recheck(a) \/ RunInverse(a) \/ Reread(a)) =>
                undo'[a].phase \notin {"inverse", "reread", "mark"}
<1>1. edits' = edits /\ (~RunInverse(a) => target' = target)
  BY DEF UndoSteps, RequestUndo, ClaimUndo, ClaimUndoFails, UndoEnters, PickStep,
         ClaimStepUndo, Recheck, RunInverse, Reread, MarkReverted, UndoStepFails,
         GiveUpStep, FinishUndo, FinishUndoFails, bounds
<1>2. ASSUME NEW u, SetUndo(a, u) PROVE undo'[a] = u
  BY <1>2 DEF TypeOK, SetUndo
<1>3. undo[a] \in Undos(a)
  BY DEF TypeOK
<1>4. ASSUME NEW p, UndoAt(a, p) PROVE undo'[a].phase = p /\ undo'[a].at = undo[a].at
  <2>1. undo'[a] = [undo[a] EXCEPT !.phase = p]
    BY <1>2, <1>4 DEF UndoAt
  <2> QED BY <1>3, <2>1 DEF Undos
<1>5. ASSUME NEW s, NEW f \in BOOLEAN, SetUndo(a, Done(a, s, f)) PROVE undo'[a].phase = "steps"
  <2>1. undo'[a] = Done(a, s, f)
    BY <1>2, <1>5
  <2> QED BY <1>3, <2>1 DEF Done, Undos
<1>6. Recheck(a) \/ RunInverse(a) \/ Reread(a) =>
        undo[a].phase \in Replaying /\ step' = step /\ undo'[a].at = undo[a].at
  BY <1>4 DEF Recheck, RunInverse, Reread, Replaying
<1>7. RequestUndo(a) \/ ClaimUndo(a) \/ ClaimUndoFails(a) \/ FinishUndo(a) \/ FinishUndoFails(a)
        => undo'[a].phase \in {"idle", "claim_action", "enter"}
  BY <1>2, <1>4 DEF RequestUndo, ClaimUndo, ClaimUndoFails, FinishUndo, FinishUndoFails, NoUndo
<1>8. UndoEnters(a) \/ ClaimStepUndo(a) \/ UndoStepFails(a)
        => undo'[a].phase \in {"steps", "recheck", "give_up"}
  BY <1>4 DEF UndoEnters, ClaimStepUndo, UndoStepFails
<1>9. MarkReverted(a) \/ GiveUpStep(a) => undo'[a].phase = "steps"
  BY <1>5 DEF MarkReverted, GiveUpStep
<1>10. PickStep(a) => undo'[a].phase \in {"steps", "claim"}
  <2> SUFFICES ASSUME PickStep(a) PROVE undo'[a].phase \in {"steps", "claim"}
    OBVIOUS
  <2>1. PICK s \in Last(a) : \/ SetUndo(a, Done(a, s, FALSE)) \/ SetUndo(a, Done(a, s, TRUE))
                             \/ SetUndo(a, [undo[a] EXCEPT !.phase = "claim", !.at = s])
    BY DEF PickStep
  <2>2. CASE SetUndo(a, [undo[a] EXCEPT !.phase = "claim", !.at = s])
    BY <1>2, <1>3, <2>2 DEF Undos
  <2> QED BY <1>5, <2>1, <2>2
<1> QED BY <1>1, <1>6, <1>7, <1>8, <1>9, <1>10 DEF UndoSteps

\* The rows of an action that is being undone keep their history: a step is
\* marked reverted where its pre-image was seen in its place.
LEMMA HistoryUndoRows ==
    ASSUME TypeOK, WindowInv, FlowInv, NEW a \in Actions, NEW W, NEW reach,
           History(W, reach), target' = target, UndoSteps(a) \/ RequestUndo(a)
    PROVE  \A s \in StepsOf(a) : RowHistory(W, reach, s)'
<1>1. \A s \in StepsOf(a) : /\ RowHistory(W, reach, s) /\ s \in Steps /\ step[s] \in Rows
                            /\ ActionOf[s] = a
  BY StepFacts DEF History, TypeOK
<1>2. CASE step' = step
  BY <1>1, <1>2, RowHistoryStatus
<1>3. ASSUME NEW status \in {"reverting", "reverted", "revert_failed"}, Reverts(a, status),
             status = "reverted" => undo[a].phase = "mark"
      PROVE  \A s \in StepsOf(a) : RowHistory(W, reach, s)'
  <2>1. PICK i \in StepsOf(a) : i = undo[a].at
    BY <1>3, RevertedRow
  <2>2. /\ \A s \in StepsOf(a) : /\ step'[s].before = step[s].before /\ step'[s].after = step[s].after
                                 /\ step'[s].inverse = step[s].inverse
                                 /\ s # i => step'[s].status = step[s].status
        /\ step'[i].status = status
    BY <1>3, <2>1, RevertedRow
  <2>3. step[i].status # "no_effect"
    <3>1. RowFlow(a, i) /\ Seen(a, i).status \notin Passed
      BY <1>3, <2>1 DEF Reverts, FlowInv, UndoFlow, Replaying
    <3> QED BY <3>1 DEF RowFlow, Passed
  <2>4. status = "reverted" => i \notin reach[target[TargetOf[i]]]
    BY <1>3, <2>1 DEF History, UndoHistory
  <2>5. RowHistory(W, reach, i)'
    BY <1>1, <2>2, <2>3, <2>4, RowHistoryStatus
  <2>6. \A s \in StepsOf(a) \ {i} : RowHistory(W, reach, s)'
    BY <1>1, <2>2, RowHistoryStatus
  <2> QED BY <2>5, <2>6
<1>4. CASE step' = [s \in Steps |-> IF ActionOf[s] = a THEN Erased(step[s]) ELSE step[s]]
  <2>1. \A s \in StepsOf(a) : step'[s].status = step[s].status /\ ~step'[s].inverse
    BY <1>1, <1>4, ErasedRow
  <2> QED BY <1>1, <2>1, RowHistoryStatus
<1>5. CASE MarkReverted(a)
  <2>1. Reverts(a, "reverted") /\ undo[a].phase = "mark"
    BY <1>5 DEF MarkReverted, Reverts, Replaying
  <2> QED BY <1>3, <2>1
<1>6. CASE GiveUpStep(a) \/ ClaimStepUndo(a)
  <2>1. step' = step \/ Reverts(a, "revert_failed") \/ Reverts(a, "reverting")
    BY <1>6 DEF GiveUpStep, ClaimStepUndo, Reverts, Replaying
  <2> QED BY <1>2, <1>3, <2>1
<1>7. CASE FinishUndo(a)
  BY <1>2, <1>4, <1>7 DEF FinishUndo
<1>8. CASE \/ RequestUndo(a) \/ ClaimUndo(a) \/ ClaimUndoFails(a) \/ UndoEnters(a) \/ PickStep(a)
           \/ Recheck(a) \/ RunInverse(a) \/ Reread(a) \/ UndoStepFails(a) \/ FinishUndoFails(a)
  BY <1>2, <1>8 DEF RequestUndo, ClaimUndo, ClaimUndoFails, UndoEnters, PickStep, Recheck,
         RunInverse, Reread, UndoStepFails, FinishUndoFails
<1> QED BY <1>5, <1>6, <1>7, <1>8 DEF UndoSteps

\* An undo looks at its step, runs its inverse and looks again without losing
\* sight of what the step leads back to.
LEMMA HistoryUndo ==
    ASSUME TypeOK, WindowInv, FlowInv, NEW a \in Actions, FaultsHere,
           NEW W \in SUBSET Value, NEW reach \in [W -> SUBSET W], History(W, reach),
           UndoSteps(a) \/ RequestUndo(a)
    PROVE  HistoryInv'
<1>1. /\ phase'[a] = "idle" /\ \A b \in Actions \ {a} : Unmoved(b)
      /\ edits' = edits
  BY UndoMovesOnly, UndoLooks DEF FaultsHere
<1>2. CallHistory(W, reach, a)' /\ FailedHistory(reach, a)'
  <2>1. action'[a] = "failed" => step' = step /\ target' = target /\ action[a] = "failed"
    <3>1. undo[a].phase \notin {"idle", "claim_action"} => action[a] = "reverting"
      BY DEF FlowInv, UndoFlow
    <3>2. undo[a].phase \notin {"idle", "claim_action"} =>
            action'[a] \in {"reverting", "reverted", "revert_failed"}
      BY <3>1, UndoForms DEF TypeOK, Starts, Moves, Closes, Reverts, RequestUndo, PickStep
    <3>3. undo[a].phase \in {"idle", "claim_action"} => ~RunInverse(a)
      BY DEF RunInverse
    <3>4. undo[a].phase \in {"idle", "claim_action"} =>
            step' = step /\ action'[a] \in {action[a], "reverting", "revert_failed"}
      BY UndoForms DEF TypeOK, Starts, Moves, Closes, Reverts, RequestUndo, PickStep, Replaying
    <3> QED BY <3>2, <3>3, <3>4, UndoLooks
  <2>2. FailedHistory(reach, a)
    BY DEF History
  <2> QED BY <1>1, <2>1, <2>2 DEF CallHistory, FailedHistory, Gone
<1>3. ASSUME NEW i, i = undo[a].at, undo[a].phase \in Replaying
      PROVE  /\ i \in StepsOf(a) /\ RowHistory(W, reach, i) /\ TargetOf[i] \in Objects
             /\ step[i].inverse /\ step[i].status # "no_effect"
             /\ Seen(a, i).before = step[i].before /\ Seen(a, i).after = step[i].after
             /\ target[TargetOf[i]] \in W /\ NoImage \notin W
  <2>1. i \in StepsOf(a) /\ i \in Steps /\ TargetOf[i] \in Objects
    BY <1>3, StepFacts DEF TypeOK, Undos
  <2>2. RowFlow(a, i) /\ Seen(a, i).inverse /\ Seen(a, i).status \notin Passed
    BY <1>3, <2>1 DEF FlowInv, UndoFlow, Replaying
  <2>3. step[i].inverse /\ step[i].status # "no_effect"
    BY <2>2 DEF RowFlow, Passed
  <2>4. NoImage \notin W
    BY StepFacts, Values DEF Value, NoImage, Original
  <2> QED BY <2>1, <2>2, <2>3, <2>4 DEF RowFlow, History, ValueHistory
<1>4. CASE ~(Recheck(a) \/ RunInverse(a) \/ Reread(a))
  <2>1. target' = target /\ undo'[a].phase \notin {"inverse", "reread", "mark"}
    BY <1>4, UndoLooks
  <2>2. UndoHistory(W, reach, a)'
    BY <2>1 DEF UndoHistory
  <2> QED BY <1>1, <1>2, <2>1, <2>2, HistoryUndoRows, HistoryReads
<1>5. CASE Recheck(a) \/ RunInverse(a) \/ Reread(a)
  <2>1. PICK i : i = undo[a].at
    OBVIOUS
  <2>2. undo[a].phase \in Replaying /\ step' = step /\ undo'[a].at = i
    BY <1>5, <2>1, UndoLooks
  <2>3. /\ i \in StepsOf(a) /\ RowHistory(W, reach, i) /\ TargetOf[i] \in Objects
        /\ step[i].inverse /\ step[i].status # "no_effect"
        /\ Seen(a, i).before = step[i].before /\ Seen(a, i).after = step[i].after
        /\ target[TargetOf[i]] \in W /\ NoImage \notin W
    BY <1>3, <2>1, <2>2
  <2>4. \A p : UndoAt(a, p) => undo'[a].phase = p
    BY DEF UndoAt, SetUndo, TypeOK, Undos
  <2>5. CASE target' = target
    <3>1. \/ undo'[a].phase = "give_up"
          \/ undo'[a].phase = "mark" /\ target[TargetOf[i]] = step[i].before
          \/ undo'[a].phase = "inverse" /\ target[TargetOf[i]] = step[i].after
          \/ undo'[a].phase = "reread" /\ target[TargetOf[i]] = step[i].before
      <4>1. CASE Recheck(a)
        BY <2>1, <2>3, <2>4, <4>1 DEF Recheck, Restored, Intact
      <4>2. CASE Reread(a)
        BY <2>1, <2>3, <2>4, <4>2 DEF Reread
      <4>3. CASE RunInverse(a)
        <5>1. \/ UndoAt(a, "give_up")
              \/ /\ UndoAt(a, "reread")
                 /\ target' = [target EXCEPT ![TargetOf[i]] = step[i].before]
          BY <2>1, <2>3, <4>3 DEF RunInverse
        <5> QED BY <2>3, <2>4, <2>5, <5>1 DEF TypeOK
      <4> QED BY <1>5, <4>1, <4>2, <4>3
    <3>2. UndoHistory(W, reach, a)'
      BY <2>2, <2>3, <2>5, <3>1 DEF UndoHistory, RowHistory
    <3> QED BY <1>1, <1>2, <2>5, <3>2, HistoryUndoRows, HistoryReads
  <2>6. CASE target' # target
    <3>1. /\ undo[a].phase = "inverse" /\ undo'[a].phase = "reread"
          /\ target' = [target EXCEPT ![TargetOf[i]] = step[i].before]
      BY <1>5, <2>1, <2>3, <2>4, <2>6 DEF Recheck, RunInverse, Reread
    <3>2. step[i].before \in W /\ reach[step[i].before] \subseteq reach[target[TargetOf[i]]]
      BY <2>1, <3>1 DEF History, UndoHistory
    <3>3. \A o \in Objects : /\ target'[o] \in W
                             /\ reach[target'[o]] \subseteq reach[target[o]] \union {at[a]}
      BY <3>1, <3>2 DEF History, ValueHistory, TypeOK
    <3>4. target'[TargetOf[i]] = step[i].before
      BY <2>3, <3>1 DEF TypeOK
    <3>5. \A s \in StepsOf(a) : RowHistory(W, reach, s)'
      <4> SUFFICES ASSUME NEW s \in StepsOf(a) PROVE RowHistory(W, reach, s)'
        OBVIOUS
      <4>1. RowHistory(W, reach, s) /\ TargetOf[s] \in Objects
        BY StepFacts DEF History
      <4>2. s \notin reach[target[TargetOf[s]]] => s \notin reach[target'[TargetOf[s]]]
        BY <3>1, <3>2, <4>1 DEF TypeOK
      <4> QED BY <2>2, <4>1, <4>2 DEF RowHistory
    <3>6. UndoHistory(W, reach, a)'
      BY <2>2, <2>3, <3>1, <3>4 DEF UndoHistory, RowHistory
    <3>7. Inside(a)
      BY <3>1 DEF Inside, Undoing
    <3>8. \A v \in W : v \in reach[v]
      BY DEF History, ValueHistory
    <3> QED BY <1>1, <1>2, <3>3, <3>5, <3>6, <3>7, <3>8, HistoryOthers
  <2> QED BY <2>5, <2>6
<1> QED BY <1>4, <1>5

\* A restart changes no value; what it calls failed has never been there.
LEMMA HistoryRestart ==
    ASSUME TypeOK, OutcomeInv, NEW W \in SUBSET Value, NEW reach \in [W -> SUBSET W], History(W, reach),
           Restart
    PROVE  HistoryInv'
<1>1. target' = target /\ edits' = edits
  BY DEF Restart
<1>2. ValueHistory(W, reach)'
  BY <1>1 DEF History, ValueHistory
<1>3. ASSUME NEW a \in Actions PROVE CallHistory(W, reach, a)' /\ UndoHistory(W, reach, a)'
  BY DEF Restart, CallHistory, UndoHistory, NoUndo
<1>4. ASSUME NEW s \in Steps PROVE RowHistory(W, reach, s)'
  <2>1. /\ RowHistory(W, reach, s) /\ step[s] \in Rows /\ TargetOf[s] \in Objects
        /\ target[TargetOf[s]] \in W
    BY StepFacts DEF History, ValueHistory, TypeOK
  <2>5. /\ step'[s].status = RecoveredStep(step[s].status)
        /\ step'[s].inverse => /\ step[s].inverse /\ step'[s].before = step[s].before
                               /\ step'[s].after = step[s].after
    BY <2>1, RestartedRow
  <2>6. \/ step'[s].status \notin {"absent", "prepared", "failed", "reverted"}
        \/ step'[s].status = step[s].status
        \/ step'[s].status = "failed" /\ step[s].status = "prepared"
    BY <2>5 DEF RecoveredStep
  <2>7. step[s].status = "prepared" => s \notin reach[target[TargetOf[s]]]
    BY <2>1 DEF RowHistory
  <2>8. step[s].status = "no_effect" => step'[s].status = "no_effect"
    BY <2>5 DEF RecoveredStep
  <2> QED BY <1>1, <2>1, <2>5, <2>6, <2>7, <2>8, RowHistoryStatus
<1>5. ASSUME NEW a \in Actions PROVE FailedHistory(reach, a)'
  <2> SUFFICES ASSUME "partial" \notin Faults, RecoveredAction(a) = "failed", NEW s \in StepsOf(a)
               PROVE  Gone(reach, s)'
    BY DEF FailedHistory, Restart
  <2>1. /\ step[s] \in Rows /\ step[s].status \in StepStatus /\ RowHistory(W, reach, s)
        /\ target[TargetOf[s]] \in W /\ FailedHistory(reach, a) /\ OutcomeFlow(a)
        /\ step'[s].status = RecoveredStep(step[s].status)
    BY StepFacts, RestartedRow DEF TypeOK, Rows, History, ValueHistory, OutcomeInv
  <2>2. CASE action[a] \in {"prepared", "applying"}
    <3>1. RecoveredStep(step[s].status) \notin {"uncertain", "applied", "irreversible", "no_effect"}
      BY <2>2 DEF RecoveredAction
    <3>2. step[s].status \in {"absent", "prepared", "failed"}
      BY <2>1, <2>2, <3>1 DEF OutcomeFlow, RecoveredStep, StepStatus
    <3> QED BY <1>1, <2>1, <3>2 DEF RowHistory, Gone
  <2>3. CASE action[a] = "failed"
    BY <1>1, <2>1, <2>3 DEF FailedHistory, Gone, RecoveredStep
  <2> QED BY <2>2, <2>3 DEF RecoveredAction
<1> QED BY <1>2, <1>3, <1>4, <1>5 DEF History, HistoryInv

\* An edit that leads to no step, and leads back to what it replaces while
\* somebody works on the object, keeps the history.
LEMMA HistoryEdited ==
    ASSUME TypeOK, NEW o \in Objects, UserEdits(o),
           NEW W \in SUBSET Value, NEW reach \in [W -> SUBSET W], History(W, reach),
           NEW W1 \in SUBSET Value, NEW reach1 \in [W1 -> SUBSET W1],
           W \subseteq W1, W1 \cap Steps \subseteq W, \A v \in W : reach1[v] = reach[v],
           NEW v \in W1, target' = [target EXCEPT ![o] = v], v \in reach1[v],
           reach1[v] \cap Steps \subseteq reach[target[o]],
           Busy(o) => reach[target[o]] \subseteq reach1[v],
           \A w \in W1 : w \in reach1[w],
           \A n \in Nat : MidEdit(n) \in W1 => n < edits + 1
    PROVE  HistoryInv'
<1>1. UNCHANGED <<action, step, phase, at, resumed, out, undo>> /\ edits' = edits + 1
  BY DEF UserEdits, call
<1>2. \A p \in Objects : /\ target[p] \in W /\ target'[p] \in W1
                         /\ reach1[target'[p]] \cap Steps \subseteq reach[target[p]]
                         /\ Busy(p) => reach[target[p]] \subseteq reach1[target'[p]]
  BY DEF TypeOK, History, ValueHistory
<1>3. ValueHistory(W1, reach1)'
  <2>1. Edited \in W1 /\ reach1[Edited] \cap Steps = {}
    BY DEF History, ValueHistory
  <2> QED BY <1>1, <1>2, <2>1 DEF ValueHistory
<1>4. ASSUME NEW s \in Steps PROVE RowHistory(W1, reach1, s)'
  <2>1. RowHistory(W, reach, s) /\ TargetOf[s] \in Objects /\ (s \in W1 => s \in W)
    BY StepFacts DEF History
  <2>2. s \notin reach[target[TargetOf[s]]] => s \notin reach1[target'[TargetOf[s]]]
    BY <1>2, <2>1
  <2> QED BY <1>1, <2>1, <2>2 DEF RowHistory
<1>5. ASSUME NEW a \in Actions PROVE CallHistory(W1, reach1, a)'
  <2>1. CallHistory(W, reach, a) /\ at[a] \in Steps /\ Object(a) \in Objects /\ Object(a)' = Object(a)
    BY <1>1, AtType DEF History, Object
  <2>2. phase[a] \in {"claim", "claim_action", "write", "record", "rerecord"} => Busy(Object(a))
    BY DEF Busy
  <2>3. at[a] \notin reach[target[Object(a)]] => at[a] \notin reach1[target'[Object(a)]]
    BY <1>2, <2>1
  <2>4. at[a] \in W1 => at[a] \in W
    BY <2>1
  <2>5. Busy(Object(a)) => reach[target[Object(a)]] \subseteq reach1[target'[Object(a)]]
    BY <1>2, <2>1
  <2> QED BY <1>1, <2>1, <2>2, <2>3, <2>4, <2>5 DEF CallHistory
<1>6. ASSUME NEW a \in Actions PROVE UndoHistory(W1, reach1, a)'
  <2>1. undo[a].phase \in {"reread", "mark", "inverse"} =>
          undo[a].at \in Steps /\ TargetOf[undo[a].at] \in Objects
    BY StepFacts DEF TypeOK, Undos, Replaying
  <2>2. undo[a].phase = "inverse" => Busy(TargetOf[undo[a].at])
    BY DEF Busy
  <2>3. UndoHistory(W, reach, a)
    BY DEF History
  <2> QED BY <1>1, <1>2, <2>1, <2>2, <2>3 DEF UndoHistory
<1>7. ASSUME NEW a \in Actions PROVE FailedHistory(reach1, a)'
  <2>1. FailedHistory(reach, a)
    BY DEF History
  <2>2. \A s \in StepsOf(a) : s \in Steps /\ TargetOf[s] \in Objects
    BY StepFacts
  <2>3. \A s \in StepsOf(a) :
          s \notin reach[target[TargetOf[s]]] => s \notin reach1[target'[TargetOf[s]]]
    BY <1>2, <2>2
  <2> QED BY <1>1, <2>1, <2>3, FailedStays
<1> QED BY <1>3, <1>4, <1>5, <1>6, <1>7 DEF History, HistoryInv

\* The user's edits do.
LEMMA HistoryUser ==
    ASSUME TypeOK, NEW o \in Objects, UserEdits(o), FaultsHere,
           NEW W \in SUBSET Value, NEW reach \in [W -> SUBSET W], History(W, reach)
    PROVE  HistoryInv'
<1>1. PICK v \in MidEdits \union {Edited} :
               /\ target' = [target EXCEPT ![o] = v]
               /\ Busy(o) => v \in MidEdits
               /\ v \in MidEdits => v = MidEdit(edits)
  BY EditedTo DEF FaultsHere
<1>2. ValueHistory(W, reach) /\ target[o] \in W /\ edits \in Nat
  BY DEF History, ValueHistory, TypeOK
<1>3. CASE v = Edited
  <2>1. ~Busy(o)
    BY <1>1, <1>3, Values
  <2>2. /\ v \in W /\ v \in reach[v] /\ reach[v] \cap Steps \subseteq reach[target[o]]
        /\ \A w \in W : w \in reach[w]
    BY <1>2, <1>3 DEF ValueHistory
  <2>3. \A n \in Nat : MidEdit(n) \in W => n < edits + 1
    BY <1>2 DEF ValueHistory
  <2>4. target' = [target EXCEPT ![o] = v]
    BY <1>1
  <2>5. W \cap Steps \subseteq W /\ W \subseteq W /\ \A w \in W : reach[w] = reach[w]
    OBVIOUS
  <2> QED BY ONLY TypeOK, UserEdits(o), History(W, reach), <2>1, <2>2, <2>3, <2>4, <2>5, HistoryEdited
<1>4. CASE v # Edited
  <2>1. v \in MidEdits /\ v = MidEdit(edits) /\ v \in Value /\ v \notin Steps /\ v \notin W
    BY <1>1, <1>2, <1>4, Values DEF ValueHistory
  <2>2. PICK W1 \in SUBSET Value : W1 = W \union {v}
    BY <2>1
  <2>3. PICK reach1 \in [W1 -> SUBSET W1] : /\ \A w \in W : reach1[w] = reach[w]
                                            /\ reach1[v] = {v} \union reach[target[o]]
    <3> DEFINE r == [w \in W1 |-> IF w \in W THEN reach[w] ELSE {v} \union reach[target[o]]]
    <3>1. r \in [W1 -> SUBSET W1]
      BY <1>2, <2>2
    <3>2. (\A w \in W : r[w] = reach[w]) /\ r[v] = {v} \union reach[target[o]]
      BY <2>1, <2>2
    <3> QED BY <3>1, <3>2
  <2>4. \A n \in Nat : MidEdit(n) \in W1 => n < edits + 1
    BY <1>2, <2>1, <2>2 DEF ValueHistory, MidEdit
  <2>5. \A w \in W1 : w \in reach1[w]
    BY <1>2, <2>2, <2>3 DEF ValueHistory
  <2>6. W \subseteq W1 /\ W1 \cap Steps \subseteq W /\ v \in W1
    BY <2>1, <2>2
  <2>7. reach1[v] \cap Steps \subseteq reach[target[o]] /\ reach[target[o]] \subseteq reach1[v]
    BY <2>1, <2>3
  <2>8. target' = [target EXCEPT ![o] = v] /\ v \in reach1[v]
    BY <1>1, <2>3
  <2>9. \A w \in W : reach1[w] = reach[w]
    BY <2>3
  <2> QED BY ONLY TypeOK, UserEdits(o), History(W, reach), <2>4, <2>5, <2>6, <2>7, <2>8, <2>9,
                  HistoryEdited
<1> QED BY <1>3, <1>4

\* Every step of the system keeps what an undo can bring back.
LEMMA HistoryNext ==
    ASSUME TypeOK, WindowInv, FlowInv, FlowInv', OutcomeInv, HistoryInv, [Next]_vars, FaultsHere
    PROVE  HistoryInv'
<1>1. PICK W \in SUBSET Value : \E reach \in [W -> SUBSET W] : History(W, reach)
  BY DEF HistoryInv
<1>2. PICK reach \in [W -> SUBSET W] : History(W, reach)
  BY <1>1
<1>3. CASE UNCHANGED vars
  <2>1. History(W, reach)'
    BY <1>2, <1>3 DEF vars, History, ValueHistory, RowHistory, CallHistory, UndoHistory,
         FailedHistory, Gone, Object
  <2> QED BY <2>1 DEF HistoryInv
<1>4. ASSUME NEW a \in Actions, CallSteps(a) \/ Begin(a) \/ Resume(a) PROVE HistoryInv'
  <2>1. CASE target' = target
    BY <1>2, <1>4, <2>1, HistoryCallReads
  <2>2. CASE target' # target
    <3>1. /\ WriteLibrary(a) \/ WriteNote(a) \/ TryOnceMore(a)
          /\ target' = [target EXCEPT ![Object(a)] = at[a]]
      BY <1>4, <2>2 DEF CallSteps, Begin, Resume, EnterWindow, Prepare, ClaimStep,
         ClaimAction, ClaimFails, Refuse, WriteLibrary, WriteNote, Reconcile, TryOnceMore,
         Record, RecordFails, StepFails, Finish, FinishFails, Settle
    <3> QED BY <1>2, <3>1, HistoryCallWrites
  <2> QED BY <2>1, <2>2
<1>5. ASSUME NEW a \in Actions, UndoSteps(a) \/ RequestUndo(a) PROVE HistoryInv'
  BY <1>2, <1>5, HistoryUndo
<1>6. ASSUME NEW o \in Objects, UserEdits(o) PROVE HistoryInv'
  BY <1>2, <1>6, HistoryUser
<1>7. CASE Restart
  BY <1>2, <1>7, HistoryRestart
<1> QED BY <1>3, <1>4, <1>5, <1>6, <1>7 DEF Next

\* All the invariants together.
JournalInv == TypeOK /\ WindowInv /\ FlowInv /\ OutcomeInv /\ HistoryInv

\* All of this is true in every state.
LEMMA JournalCorrect ==
    ASSUME FaultsHere
    PROVE  Spec => []JournalInv
<1>1. Init => JournalInv
  BY TypeInit, WindowInit, FlowInit, OutcomeInit, HistoryInit DEF JournalInv
<1>2. JournalInv /\ [Next]_vars => JournalInv'
  BY TypeNext, WindowNext, FlowNext, OutcomeNext, HistoryNext DEF FaultsHere, JournalInv
<1> QED BY <1>1, <1>2, PTL DEF Spec

\* What is in the library was made, has not failed and has not been undone.
LEMMA InPlaceWasMade ==
    ASSUME JournalInv, NEW s \in Steps, InPlace(s)
    PROVE  /\ step[s].status \notin {"absent", "prepared", "failed", "reverted"}
           /\ "partial" \notin Faults /\ action[ActionOf[s]] = "failed" => Unattributed(s)
<1>1. PICK W \in SUBSET Value : \E reach \in [W -> SUBSET W] : History(W, reach)
  BY DEF JournalInv, HistoryInv
<1>2. PICK reach \in [W -> SUBSET W] : History(W, reach)
  BY <1>1
<1>3. s \in W /\ s \in reach[target[TargetOf[s]]] /\ s \in StepsOf(ActionOf[s])
  BY <1>2, StepFacts DEF History, ValueHistory, InPlace
<1>4. RowHistory(W, reach, s) /\ FailedHistory(reach, ActionOf[s])
  BY <1>2, StepFacts DEF History
<1> QED BY <1>3, <1>4 DEF RowHistory, FailedHistory, Gone, Unattributed

\* An action that is reported undone has left nothing of what it could undo:
\* no step of it that had an inverse and changed the library is in place, its
\* value has not come back from anywhere.  A call and an undo of one action that
\* overlap, an edit that repeats an earlier one in the middle of some work, and a
\* retry whose statements fail bring a value back and are left out.
THEOREM RevertedIsRestored ==
    ASSUME {"overlap", "repeat"} \cap Faults = {}, ~({"db", "resume"} \subseteq Faults)
    PROVE  Spec => []RevertedMeansRestored
<1>1. Spec => []JournalInv
  BY JournalCorrect DEF FaultsHere
<1>2. JournalInv => RevertedMeansRestored
  <2> SUFFICES ASSUME JournalInv, NEW s \in Steps, action[ActionOf[s]] = "reverted", InPlace(s)
               PROVE  step[s].status = "irreversible" \/ Unattributed(s)
    BY DEF RevertedMeansRestored
  <2>1. step[s].status \in NothingLeft
    BY StepFacts DEF JournalInv, FlowInv, UndoFlow
  <2> QED BY <2>1, InPlaceWasMade DEF NothingLeft, Unattributed
<1> QED BY <1>1, <1>2, PTL

\* Nothing that is in the library is called failed, retries included: a retry
\* of a failed note change that makes it says so, and one that does not make it
\* finds it gone.  FailedIsUntouched says it without retries.
THEOREM RetriedIsUntouched ==
    ASSUME {"partial", "overlap", "repeat"} \cap Faults = {}, ~({"db", "resume"} \subseteq Faults)
    PROVE  Spec => []FailedMeansUntouched
<1>1. Spec => []JournalInv
  BY JournalCorrect DEF FaultsHere
<1>2. JournalInv => FailedMeansUntouched
  BY InPlaceWasMade DEF FailedMeansUntouched
<1> QED BY <1>1, <1>2, PTL
-----------------------------------------------------------------------------
(***************************************************************************)
(* Who erases an inverse.                                                  *)
(***************************************************************************)

\* A call writes the inverse before the change is made.
LEMMA CallErases ==
    ASSUME JournalInv, FaultsHere, NEW a \in Actions, CallSteps(a) \/ Begin(a) \/ Resume(a),
           NEW s \in Steps, step[s].inverse, ~step'[s].inverse
    PROVE  step[s].status = "absent"
<1>1. TypeOK /\ WindowInv /\ FlowInv /\ step[s] \in Rows /\ s \in StepsOf(ActionOf[s])
  BY StepFacts DEF JournalInv, TypeOK
<1>2. ActionOf[s] = a
  BY <1>1, CallUndoesNothing, StepFacts DEF FaultsHere, Unmoved
<1>3. CASE Prepare(a)
  <2>1. s = at[a] /\ phase[a] = "prepare"
    BY <1>1, <1>3 DEF Prepare, TypeOK
  <2> QED BY <1>1, <2>1 DEF FlowInv, CallFlow
<1>4. CASE ClaimStep(a) \/ Refuse(a) \/ Record(a) \/ StepFails(a)
  <2>1. CASE Record(a)
    <3>1. step' = [step EXCEPT ![at[a]].status = Outcome(a),
                               ![at[a]].after = target[Object(a)]]
      BY <2>1 DEF Record
    <3>2. step'[s].inverse = step[s].inverse
      BY <1>1, <3>1 DEF TypeOK, Rows
    <3> QED BY <3>2
  <2>2. CASE ClaimStep(a) \/ Refuse(a) \/ StepFails(a)
    <3>1. step'[s].inverse = step[s].inverse
      BY <1>1, <2>2 DEF ClaimStep, Refuse, StepFails, SetRow, TypeOK, Rows
    <3> QED BY <3>1
  <2> QED BY <1>4, <2>1, <2>2
<1>5. CASE ~(Prepare(a) \/ ClaimStep(a) \/ Refuse(a) \/ Record(a) \/ StepFails(a))
  <2>1. \/ WriteLibrary(a) \/ WriteNote(a) \/ Reconcile(a) \/ TryOnceMore(a) \/ RecordFails(a)
        \/ EnterWindow(a) \/ ClaimAction(a) \/ ClaimFails(a) \/ Finish(a) \/ FinishFails(a)
        \/ Settle(a) \/ Begin(a) \/ Resume(a)
    BY <1>5 DEF CallSteps
  <2>2. CASE WriteLibrary(a) \/ WriteNote(a) \/ Reconcile(a) \/ TryOnceMore(a) \/ RecordFails(a)
    <3>1. step' = step
      BY <2>2 DEF WriteLibrary, WriteNote, Reconcile, TryOnceMore, RecordFails
    <3> QED BY <3>1
  <2>3. CASE ~(WriteLibrary(a) \/ WriteNote(a) \/ Reconcile(a) \/ TryOnceMore(a) \/ RecordFails(a))
    <3>1. step' = step
      BY <2>1, <2>3 DEF EnterWindow, ClaimAction, ClaimFails, Finish, FinishFails, Settle, Begin,
         Resume
    <3> QED BY <3>1
  <2> QED BY <2>2, <2>3
<1> QED BY <1>3, <1>4, <1>5

\* An undo erases the inverses when nothing is left to take back.
LEMMA UndoErases ==
    ASSUME JournalInv, FaultsHere, NEW a \in Actions, UndoSteps(a) \/ RequestUndo(a),
           NEW s \in Steps, step[s].inverse, ~step'[s].inverse
    PROVE  step[s].status \in NothingLeft
<1>1. TypeOK /\ WindowInv /\ UndoFlow(a) /\ s \in StepsOf(ActionOf[s])
  BY StepFacts DEF JournalInv, FlowInv
<1>2. ActionOf[s] = a
  BY <1>1, UndoMovesOnly, StepFacts DEF FaultsHere, Unmoved
<1>3. ASSUME NEW status, Reverts(a, status) PROVE FALSE
  BY <1>1, <1>2, <1>3, RevertedRow
<1>4. /\ undo[a].phase = "steps" /\ undo[a].todo = {} /\ ~undo[a].failed
  BY <1>3, UndoForms DEF Starts, Moves, Closes, RequestUndo, PickStep
<1>5. RowFlow(a, s)
  BY <1>1, <1>2, <1>4 DEF UndoFlow
<1> QED BY <1>4, <1>5 DEF RowFlow

\* A restart retires the inverses of what was not made.
LEMMA RestartErases ==
    ASSUME JournalInv, "partial" \notin Faults, Restart,
           NEW s \in Steps, step[s].inverse, ~step'[s].inverse
    PROVE  \/ step[s].status \in {"absent", "prepared", "failed", "no_effect"}
           \/ action[ActionOf[s]] = "failed"
<1>1. PICK a \in Actions : a = ActionOf[s] /\ s \in StepsOf(a)
  BY StepFacts
<1>2. /\ OutcomeFlow(a) /\ step[s] \in Rows /\ step[s].status \in StepStatus
  BY DEF JournalInv, OutcomeInv, TypeOK, Rows
<1>3. Retired(a, s)
  <2>1. RecoveredStep(step[s].status) \in StepStatus
    BY <1>2, RecoveredStepType
  <2>2. [step[s] EXCEPT !.status = RecoveredStep(@)].inverse
    BY <1>2, <2>1 DEF Rows
  <2> QED BY <1>1, <2>2 DEF Restart
<1>4. CASE RecoveredStep(step[s].status) \in {"failed", "no_effect", "irreversible"}
  <2>1. step[s].status # "irreversible"
    BY <1>1, <1>2 DEF OutcomeFlow
  <2> QED BY <1>4, <2>1 DEF RecoveredStep
<1>5. CASE RecoveredAction(a) \in {"failed", "no_effect", "irreversible"}
  <2>1. CASE action[a] \in {"prepared", "applying"}
    <3>1. RecoveredStep(step[s].status) \notin {"uncertain", "applied", "irreversible"}
      BY <1>1, <1>5, <2>1 DEF RecoveredAction
    <3>2. step[s].status \notin {"reverting", "reverted", "revert_failed", "partially_applied"}
      BY <1>1, <1>2, <2>1 DEF OutcomeFlow
    <3> QED BY <1>2, <3>1, <3>2 DEF RecoveredStep, StepStatus
  <2>2. CASE action[a] \notin {"prepared", "applying"}
    <3>1. action[a] \in {"failed", "no_effect", "irreversible"}
      BY <1>5, <2>2 DEF RecoveredAction
    <3> QED BY <1>1, <1>2, <3>1 DEF OutcomeFlow, Unmade
  <2> QED BY <2>1, <2>2
<1> QED BY <1>3, <1>4, <1>5 DEF Retired

\* The inverse of a change is only erased when the change is not in the library
\* any more: by the end of an undo that took every step back, by a start that
\* finds the step or its action failed or without effect.  The "partial" result
\* of the interrupted_partial_write run and what RevertedIsRestored leaves out
\* are left out.
THEOREM ErasedIsGone ==
    ASSUME {"partial", "overlap", "repeat"} \cap Faults = {}, ~({"db", "resume"} \subseteq Faults)
    PROVE  Spec => ErasesNoLiveChange
<1> DEFINE Step == \A s \in Steps : step[s].inverse /\ ~step'[s].inverse =>
                       ~InPlace(s) \/ Unattributed(s)
<1>1. FaultsHere /\ "partial" \notin Faults
  BY DEF FaultsHere
<1>2. Spec => []JournalInv
  BY <1>1, JournalCorrect
<1>3. JournalInv /\ [Next]_vars => [Step]_vars
  <2> SUFFICES ASSUME JournalInv, [Next]_vars, NEW s \in Steps,
                      step[s].inverse, ~step'[s].inverse, InPlace(s)
               PROVE  Unattributed(s)
    OBVIOUS
  <2>1. /\ step[s].status \notin {"absent", "prepared", "failed", "reverted"}
        /\ action[ActionOf[s]] = "failed" => Unattributed(s)
    BY <1>1, InPlaceWasMade
  <2>2. step[s].status # "irreversible"
    BY <1>1, StepFacts DEF JournalInv, OutcomeInv, OutcomeFlow
  <2>3. ASSUME NEW a \in Actions, CallSteps(a) \/ Begin(a) \/ Resume(a) PROVE FALSE
    BY <1>1, <2>1, <2>3, CallErases
  <2>4. ASSUME NEW a \in Actions, UndoSteps(a) \/ RequestUndo(a) PROVE Unattributed(s)
    BY <1>1, <2>1, <2>2, <2>4, UndoErases DEF NothingLeft, Unattributed
  <2>5. CASE Restart
    BY <1>1, <2>1, <2>5, RestartErases DEF Unattributed
  <2>6. CASE UNCHANGED step
    BY <2>6
  <2>7. \A o \in Objects : UserEdits(o) => UNCHANGED step
    BY DEF UserEdits
  <2> QED BY <2>3, <2>4, <2>5, <2>6, <2>7 DEF Next, vars
<1>4. []JournalInv /\ [][Next]_vars => [][Step]_vars
  BY <1>3, PTL
<1> QED BY <1>2, <1>4, PTL DEF Spec, ErasesNoLiveChange
=============================================================================
