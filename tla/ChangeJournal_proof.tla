------------------------- MODULE ChangeJournal_proof -------------------------
(***************************************************************************)
(* Theorems about ChangeJournal, for every set of actions, steps and       *)
(* objects and every bound.  Each theorem names the faults it leaves out:  *)
(* types apart, "overlap" always, so that the call and the undo of one     *)
(* action are kept apart.                                                  *)
(***************************************************************************)
EXTENDS ChangeJournal, TLAPS

\* What the constants say of a step and its action.
LEMMA StepFacts ==
    /\ Steps \subseteq Nat \ {0}
    /\ \A s \in Steps : ActionOf[s] \in Actions /\ s \in StepsOf(ActionOf[s])
                        /\ TargetOf[s] \in Objects
    /\ \A a \in Actions : StepsOf(a) \subseteq Steps /\ \A s \in StepsOf(a) : ActionOf[s] = a
BY StepsAssumption DEF StepsOf, Objects

\* Objects hold steps or one of the values below; an edit is none of the others.
LEMMA Values ==
    /\ Steps \subseteq Value /\ Original \in Value /\ Edited \in Value /\ MidEdits \subseteq Value
    /\ \A n \in Nat : MidEdit(n) \in MidEdits
    /\ MidEdits \cap (Steps \union {Original, Edited, NoImage}) = {}
    /\ Edited \notin Steps /\ Edited # NoImage /\ Edited # Original
    /\ NoStep \notin Steps
<1>1. \A n \in Nat : MidEdit(n) \in Int /\ MidEdit(n) <= MidEdit(0)
  BY DEF MidEdit
<1>2. \A v \in MidEdits : v \in Int /\ v < -2
  BY DEF MidEdits, MidEdit
<1>3. MidEdits \cap (Steps \union {Original, Edited, NoImage}) = {}
  BY <1>2, StepFacts DEF Original, Edited, NoImage
<1>4. /\ Steps \subseteq Value /\ Original \in Value /\ Edited \in Value /\ MidEdits \subseteq Value
      /\ \A n \in Nat : MidEdit(n) \in MidEdits
  BY <1>1 DEF Value, MidEdits
<1>5. Edited \notin Steps /\ Edited # NoImage /\ Edited # Original /\ NoStep \notin Steps
  BY StepFacts DEF Edited, NoImage, Original, NoStep
<1> QED BY <1>3, <1>4, <1>5

\* The missing row has the type of a row.
LEMMA NoRowType == NoRow \in Rows
BY Values DEF NoRow, Rows, StepStatus

\* So has a row whose inverse was erased.
LEMMA ErasedType ==
    ASSUME NEW row \in Rows
    PROVE  Erased(row) \in Rows /\ Erased(row).after = NoImage
BY Values DEF NoRow, Rows, Erased

\* No undo has the type of an undo.
LEMMA NoUndoType ==
    ASSUME NEW a \in Actions
    PROVE  NoUndo(a) \in Undos(a) /\ NoUndo(a).phase = "idle"
BY NoRowType DEF NoUndo, Undos, Replaying

\* What the recovery makes of the status of a step.
LEMMA RecoveredStepType ==
    ASSUME NEW status \in StepStatus
    PROVE  /\ RecoveredStep(status) \in StepStatus
           /\ status \in Passed => RecoveredStep(status) \in Passed
BY DEF RecoveredStep, StepStatus, Passed

\* What it makes of the status of an action.
LEMMA RecoveredActionType ==
    ASSUME TypeOK, NEW a \in Actions
    PROVE  RecoveredAction(a) \in StepStatus
BY DEF TypeOK, RecoveredAction, StepStatus
-----------------------------------------------------------------------------
\* The start has the types.
LEMMA TypeInit == Init => TypeOK
<1> SUFFICES ASSUME Init PROVE TypeOK
  OBVIOUS
<1>1. step \in [Steps -> Rows] /\ target \in [Objects -> Value]
  BY NoRowType, Values DEF Init
<1>2. DOMAIN undo = Actions /\ \A a \in Actions : undo[a] \in Undos(a)
  BY NoUndoType DEF Init
<1>3. action \in [Actions -> StepStatus] /\ closed \in [Actions -> BOOLEAN]
  BY DEF Init, StepStatus
<1>4. /\ phase \in [Actions -> Phases] /\ resumed \in [Actions -> BOOLEAN]
      /\ out \in [Actions -> {"none", "applied", "partial"}]
  BY DEF Init, Phases
<1> QED BY <1>1, <1>2, <1>3, <1>4 DEF Init, TypeOK

\* Another status leaves a row a row, another value an object an object.
LEMMA RowStatus ==
    ASSUME NEW row \in Rows, NEW status \in StepStatus
    PROVE  [row EXCEPT !.status = status] \in Rows
BY DEF Rows

\* A new status keeps the types of the rows.
LEMMA StepsStatus ==
    ASSUME TypeOK, NEW s \in Steps, NEW status \in StepStatus
    PROVE  [step EXCEPT ![s].status = status] \in [Steps -> Rows]
<1>1. [step[s] EXCEPT !.status = status] \in Rows
  BY RowStatus DEF TypeOK
<1> QED BY <1>1 DEF TypeOK

\* A write keeps the types of the objects.
LEMMA TargetsType ==
    ASSUME TypeOK, NEW o \in Objects, NEW v \in Value
    PROVE  [target EXCEPT ![o] = v] \in [Objects -> Value]
BY DEF TypeOK

\* A call is at a step, and the step has an object.
LEMMA AtType ==
    ASSUME TypeOK, NEW a \in Actions
    PROVE  at[a] \in Steps /\ at[a] \in Value /\ Object(a) \in Objects
BY StepFacts, Values DEF TypeOK, Object

\* The statuses this module's actions write.
LEMMA Statuses ==
    {"prepared", "applying", "applied", "partially_applied", "no_effect", "irreversible",
     "reverting", "reverted", "revert_failed", "failed", "uncertain"} \subseteq StepStatus
BY DEF StepStatus

\* The steps of a call.
LEMMA TypeCall ==
    ASSUME TypeOK, NEW a \in Actions, CallSteps(a) \/ Begin(a) \/ Resume(a)
    PROVE  TypeOK'
<1> USE StepFacts, Values
<1>1. CASE Begin(a)
  BY <1>1 DEF Begin, TypeOK, Phases, NoFault, GoTo, win, bounds
<1>2. CASE Resume(a)
  BY <1>2 DEF Resume, TypeOK, Phases, Fault, GoTo, win, bounds
<1>3. CASE EnterWindow(a)
  BY <1>3 DEF EnterWindow, Enter, TypeOK, Phases, NoFault, GoTo, win, bounds
<1>4. CASE Prepare(a)
  <2>1. PICK inverse \in BOOLEAN :
          /\ step' = [step EXCEPT ![at[a]] =
                        [status |-> "prepared", inverse |-> inverse,
                         before |-> target[Object(a)], after |-> NoImage]]
          /\ IF IsFirst(at[a])
             THEN /\ action' = [action EXCEPT ![a] = "prepared"]
                  /\ closed' = [closed EXCEPT ![a] = ~inverse]
             ELSE UNCHANGED <<action, closed>>
    BY <1>4 DEF Prepare
  <2>2. step' \in [Steps -> Rows]
    BY <2>1, AtType, Statuses DEF TypeOK, Rows
  <2>3. action' \in [Actions -> StepStatus]
    BY <2>1, Statuses DEF TypeOK
  <2>4. closed' \in [Actions -> BOOLEAN]
    <3>1. \A b \in BOOLEAN : [closed EXCEPT ![a] = b] \in [Actions -> BOOLEAN]
      BY DEF TypeOK
    <3>2. (~inverse) \in BOOLEAN
      OBVIOUS
    <3>3. [closed EXCEPT ![a] = ~inverse] \in [Actions -> BOOLEAN]
      BY ONLY <3>1, <3>2, Zenon
    <3> QED BY <2>1, <3>3 DEF TypeOK
  <2> QED BY <1>4, <2>2, <2>3, <2>4 DEF Prepare, TypeOK, Phases, NoFault, GoTo, win, bounds
<1>5. CASE ClaimStep(a)
  <2>1. step' \in [Steps -> Rows]
    BY <1>5, StepsStatus, AtType, Statuses DEF ClaimStep, TypeOK, SetRow
  <2>2. phase' \in [Actions -> Phases]
    BY <1>5 DEF ClaimStep, TypeOK, Phases, GoTo
  <2> QED BY <1>5, <2>1, <2>2 DEF ClaimStep, TypeOK, NoFault, win, bounds
<1>6. CASE ClaimAction(a)
  <2>1. action' \in [Actions -> StepStatus]
    BY <1>6, Statuses DEF ClaimAction, TypeOK
  <2>2. phase' \in [Actions -> Phases]
    BY <1>6 DEF ClaimAction, TypeOK, Phases, GoTo
  <2> QED BY <1>6, <2>1, <2>2 DEF ClaimAction, TypeOK, NoFault, win, bounds
<1>7. CASE ClaimFails(a)
  BY <1>7 DEF ClaimFails, TypeOK, Phases, Fault, GoTo, win, bounds
<1>8. CASE Refuse(a)
  <2>1. step' \in [Steps -> Rows]
    BY <1>8, StepsStatus, AtType, Statuses DEF Refuse, TypeOK, SetRow
  <2> QED BY <1>8, <2>1 DEF Refuse, TypeOK, Phases, Fault, NoFault, GoTo, Leave, bounds
<1>9. CASE WriteLibrary(a)
  <2>1. target' \in [Objects -> Value]
    BY <1>9, TargetsType, AtType DEF WriteLibrary, TypeOK
  <2>2. /\ phase' \in [Actions -> Phases] /\ faults' \in Nat
        /\ out' \in [Actions -> {"none", "applied", "partial"}]
    BY <1>9 DEF WriteLibrary, TypeOK, Phases, Fault, NoFault, GoTo
  <2> QED BY <1>9, <2>1, <2>2 DEF WriteLibrary, TypeOK, win, bounds
<1>10. CASE WriteNote(a)
  <2>1. target' \in [Objects -> Value]
    BY <1>10, TargetsType, AtType DEF WriteNote, TypeOK
  <2>2. /\ phase' \in [Actions -> Phases] /\ faults' \in Nat
        /\ out' \in [Actions -> {"none", "applied", "partial"}]
    BY <1>10 DEF WriteNote, TypeOK, Phases, Fault, NoFault, GoTo
  <2> QED BY <1>10, <2>1, <2>2 DEF WriteNote, TypeOK, win, bounds
<1>11. CASE Reconcile(a)
  BY <1>11 DEF Reconcile, TypeOK, Phases, Fault, NoFault, GoTo, win, bounds
<1>12. CASE TryOnceMore(a)
  <2>1. target' \in [Objects -> Value]
    BY <1>12, TargetsType, AtType DEF TryOnceMore, TypeOK
  <2>2. /\ phase' \in [Actions -> Phases] /\ faults' \in Nat
        /\ out' \in [Actions -> {"none", "applied", "partial"}]
    BY <1>12 DEF TryOnceMore, TypeOK, Phases, Fault, NoFault, GoTo
  <2> QED BY <1>12, <2>1, <2>2 DEF TryOnceMore, TypeOK, win, bounds
<1>13. CASE Record(a)
  <2>1. Outcome(a) \in StepStatus
    BY DEF Outcome, TypeOK, StepStatus
  <2>2. step' \in [Steps -> Rows]
    <3>1. /\ step[at[a]] \in Rows /\ target[Object(a)] \in Value
          /\ step' = [step EXCEPT ![at[a]] = [step[at[a]] EXCEPT !.status = Outcome(a),
                                                              !.after = target[Object(a)]]]
      BY <1>13, AtType DEF Record, TypeOK
    <3>2. [step[at[a]] EXCEPT !.status = Outcome(a), !.after = target[Object(a)]] \in Rows
      BY <2>1, <3>1 DEF Rows
    <3> QED BY <3>1, <3>2, AtType DEF TypeOK
  <2>3. at' \in [Actions -> Steps] /\ \A b \in Actions : at'[b] \in StepsOf(b)
    <3>1. CASE at' = at
      BY <3>1 DEF TypeOK
    <3>2. ASSUME NEW s \in Following(at[a]), at' = [at EXCEPT ![a] = s]
          PROVE  at' \in [Actions -> Steps] /\ \A b \in Actions : at'[b] \in StepsOf(b)
      <4>1. s \in StepsOf(ActionOf[at[a]]) /\ s \in StepsOf(a) /\ s \in Steps
        BY <3>2, AtType DEF Following, Later, StepsOf, TypeOK
      <4> QED BY <3>2, <4>1 DEF TypeOK
    <3> QED BY <1>13, <3>1, <3>2 DEF Record
  <2>4. phase' \in [Actions -> Phases]
    BY <1>13 DEF Record, TypeOK, Phases, GoTo
  <2>5. /\ window' \in Actions \union {NoAction} /\ outer' \in {"call", "undo"}
        /\ {faults, edits, undos, restarts}' \subseteq Nat
    BY <1>13 DEF Record, TypeOK, NoFault, Leave, bounds
  <2>6. UNCHANGED <<action, closed, target, resumed, out, undo>>
    BY <1>13 DEF Record
  <2> QED BY <2>2, <2>3, <2>4, <2>5, <2>6 DEF TypeOK
<1>14. CASE RecordFails(a)
  BY <1>14 DEF RecordFails, TypeOK, Phases, Fault, NoFault, GoTo, win, bounds
<1>15. CASE StepFails(a)
  <2>1. step' \in [Steps -> Rows]
    <3>1. CASE step' = step
      BY <3>1 DEF TypeOK
    <3>2. CASE step' = [step EXCEPT ![at[a]].status = phase[a]] /\ phase[a] \in StepStatus
      BY <3>2, StepsStatus, AtType
    <3> QED BY <1>15, <3>1, <3>2, Statuses DEF StepFails, SetRow
  <2> QED BY <1>15, <2>1 DEF StepFails, TypeOK, Phases, Fault, NoFault, GoTo, Leave, bounds
<1>16. CASE Finish(a)
  BY <1>16 DEF Finish, TypeOK, Phases, NoFault, GoTo, win, bounds, StepStatus, NoneUndoable
<1>17. CASE FinishFails(a)
  BY <1>17 DEF FinishFails, TypeOK, Phases, Fault, GoTo, win, bounds
<1>18. CASE Settle(a)
  <2>1. action' \in [Actions -> StepStatus]
    BY <1>18, Statuses DEF Settle, TypeOK
  <2>2. closed' \in [Actions -> BOOLEAN]
    <3>1. \A S : NoneUndoable(S) \in BOOLEAN
      BY DEF NoneUndoable
    <3> QED BY <1>18, <3>1 DEF Settle, TypeOK
  <2>3. phase' \in [Actions -> Phases] /\ faults' \in Nat
    BY <1>18 DEF Settle, TypeOK, Phases, Fault, NoFault, GoTo
  <2> QED BY <1>18, <2>1, <2>2, <2>3 DEF Settle, TypeOK, win, bounds
<1> QED BY <1>1, <1>2, <1>3, <1>4, <1>5, <1>6, <1>7, <1>8, <1>9, <1>10, <1>11, <1>12,
           <1>13, <1>14, <1>15, <1>16, <1>17, <1>18 DEF CallSteps

\* An undo's record stays one when a part of it is replaced.
LEMMA UndoParts ==
    ASSUME TypeOK, NEW a \in Actions, NEW u \in Undos(a), SetUndo(a, u)
    PROVE  /\ DOMAIN undo' = Actions /\ \A b \in Actions : undo'[b] \in Undos(b)
           /\ undo'[a] = u /\ \A b \in Actions \ {a} : undo'[b] = undo[b]
BY DEF TypeOK, SetUndo

\* An undo that moves on keeps its type.
LEMMA UndoPhases ==
    ASSUME TypeOK, NEW a \in Actions
    PROVE  /\ [undo[a] EXCEPT !.phase = "enter"] \in Undos(a)
           /\ [undo[a] EXCEPT !.phase = "steps"] \in Undos(a)
           /\ \A p \in Replaying :
                undo[a].phase \in Replaying => [undo[a] EXCEPT !.phase = p] \in Undos(a)
           /\ \A s \in StepsOf(a) : [undo[a] EXCEPT !.phase = "claim", !.at = s] \in Undos(a)
BY ZenonT(60) DEF TypeOK, Undos, Replaying

\* So does one that is done with a step.
LEMMA DoneType ==
    ASSUME TypeOK, NEW a \in Actions, NEW s, NEW failed \in BOOLEAN
    PROVE  Done(a, s, failed) \in Undos(a)
<1>1. undo[a] \in Undos(a)
  BY DEF TypeOK
<1> QED BY <1>1 DEF Done, Undos, Replaying

\* A step of an undo keeps the types.
LEMMA TypeUndo ==
    ASSUME TypeOK, NEW a \in Actions, UndoSteps(a) \/ RequestUndo(a)
    PROVE  TypeOK'
<1> USE StepFacts
<1> DEFINE U == DOMAIN undo' = Actions /\ \A b \in Actions : undo'[b] \in Undos(b)
<1>1. undo[a] \in Undos(a) /\ NoUndo(a) \in Undos(a)
  BY NoUndoType DEF TypeOK
<1>2. undo[a].at \in StepsOf(a) \union {NoStep}
  BY <1>1 DEF Undos, Replaying
<1>3. CASE RequestUndo(a)
  <2>1. U
    <3> DEFINE u == [phase |-> "claim_action", at |-> NoStep, failed |-> FALSE,
                     seen |-> [s \in StepsOf(a) |-> step[s]],
                     todo |-> {s \in StepsOf(a) : step[s].status # "absent"}]
    <3>1. u.seen \in [StepsOf(a) -> Rows]
      BY DEF TypeOK
    <3>2. u \in Undos(a)
      BY <3>1 DEF Undos, Replaying
    <3>3. SetUndo(a, u)
      BY <1>3 DEF RequestUndo
    <3> QED BY <3>2, <3>3, UndoParts
  <2> QED BY <1>3, <2>1 DEF RequestUndo, TypeOK, NoFault, call, win
<1>4. CASE ClaimUndo(a)
  <2>1. U
    BY <1>1, <1>4, UndoParts, UndoPhases DEF ClaimUndo, UndoAt
  <2> QED BY <1>4, <2>1 DEF ClaimUndo, TypeOK, NoFault, call, win, bounds, StepStatus
<1>5. CASE ClaimUndoFails(a)
  <2>1. U
    BY <1>1, <1>5, UndoParts DEF ClaimUndoFails
  <2> QED BY <1>5, <2>1 DEF ClaimUndoFails, TypeOK, Fault, call, win, bounds
<1>6. CASE UndoEnters(a)
  <2>1. U
    BY <1>6, UndoParts, UndoPhases DEF UndoEnters, UndoAt
  <2> QED BY <1>6, <2>1 DEF UndoEnters, Enter, TypeOK, NoFault, call, win, bounds
<1>7. CASE PickStep(a)
  <2>1. U
    <3>1. PICK s \in Last(a) :
            \/ SetUndo(a, Done(a, s, FALSE)) \/ SetUndo(a, Done(a, s, TRUE))
            \/ SetUndo(a, [undo[a] EXCEPT !.phase = "claim", !.at = s])
      BY <1>7 DEF PickStep
    <3>2. s \in StepsOf(a)
      BY <1>1, <3>1 DEF Last, Undos
    <3>3. Done(a, s, FALSE) \in Undos(a) /\ Done(a, s, TRUE) \in Undos(a)
      BY DoneType
    <3>4. [undo[a] EXCEPT !.phase = "claim", !.at = s] \in Undos(a)
      BY <3>2, UndoPhases
    <3> QED BY <3>1, <3>3, <3>4, UndoParts
  <2> QED BY <1>7, <2>1 DEF PickStep, TypeOK, NoFault, call, win, bounds
<1>8. CASE ClaimStepUndo(a)
  <2>1. U
    BY <1>8, UndoParts, UndoPhases DEF ClaimStepUndo, UndoAt, Replaying
  <2>2. step' \in [Steps -> Rows]
    <3>1. step' = step \/ step' = [step EXCEPT ![undo[a].at].status = "reverting"]
      BY <1>8 DEF ClaimStepUndo
    <3>2. undo[a].at \in Steps
      BY <1>1, <1>8 DEF ClaimStepUndo, Undos, Replaying
    <3> QED BY <3>1, <3>2, StepsStatus, Statuses DEF TypeOK
  <2> QED BY <1>8, <2>1, <2>2 DEF ClaimStepUndo, TypeOK, NoFault, call, win, bounds
<1>9. CASE Recheck(a)
  <2>1. U
    BY <1>9, UndoParts, UndoPhases DEF Recheck, UndoAt, Replaying
  <2> QED BY <1>9, <2>1 DEF Recheck, TypeOK, NoFault, call, win, bounds
<1>10. CASE RunInverse(a)
  <2>1. U
    BY <1>10, UndoParts, UndoPhases DEF RunInverse, UndoAt, Replaying
  <2>2. target' \in [Objects -> Value]
    <3>1. CASE target' = target
      BY <3>1 DEF TypeOK
    <3>2. CASE target' = [target EXCEPT ![TargetOf[undo[a].at]] = Seen(a, undo[a].at).before]
      <4>1. undo[a].at \in StepsOf(a)
        BY <1>1, <1>10 DEF RunInverse, Undos, Replaying
      <4>2. Seen(a, undo[a].at) \in Rows
        BY <1>1, <4>1 DEF Seen, Undos
      <4>3. TargetOf[undo[a].at] \in Objects /\ Seen(a, undo[a].at).before \in Value
        BY <4>1, <4>2 DEF Rows
      <4> QED BY <3>2, <4>3, TargetsType
    <3> QED BY <1>10, <3>1, <3>2 DEF RunInverse
  <2> QED BY <1>10, <2>1, <2>2 DEF RunInverse, TypeOK, Fault, NoFault, call, win, bounds
<1>11. CASE Reread(a)
  <2>1. U
    BY <1>11, UndoParts, UndoPhases DEF Reread, UndoAt, Replaying
  <2> QED BY <1>11, <2>1 DEF Reread, TypeOK, NoFault, call, win, bounds
<1>12. CASE MarkReverted(a)
  <2>1. U
    BY <1>12, UndoParts, DoneType DEF MarkReverted
  <2>2. step' \in [Steps -> Rows]
    BY <1>2, <1>12, StepsStatus, Statuses DEF MarkReverted, TypeOK
  <2> QED BY <1>12, <2>1, <2>2 DEF MarkReverted, TypeOK, NoFault, call, win, bounds
<1>13. CASE UndoStepFails(a)
  <2>1. U
    BY <1>13, UndoParts, UndoPhases DEF UndoStepFails, UndoAt, Replaying
  <2> QED BY <1>13, <2>1 DEF UndoStepFails, TypeOK, Fault, call, win, bounds
<1>14. CASE GiveUpStep(a)
  <2>1. U
    BY <1>14, UndoParts, DoneType DEF GiveUpStep
  <2>2. step' \in [Steps -> Rows]
    BY <1>2, <1>14, StepsStatus, Statuses DEF GiveUpStep, TypeOK
  <2> QED BY <1>14, <2>1, <2>2 DEF GiveUpStep, TypeOK, Fault, NoFault, call, win, bounds
<1>15. CASE FinishUndo(a)
  <2>1. U
    BY <1>1, <1>15, UndoParts DEF FinishUndo
  <2>2. step' \in [Steps -> Rows]
    BY <1>15, ErasedType DEF FinishUndo, TypeOK
  <2> QED BY <1>15, <2>1, <2>2 DEF FinishUndo, Leave, TypeOK, NoFault, call, bounds, StepStatus
<1>16. CASE FinishUndoFails(a)
  <2>1. U
    BY <1>1, <1>16, UndoParts DEF FinishUndoFails
  <2> QED BY <1>16, <2>1 DEF FinishUndoFails, Leave, TypeOK, Fault, call, bounds, StepStatus
<1> QED BY <1>3, <1>4, <1>5, <1>6, <1>7, <1>8, <1>9, <1>10, <1>11, <1>12, <1>13, <1>14,
           <1>15, <1>16 DEF UndoSteps

\* What an edit leaves: an edit in the middle of some work is told apart.
LEMMA EditedTo ==
    ASSUME TypeOK, NEW o \in Objects, UserEdits(o)
    PROVE  \E v \in MidEdits \union {Edited} :
               /\ target' = [target EXCEPT ![o] = v]
               /\ Busy(o) => v \in MidEdits
               /\ v \in MidEdits /\ "repeat" \notin Faults => v = MidEdit(edits)
<1>1. PICK n \in 0 .. edits :
        /\ n = edits \/ "repeat" \in Faults
        /\ target' = [target EXCEPT ![o] = IF Busy(o) THEN MidEdit(n) ELSE Edited]
  BY DEF UserEdits
<1>2. MidEdit(n) \in MidEdits
  BY Values
<1>3. Edited \notin MidEdits
  BY Values
<1> QED BY <1>1, <1>2, <1>3

\* A restart and an edit keep the types.
LEMMA TypeEnvironment ==
    ASSUME TypeOK, Restart \/ \E o \in Objects : UserEdits(o)
    PROVE  TypeOK'
<1> USE StepFacts, Values
<1>1. CASE Restart
  <2>1. action' \in [Actions -> StepStatus]
    BY <1>1, RecoveredActionType DEF Restart
  <2>2. closed' \in [Actions -> BOOLEAN]
    <3>1. \A a \in Actions : RecoveredClosed(a) \in BOOLEAN
      BY DEF RecoveredClosed, NoneUndoable, TypeOK
    <3> QED BY <1>1, <3>1 DEF Restart
  <2>3. step' \in [Steps -> Rows]
    <3>1. ASSUME NEW s \in Steps
          PROVE  /\ [step[s] EXCEPT !.status = RecoveredStep(@)] \in Rows
                 /\ Erased([step[s] EXCEPT !.status = RecoveredStep(@)]) \in Rows
      <4>1. step[s] \in Rows /\ RecoveredStep(step[s].status) \in StepStatus
        BY RecoveredStepType DEF TypeOK, Rows
      <4> QED BY <4>1, RowStatus, ErasedType
    <3> QED BY <1>1, <3>1 DEF Restart
  <2>4. DOMAIN undo' = Actions /\ \A a \in Actions : undo'[a] \in Undos(a)
    BY <1>1, NoUndoType DEF Restart
  <2> QED BY <1>1, <2>1, <2>2, <2>3, <2>4 DEF Restart, TypeOK, Phases, NoFault
<1>2. ASSUME NEW o \in Objects, UserEdits(o) PROVE TypeOK'
  <2>1. target' \in [Objects -> Value]
    BY <1>2, EditedTo, TargetsType
  <2> QED BY <1>2, <2>1 DEF UserEdits, TypeOK, NoFault, call, win
<1> QED BY <1>1, <1>2

\* Every step keeps the types.
LEMMA TypeNext == TypeOK /\ [Next]_vars => TypeOK'
<1> SUFFICES ASSUME TypeOK, [Next]_vars PROVE TypeOK'
  OBVIOUS
<1>1. CASE UNCHANGED vars
  BY <1>1 DEF TypeOK, vars
<1>2. CASE Next
  BY <1>2, TypeCall, TypeUndo, TypeEnvironment DEF Next
<1> QED BY <1>1, <1>2

\* Every variable keeps its type: the row an undo works on is one of its
\* action's, a call is at a step of its own.  Any choice of faults.
THEOREM TypeCorrect == Spec => []TypeOK
<1>1. Init => TypeOK
  BY TypeInit
<1>2. TypeOK /\ [Next]_vars => TypeOK'
  BY TypeNext
<1> QED BY <1>1, <1>2, PTL DEF Spec
-----------------------------------------------------------------------------
(***************************************************************************)
(* The write window.                                                       *)
(***************************************************************************)

\* Without "overlap" an action has its call under way, or its undo, or
\* neither; inside the window is whoever has entered it and not left it.
WindowInv ==
    \A a \in Actions :
        /\ phase[a] = "idle" \/ undo[a].phase = "idle"
        /\ undo[a].phase # "idle" => action[a] # "absent"
        /\ Working(a) => window = a /\ outer = "call"
        /\ Undoing(a) => window = a /\ outer = "undo"
        /\ window = a => Inside(a)

\* Nobody is in the window at the start.
LEMMA WindowInit == Init => WindowInv
BY StepsAssumption DEF Init, WindowInv, NoUndo, Working, Undoing, Inside

\* A call goes on inside the window, enters it, leaves it, or stays outside.
LEMMA WindowCall ==
    ASSUME TypeOK, WindowInv, NEW a \in Actions, CallSteps(a) \/ Begin(a) \/ Resume(a),
           "overlap" \notin Faults
    PROVE  WindowInv'
<1> USE DEF WindowInv, TypeOK, Working, Undoing, Inside, GoTo, Leave, win
<1>1. CASE Begin(a)
  BY <1>1 DEF Begin
<1>2. CASE Resume(a)
  BY <1>2 DEF Resume, Apart
<1>3. CASE EnterWindow(a)
  BY <1>3, StepsAssumption DEF EnterWindow, Enter
<1>4. CASE Prepare(a)
  BY <1>4 DEF Prepare
<1>5. CASE ClaimStep(a)
  BY <1>5 DEF ClaimStep
<1>6. CASE ClaimAction(a)
  BY <1>6 DEF ClaimAction
<1>7. CASE ClaimFails(a)
  BY <1>7 DEF ClaimFails
<1>8. CASE Refuse(a)
  BY <1>8, StepsAssumption DEF Refuse
<1>9. CASE WriteLibrary(a)
  BY <1>9 DEF WriteLibrary
<1>10. CASE WriteNote(a)
  BY <1>10 DEF WriteNote
<1>11. CASE Reconcile(a)
  BY <1>11 DEF Reconcile
<1>12. CASE TryOnceMore(a)
  BY <1>12 DEF TryOnceMore
<1>13. CASE Record(a)
  BY <1>13, StepsAssumption DEF Record
<1>14. CASE RecordFails(a)
  BY <1>14 DEF RecordFails
<1>15. CASE StepFails(a)
  BY <1>15, StepsAssumption DEF StepFails
<1>16. CASE Finish(a)
  BY <1>16 DEF Finish
<1>17. CASE FinishFails(a)
  BY <1>17 DEF FinishFails
<1>18. CASE Settle(a)
  BY <1>18 DEF Settle
<1> QED BY <1>1, <1>2, <1>3, <1>4, <1>5, <1>6, <1>7, <1>8, <1>9, <1>10, <1>11, <1>12,
           <1>13, <1>14, <1>15, <1>16, <1>17, <1>18 DEF CallSteps

\* An undo claims its action, enters the window, and leaves it at the end.
LEMMA WindowUndo ==
    ASSUME TypeOK, WindowInv, NEW a \in Actions, UndoSteps(a) \/ RequestUndo(a),
           "overlap" \notin Faults
    PROVE  WindowInv'
<1>1. /\ UNCHANGED phase
      /\ DOMAIN undo = Actions /\ undo[a] \in Undos(a)
      /\ NoUndo(a).phase = "idle" /\ \A s, failed : Done(a, s, failed).phase = "steps"
  <2>1. UNCHANGED call
    BY DEF UndoSteps, RequestUndo, ClaimUndo, ClaimUndoFails, UndoEnters, PickStep,
           ClaimStepUndo, Recheck, RunInverse, Reread, MarkReverted, UndoStepFails,
           GiveUpStep, FinishUndo, FinishUndoFails
  <2> QED BY <2>1 DEF call, TypeOK, NoUndo, Done, Undos
<1> USE DEF WindowInv, Working, Undoing, Inside, Leave, win, SetUndo, UndoAt
<1>2. CASE RequestUndo(a)
  BY <1>1, <1>2 DEF RequestUndo, Apart
<1>3. CASE ClaimUndo(a)
  BY <1>1, <1>3 DEF ClaimUndo, TypeOK, Undos
<1>4. CASE ClaimUndoFails(a)
  BY <1>1, <1>4 DEF ClaimUndoFails
<1>5. CASE UndoEnters(a)
  BY <1>1, <1>5, StepsAssumption DEF UndoEnters, Enter, Undos
<1>6. CASE PickStep(a)
  <2>1. undo[a].phase = "steps" /\ UNCHANGED <<action, window, outer>>
    BY <1>6 DEF PickStep
  <2>2. PICK u : SetUndo(a, u) /\ u.phase \in {"steps", "claim"}
    <3>1. \A s : [undo[a] EXCEPT !.phase = "claim", !.at = s].phase = "claim"
      BY <1>1 DEF Undos
    <3>2. PICK s : \/ SetUndo(a, Done(a, s, FALSE)) \/ SetUndo(a, Done(a, s, TRUE))
                   \/ SetUndo(a, [undo[a] EXCEPT !.phase = "claim", !.at = s])
      BY <1>6 DEF PickStep
    <3>3. \A failed : Done(a, s, failed).phase = "steps"
      BY <1>1
    <3> HIDE DEF SetUndo
    <3> QED BY ONLY <3>1, <3>2, <3>3, Zenon
  <2> QED BY <1>1, <2>1, <2>2
<1>7. CASE ClaimStepUndo(a)
  BY <1>1, <1>7 DEF ClaimStepUndo, Undos
<1>8. CASE Recheck(a)
  BY <1>1, <1>8 DEF Recheck, Undos
<1>9. CASE RunInverse(a)
  BY <1>1, <1>9 DEF RunInverse, Undos
<1>10. CASE Reread(a)
  BY <1>1, <1>10 DEF Reread, Undos
<1>11. CASE MarkReverted(a)
  BY <1>1, <1>11 DEF MarkReverted
<1>12. CASE UndoStepFails(a)
  BY <1>1, <1>12 DEF UndoStepFails, Undos
<1>13. CASE GiveUpStep(a)
  BY <1>1, <1>13 DEF GiveUpStep
<1>14. CASE FinishUndo(a)
  BY <1>1, <1>14, StepsAssumption DEF FinishUndo, TypeOK
<1>15. CASE FinishUndoFails(a)
  BY <1>1, <1>15, StepsAssumption DEF FinishUndoFails, TypeOK
<1> QED BY <1>2, <1>3, <1>4, <1>5, <1>6, <1>7, <1>8, <1>9, <1>10, <1>11, <1>12, <1>13,
           <1>14, <1>15 DEF UndoSteps

\* Every step keeps those at work in the window, one action at a time.
LEMMA WindowNext ==
    ASSUME TypeOK, WindowInv, [Next]_vars, "overlap" \notin Faults
    PROVE  WindowInv'
<1>1. CASE UNCHANGED vars
  BY <1>1 DEF WindowInv, vars, Working, Undoing, Inside
<1>2. CASE Restart
  BY <1>2, StepsAssumption DEF Restart, WindowInv, Working, Undoing, Inside, NoUndo
<1>3. ASSUME NEW o \in Objects, UserEdits(o) PROVE WindowInv'
  BY <1>3 DEF UserEdits, WindowInv, Working, Undoing, Inside, call, win
<1> QED BY <1>1, <1>2, <1>3, WindowCall, WindowUndo DEF Next

\* Only one action at a time is between planning a change and recording it, or
\* replaying inverses, unless a call and an undo of one action overlap.
THEOREM WindowCorrect ==
    ASSUME "overlap" \notin Faults
    PROVE  Spec => []WindowExclusive
<1>1. Init => TypeOK /\ WindowInv
  BY TypeInit, WindowInit
<1>2. TypeOK /\ WindowInv /\ [Next]_vars => (TypeOK /\ WindowInv)'
  BY TypeNext, WindowNext
<1>3. WindowInv => WindowExclusive
  BY DEF WindowInv, WindowExclusive, Inside
<1> QED BY <1>1, <1>2, <1>3, PTL DEF Spec
-----------------------------------------------------------------------------
(***************************************************************************)
(* Edits of the user.                                                      *)
(***************************************************************************)

\* What the undo may compare with: a step that it does not pass over has no
\* edit of the user as its post-image.
Telling(row) == row.after = Edited => row.status \in Passed

RowTells(s) == /\ Telling(step[s])
               /\ ActionOf[s] \in Notes => step[s].after # Edited

\* What an undo has read of a row is what the row still says.
SeenTells(a, s) ==
    undo[a].phase # "idle" =>
        Telling(undo[a].seen[s]) /\ step[s].after = undo[a].seen[s].after

\* A call that may still write or record has not recorded an edit, and what
\* it records is its own.
CallTells(a) ==
    /\ resumed[a] => a \in Notes
    /\ phase[a] \in {"claim", "claim_action", "write", "reconcile", "clean",
                     "record", "rerecord", "uncertain", "failed"} =>
          step[at[a]].after # Edited
    /\ phase[a] \in {"record", "rerecord"} /\ out[a] # "none" => target[Object(a)] # Edited
    /\ phase[a] \in {"record", "rerecord"} /\ a \in Notes => out[a] # "none"

\* An undo that replays a step has found the agent's own value in place.
UndoTells(a) ==
    /\ undo[a].phase \in Replaying => undo[a].seen[undo[a].at].status \notin Passed
    /\ undo[a].phase = "inverse" => target[TargetOf[undo[a].at]] # Edited

EditInv ==
    /\ \A s \in Steps : RowTells(s)
    /\ \A a \in Actions : \A s \in StepsOf(a) : SeenTells(a, s)
    /\ \A a \in Actions : CallTells(a) /\ UndoTells(a)

\* Nothing is edited at the start.
LEMMA EditInit == Init => EditInv
BY StepFacts, Values
   DEF Init, EditInv, RowTells, Telling, SeenTells, CallTells, UndoTells, NoRow, NoUndo,
       NoImage, Edited, Replaying

\* What a step of a call leaves alone.
CallFrame(a) ==
    /\ undo' = undo
    /\ \A s \in Steps : ActionOf[s] # a => step'[s] = step[s]
    /\ \A b \in Actions \ {a} : /\ phase'[b] = phase[b] /\ at'[b] = at[b]
                                /\ resumed'[b] = resumed[b] /\ out'[b] = out[b]
    /\ \A o \in Objects : target'[o] = target[o] \/ target'[o] \in Steps

\* A call that keeps its own part of the invariant keeps all of it.
LEMMA CallKeepsOthers ==
    ASSUME TypeOK, WindowInv, EditInv, NEW a \in Actions, undo[a].phase = "idle",
           CallFrame(a), CallTells(a)', \A s \in StepsOf(a) : RowTells(s)'
    PROVE  EditInv'
<1>1. ASSUME NEW s \in Steps PROVE RowTells(s)'
  <2>1. CASE ActionOf[s] = a
    BY <2>1 DEF StepsOf
  <2>2. CASE ActionOf[s] # a
    BY <2>2 DEF CallFrame, RowTells, Telling, EditInv
  <2> QED BY <2>1, <2>2
<1>2. ASSUME NEW b \in Actions, NEW s \in StepsOf(b) PROVE SeenTells(b, s)'
  <2>1. undo' = undo /\ SeenTells(b, s)
    BY <1>2 DEF CallFrame, EditInv
  <2>2. CASE b = a
    BY <2>1, <2>2 DEF SeenTells
  <2>3. CASE b # a
    <3>1. s \in Steps /\ ActionOf[s] # a
      BY <1>2, <2>3 DEF StepsOf
    <3>2. step'[s] = step[s]
      BY <3>1 DEF CallFrame
    <3> QED BY <2>1, <3>2 DEF SeenTells
  <2> QED BY <2>2, <2>3
<1>3. ASSUME NEW b \in Actions PROVE CallTells(b)'
  <2>1. CASE b = a
    BY <2>1
  <2>2. CASE b # a
    <3>1. at[b] \in Steps /\ ActionOf[at[b]] = b /\ Object(b) \in Objects
      BY AtType, StepFacts DEF TypeOK
    <3>2. step'[at'[b]] = step[at[b]] /\ Object(b)' = Object(b)
      BY <2>2, <3>1 DEF CallFrame, Object
    <3>3. target[Object(b)] # Edited => target'[Object(b)] # Edited
      BY <3>1, Values DEF CallFrame
    <3> QED BY <2>2, <3>2, <3>3 DEF CallFrame, CallTells, EditInv
  <2> QED BY <2>1, <2>2
<1>4. ASSUME NEW b \in Actions PROVE UndoTells(b)'
  <2>1. undo[b].phase = "inverse" => TargetOf[undo[b].at] \in Objects
    BY StepFacts DEF TypeOK, Undos, Replaying
  <2> QED BY <2>1, Values DEF CallFrame, UndoTells, EditInv
<1> QED BY <1>1, <1>2, <1>3, <1>4 DEF EditInv

\* A step of a call never takes an edit for what it wrote.
LEMMA EditCall ==
    ASSUME TypeOK, WindowInv, EditInv, NEW a \in Actions,
           CallSteps(a) \/ Begin(a) \/ Resume(a), "overlap" \notin Faults
    PROVE  EditInv'
<1>1. undo[a].phase = "idle"
  BY DEF CallSteps, Begin, Resume, Apart, WindowInv, TypeOK, EnterWindow, Prepare, ClaimStep,
         ClaimAction, ClaimFails, Refuse, WriteLibrary, WriteNote, Reconcile, TryOnceMore,
         Record, RecordFails, StepFails, Finish, FinishFails, Settle
<1>2. /\ at[a] \in Steps /\ at[a] \in StepsOf(a) /\ ActionOf[at[a]] = a
      /\ Object(a) \in Objects /\ at[a] # Edited
      /\ DOMAIN step = Steps /\ DOMAIN target = Objects /\ step[at[a]] \in Rows
      /\ DOMAIN phase = Actions /\ DOMAIN at = Actions /\ DOMAIN resumed = Actions
      /\ DOMAIN out = Actions
  <2>1. at[a] \in StepsOf(a)
    BY DEF TypeOK
  <2>2. /\ at[a] \in Steps /\ ActionOf[at[a]] = a /\ Object(a) \in Objects /\ at[a] # Edited
    BY <2>1, AtType, StepFacts, Values
  <2> QED BY <2>1, <2>2 DEF TypeOK
<1>3. CallTells(a) /\ \A s \in Steps : RowTells(s)
  BY DEF EditInv
<1> DEFINE Own == CallTells(a)' /\ \A s \in StepsOf(a) : RowTells(s)'
<1>4. SUFFICES CallFrame(a) /\ Own
  BY <1>1, CallKeepsOthers
<1>5. ASSUME NEW status \in StepStatus, SetRow(a, status)
      PROVE  /\ step'[at[a]].status = status /\ step'[at[a]].after = step[at[a]].after
             /\ \A s \in Steps \ {at[a]} : step'[s] = step[s]
  BY <1>2, <1>5 DEF SetRow, Rows
<1>24. ASSUME NEW status \in StepStatus, SetRow(a, status),
              status \in Passed \/ step[at[a]].after # Edited
       PROVE  \A s \in StepsOf(a) : RowTells(s)'
  <2>1. ASSUME NEW s \in StepsOf(a), s = at[a] PROVE RowTells(s)'
    BY <1>2, <1>3, <1>5, <1>24, <2>1 DEF RowTells, Telling
  <2>2. ASSUME NEW s \in StepsOf(a), s # at[a] PROVE RowTells(s)'
    BY <1>3, <1>5, <1>24, <2>2, StepFacts DEF RowTells, Telling
  <2> QED BY <2>1, <2>2
<1>25. UNCHANGED step => \A s \in StepsOf(a) : RowTells(s)'
  BY <1>3, StepFacts DEF RowTells, Telling
<1> USE <1>2
<1> USE DEF GoTo
<1>6. CASE Begin(a)
  <2>1. CallFrame(a)
    BY <1>6, StepFacts DEF Begin, CallFrame
  <2>2. CallTells(a)'
    BY <1>3, <1>6, Values DEF Begin, CallTells, RowTells, Object
  <2>3. \A s \in StepsOf(a) : RowTells(s)'
    BY <1>3, <1>6, Values, StepFacts DEF Begin, CallTells, RowTells, Telling
  <2> QED BY <2>1, <2>2, <2>3
<1>7. CASE Resume(a)
  <2>1. CallFrame(a)
    BY <1>7, StepFacts DEF Resume, CallFrame
  <2>2. CallTells(a)'
    BY <1>3, <1>7, Values DEF Resume, CallTells, RowTells, Object
  <2>3. \A s \in StepsOf(a) : RowTells(s)'
    BY <1>3, <1>7, Values, StepFacts DEF Resume, CallTells, RowTells, Telling
  <2> QED BY <2>1, <2>2, <2>3
<1>8. CASE EnterWindow(a)
  <2>1. CallFrame(a)
    BY <1>8, StepFacts DEF EnterWindow, CallFrame
  <2>2. CallTells(a)'
    BY <1>3, <1>8, Values DEF EnterWindow, CallTells, RowTells, Object
  <2>3. \A s \in StepsOf(a) : RowTells(s)'
    BY <1>3, <1>8, Values, StepFacts DEF EnterWindow, CallTells, RowTells, Telling
  <2> QED BY <2>1, <2>2, <2>3
<1>9. CASE Prepare(a)
  <2>1. CallFrame(a)
    BY <1>9, StepFacts DEF Prepare, CallFrame
  <2>2. CallTells(a)'
    BY <1>3, <1>9, Values DEF Prepare, CallTells, RowTells, Object
  <2>3. \A s \in StepsOf(a) : RowTells(s)'
    <3>1. step'[at[a]].after # Edited /\ \A s \in Steps \ {at[a]} : step'[s] = step[s]
      BY <1>9, Values DEF Prepare
    <3> QED BY <1>3, <3>1, StepFacts DEF RowTells, Telling
  <2> QED BY <2>1, <2>2, <2>3
<1>10. CASE ClaimStep(a)
  <2>1. CallFrame(a)
    BY <1>10, <1>5, Statuses, StepFacts DEF ClaimStep, CallFrame
  <2>2. CallTells(a)'
    BY <1>3, <1>10, <1>5, Statuses, Values DEF ClaimStep, CallTells, RowTells, Object
  <2>3. \A s \in StepsOf(a) : RowTells(s)'
    BY <1>3, <1>10, <1>5, Statuses, Values, StepFacts DEF ClaimStep, CallTells, RowTells, Telling, Passed
  <2> QED BY <2>1, <2>2, <2>3
<1>11. CASE ClaimAction(a)
  <2>1. CallFrame(a)
    BY <1>11, StepFacts DEF ClaimAction, CallFrame
  <2>2. CallTells(a)'
    BY <1>3, <1>11, Values DEF ClaimAction, CallTells, RowTells, Object
  <2>3. \A s \in StepsOf(a) : RowTells(s)'
    BY <1>3, <1>11, Values, StepFacts DEF ClaimAction, CallTells, RowTells, Telling
  <2> QED BY <2>1, <2>2, <2>3
<1>12. CASE ClaimFails(a)
  <2>1. CallFrame(a)
    BY <1>12, StepFacts DEF ClaimFails, CallFrame
  <2>2. CallTells(a)'
    BY <1>3, <1>12, Values DEF ClaimFails, CallTells, RowTells, Object
  <2>3. \A s \in StepsOf(a) : RowTells(s)'
    BY <1>3, <1>12, Values, StepFacts DEF ClaimFails, CallTells, RowTells, Telling
  <2> QED BY <2>1, <2>2, <2>3
<1>13. CASE Refuse(a)
  <2>1. CallFrame(a)
    BY <1>13, <1>5, Statuses, StepFacts DEF Refuse, CallFrame
  <2>2. CallTells(a)'
    BY <1>3, <1>13, <1>5, Statuses, Values DEF Refuse, CallTells, RowTells, Object
  <2>3. \A s \in StepsOf(a) : RowTells(s)'
    BY <1>3, <1>13, <1>24, <1>25, Statuses DEF Refuse, CallTells, Passed
  <2> QED BY <2>1, <2>2, <2>3
<1>14. CASE WriteLibrary(a)
  <2>1. CallFrame(a)
    BY <1>14, StepFacts DEF WriteLibrary, CallFrame
  <2>2. CallTells(a)'
    BY <1>3, <1>14, Values DEF WriteLibrary, CallTells, RowTells, Object
  <2>3. \A s \in StepsOf(a) : RowTells(s)'
    BY <1>3, <1>14, Values, StepFacts DEF WriteLibrary, CallTells, RowTells, Telling
  <2> QED BY <2>1, <2>2, <2>3
<1>15. CASE WriteNote(a)
  <2>1. CallFrame(a)
    BY <1>15, StepFacts DEF WriteNote, CallFrame
  <2>2. CallTells(a)'
    BY <1>3, <1>15, Values DEF WriteNote, CallTells, RowTells, Object
  <2>3. \A s \in StepsOf(a) : RowTells(s)'
    BY <1>3, <1>15, Values, StepFacts DEF WriteNote, CallTells, RowTells, Telling
  <2> QED BY <2>1, <2>2, <2>3
<1>16. CASE Reconcile(a)
  <2>1. CallFrame(a)
    BY <1>16, StepFacts DEF Reconcile, CallFrame
  <2>2. CallTells(a)'
    BY <1>3, <1>16, Values DEF Reconcile, CallTells, RowTells, Object
  <2>3. \A s \in StepsOf(a) : RowTells(s)'
    BY <1>3, <1>16, Values, StepFacts DEF Reconcile, CallTells, RowTells, Telling
  <2> QED BY <2>1, <2>2, <2>3
<1>17. CASE TryOnceMore(a)
  <2>1. CallFrame(a)
    BY <1>17, StepFacts DEF TryOnceMore, CallFrame
  <2>2. CallTells(a)'
    BY <1>3, <1>17, Values DEF TryOnceMore, CallTells, RowTells, Object
  <2>3. \A s \in StepsOf(a) : RowTells(s)'
    BY <1>3, <1>17, Values, StepFacts DEF TryOnceMore, CallTells, RowTells, Telling
  <2> QED BY <2>1, <2>2, <2>3
<1>18. CASE Record(a)
  <2>1. CallFrame(a)
    BY <1>18, StepFacts DEF Record, CallFrame
  <2>2. CallTells(a)'
    BY <1>3, <1>18, Values DEF Record, CallTells, RowTells, Object
  <2>3. \A s \in StepsOf(a) : RowTells(s)'
    BY <1>3, <1>18, Values, StepFacts DEF Record, CallTells, RowTells, Telling, Passed, Outcome, Object
  <2> QED BY <2>1, <2>2, <2>3
<1>19. CASE RecordFails(a)
  <2>1. CallFrame(a)
    BY <1>19, StepFacts DEF RecordFails, CallFrame
  <2>2. CallTells(a)'
    BY <1>3, <1>19, Values DEF RecordFails, CallTells, RowTells, Object
  <2>3. \A s \in StepsOf(a) : RowTells(s)'
    BY <1>3, <1>19, Values, StepFacts DEF RecordFails, CallTells, RowTells, Telling
  <2> QED BY <2>1, <2>2, <2>3
<1>20. CASE StepFails(a)
  <2>1. CallFrame(a)
    BY <1>20, <1>5, Statuses, StepFacts DEF StepFails, CallFrame
  <2>2. CallTells(a)'
    BY <1>3, <1>20, <1>5, Statuses, Values DEF StepFails, CallTells, RowTells, Object
  <2>3. \A s \in StepsOf(a) : RowTells(s)'
    BY <1>3, <1>20, <1>24, <1>25, Statuses DEF StepFails, CallTells, Passed
  <2> QED BY <2>1, <2>2, <2>3
<1>21. CASE Finish(a)
  <2>1. CallFrame(a)
    BY <1>21, StepFacts DEF Finish, CallFrame
  <2>2. CallTells(a)'
    BY <1>3, <1>21, Values DEF Finish, CallTells, RowTells, Object
  <2>3. \A s \in StepsOf(a) : RowTells(s)'
    BY <1>3, <1>21, Values, StepFacts DEF Finish, CallTells, RowTells, Telling
  <2> QED BY <2>1, <2>2, <2>3
<1>22. CASE FinishFails(a)
  <2>1. CallFrame(a)
    BY <1>22, StepFacts DEF FinishFails, CallFrame
  <2>2. CallTells(a)'
    BY <1>3, <1>22, Values DEF FinishFails, CallTells, RowTells, Object
  <2>3. \A s \in StepsOf(a) : RowTells(s)'
    BY <1>3, <1>22, Values, StepFacts DEF FinishFails, CallTells, RowTells, Telling
  <2> QED BY <2>1, <2>2, <2>3
<1>23. CASE Settle(a)
  <2>1. CallFrame(a)
    BY <1>23, StepFacts DEF Settle, CallFrame
  <2>2. CallTells(a)'
    BY <1>3, <1>23, Values DEF Settle, CallTells, RowTells, Object
  <2>3. \A s \in StepsOf(a) : RowTells(s)'
    BY <1>3, <1>23, Values, StepFacts DEF Settle, CallTells, RowTells, Telling
  <2> QED BY <2>1, <2>2, <2>3
<1> QED BY <1>6, <1>7, <1>8, <1>9, <1>10, <1>11, <1>12, <1>13, <1>14, <1>15, <1>16, <1>17, <1>18, <1>19, <1>20, <1>21, <1>22, <1>23 DEF CallSteps

\* What a step of an undo leaves alone.
UndoFrame(a) ==
    /\ UNCHANGED call
    /\ \A s \in Steps : ActionOf[s] # a => step'[s] = step[s]
    /\ \A b \in Actions \ {a} : undo'[b] = undo[b]
    /\ \A o \in Objects : target'[o] = target[o] \/ window = a

\* An undo that keeps its own part of the invariant keeps all of it.
LEMMA UndoKeepsOthers ==
    ASSUME TypeOK, WindowInv, EditInv, NEW a \in Actions, phase[a] = "idle",
           UndoFrame(a), UndoTells(a)',
           \A s \in StepsOf(a) : RowTells(s)' /\ SeenTells(a, s)'
    PROVE  EditInv'
<1>1. ASSUME NEW s \in Steps PROVE RowTells(s)'
  <2>1. CASE ActionOf[s] = a
    BY <2>1 DEF StepsOf
  <2>2. CASE ActionOf[s] # a
    BY <2>2 DEF UndoFrame, RowTells, Telling, EditInv
  <2> QED BY <2>1, <2>2
<1>2. ASSUME NEW b \in Actions, NEW s \in StepsOf(b) PROVE SeenTells(b, s)'
  <2>1. CASE b = a
    BY <2>1
  <2>2. CASE b # a
    <3>1. SeenTells(b, s) /\ undo'[b] = undo[b]
      BY <2>2 DEF UndoFrame, EditInv
    <3>2. step'[s] = step[s]
      BY <2>2, StepFacts, ZenonT(60) DEF UndoFrame
    <3> QED BY <3>1, <3>2 DEF SeenTells
  <2> QED BY <2>1, <2>2
<1>3. ASSUME NEW b \in Actions PROVE CallTells(b)'
  <2>1. at[b] \in Steps /\ ActionOf[at[b]] = b /\ Object(b) \in Objects
    BY AtType, StepFacts DEF TypeOK
  <2>2. UNCHANGED <<phase, at, resumed, out>>
    BY DEF UndoFrame, call
  <2>3. CASE b = a
    BY <2>2, <2>3 DEF CallTells, EditInv
  <2>4. CASE b # a
    <3>1. step'[at'[b]] = step[at[b]] /\ Object(b)' = Object(b)
      BY <2>1, <2>2, <2>4 DEF UndoFrame, Object
    <3>2. phase[b] \in {"record", "rerecord"} => target'[Object(b)] = target[Object(b)]
      BY <2>1, <2>4 DEF UndoFrame, WindowInv, Working
    <3> QED BY <2>2, <3>1, <3>2 DEF CallTells, EditInv
  <2> QED BY <2>3, <2>4
<1>4. ASSUME NEW b \in Actions PROVE UndoTells(b)'
  <2>1. CASE b = a
    BY <2>1
  <2>2. CASE b # a
    <3>1. undo[b].phase = "inverse" =>
            target'[TargetOf[undo[b].at]] = target[TargetOf[undo[b].at]]
      BY <2>2, StepFacts DEF UndoFrame, WindowInv, Undoing, TypeOK, Undos, Replaying
    <3> QED BY <2>2, <3>1 DEF UndoFrame, UndoTells, EditInv
  <2> QED BY <2>1, <2>2
<1> QED BY <1>1, <1>2, <1>3, <1>4 DEF EditInv

\* A step of an undo passes over what was edited.
LEMMA EditUndo ==
    ASSUME TypeOK, WindowInv, EditInv, NEW a \in Actions,
           UndoSteps(a) \/ RequestUndo(a), "overlap" \notin Faults
    PROVE  EditInv'
<1>1. UNCHANGED call
  BY DEF UndoSteps, RequestUndo, ClaimUndo, ClaimUndoFails, UndoEnters, PickStep,
         ClaimStepUndo, Recheck, RunInverse, Reread, MarkReverted, UndoStepFails,
         GiveUpStep, FinishUndo, FinishUndoFails
<1>2. /\ undo[a] \in Undos(a) /\ DOMAIN undo = Actions
      /\ DOMAIN step = Steps /\ DOMAIN target = Objects /\ DOMAIN phase = Actions
  BY DEF TypeOK
<1>3. /\ undo[a].at \in StepsOf(a) \union {NoStep}
      /\ undo[a].phase \in Replaying => /\ undo[a].at \in StepsOf(a) /\ undo[a].at \in Steps
                                        /\ TargetOf[undo[a].at] \in Objects
                                        /\ undo[a].seen[undo[a].at] \in Rows
  BY <1>2, StepFacts DEF Undos, Replaying
<1>4. UndoTells(a) /\ \A s \in StepsOf(a) : RowTells(s) /\ SeenTells(a, s)
  BY StepFacts DEF EditInv
<1>5. undo[a].phase # "idle" => phase[a] = "idle"
  BY DEF WindowInv
<1>6. Undoing(a) => window = a
  BY DEF WindowInv
<1>7. \A s, failed : /\ Done(a, s, failed).phase = "steps"
                     /\ Done(a, s, failed).seen = undo[a].seen
  BY <1>2 DEF Done, Undos
<1>8. \A p : /\ [undo[a] EXCEPT !.phase = p].phase = p
             /\ [undo[a] EXCEPT !.phase = p].seen = undo[a].seen
             /\ [undo[a] EXCEPT !.phase = p].at = undo[a].at
  BY <1>2 DEF Undos
<1>9. NoUndo(a).phase = "idle"
  BY DEF NoUndo
\* Undo records and rows change at a only.
<1>10. ASSUME NEW u, SetUndo(a, u)
       PROVE  undo'[a] = u /\ \A b \in Actions \ {a} : undo'[b] = undo[b]
  BY <1>2, <1>10 DEF SetUndo
<1>11. ASSUME NEW s \in Steps, NEW status \in StepStatus,
              step' = [step EXCEPT ![s].status = status]
       PROVE  /\ step'[s].status = status /\ step'[s].after = step[s].after
              /\ \A t \in Steps \ {s} : step'[t] = step[t]
  BY <1>11 DEF TypeOK, Rows
\* A row that is given another status still tells.
<1>12. ASSUME undo[a].phase \in Replaying, NEW status \in StepStatus,
              step' = [step EXCEPT ![undo[a].at].status = status]
       PROVE  \A s \in StepsOf(a) : RowTells(s)' /\ step'[s].after = step[s].after
  <2>1. /\ RowTells(undo[a].at) /\ SeenTells(a, undo[a].at)
        /\ undo[a].seen[undo[a].at].status \notin Passed /\ undo[a].phase # "idle"
    BY <1>3, <1>4, <1>12 DEF UndoTells, Replaying
  <2>2. step[undo[a].at].after # Edited
    BY <2>1 DEF SeenTells, Telling
  <2>3. /\ step'[undo[a].at].after = step[undo[a].at].after
        /\ \A t \in Steps \ {undo[a].at} : step'[t] = step[t]
    BY <1>3, <1>11, <1>12
  <2>4. ASSUME NEW s \in StepsOf(a), s = undo[a].at PROVE RowTells(s)'
    BY <2>1, <2>2, <2>3, <2>4 DEF RowTells, Telling
  <2>5. ASSUME NEW s \in StepsOf(a), s # undo[a].at
        PROVE  RowTells(s)' /\ step'[s].after = step[s].after
    BY <1>4, <2>3, <2>5, StepFacts DEF RowTells, Telling
  <2> QED BY <2>3, <2>4, <2>5
<1>13. step' = step => \A s \in StepsOf(a) : RowTells(s)'
  BY <1>4 DEF RowTells, Telling
\* The undo goes on with the rows it has read.
<1>14. ASSUME NEW u, SetUndo(a, u), undo[a].phase # "idle",
              u.phase = "idle" \/ u.seen = undo[a].seen,
              \A s \in StepsOf(a) : u.phase = "idle" \/ step'[s].after = step[s].after
       PROVE  \A s \in StepsOf(a) : SeenTells(a, s)'
  BY <1>4, <1>10, <1>14 DEF SeenTells
<1> DEFINE Own == UndoTells(a)' /\ \A s \in StepsOf(a) : RowTells(s)' /\ SeenTells(a, s)'
<1>15. ASSUME phase[a] = "idle", UndoFrame(a), Own PROVE EditInv'
  BY <1>15, UndoKeepsOthers
<1>16. CASE RequestUndo(a)
  <2> DEFINE u == [phase |-> "claim_action", at |-> NoStep, failed |-> FALSE,
                   seen |-> [s \in StepsOf(a) |-> step[s]],
                   todo |-> {s \in StepsOf(a) : step[s].status # "absent"}]
  <2>1. phase[a] = "idle" /\ SetUndo(a, u) /\ step' = step /\ target' = target
    BY <1>16 DEF RequestUndo, Apart
  <2>2. undo'[a] = u /\ \A b \in Actions \ {a} : undo'[b] = undo[b]
    BY <1>10, <2>1
  <2>3. UndoFrame(a)
    BY <1>1, <2>1, <2>2 DEF UndoFrame
  <2>4. UndoTells(a)'
    BY <2>2 DEF UndoTells, Replaying
  <2>5. \A s \in StepsOf(a) : SeenTells(a, s)'
    BY <1>4, <2>1, <2>2 DEF SeenTells, RowTells
  <2> QED BY <1>13, <1>15, <2>1, <2>3, <2>4, <2>5
\* It goes to another phase, or it is over, and nothing else changes.
<1>17. ASSUME NEW p, UndoAt(a, p), undo[a].phase # "idle", p \in Replaying => undo[a].phase \in Replaying,
              p = "inverse" => target[TargetOf[undo[a].at]] # Edited,
              \A s \in StepsOf(a) : step'[s].after = step[s].after, target' = target
       PROVE  UndoTells(a)' /\ \A s \in StepsOf(a) : SeenTells(a, s)'
  <2>1. SetUndo(a, [undo[a] EXCEPT !.phase = p])
    BY <1>17 DEF UndoAt
  <2>2. undo'[a] = [undo[a] EXCEPT !.phase = p]
    BY <1>10, <2>1
  <2>3. \A s \in StepsOf(a) : SeenTells(a, s)'
    BY <1>8, <1>14, <1>17, <2>1
  <2>4. UndoTells(a)'
    BY <1>4, <1>8, <1>17, <2>2 DEF UndoTells
  <2> QED BY <2>3, <2>4
<1>18. ASSUME NEW u, SetUndo(a, u), u.phase \in {"idle", "steps"}, undo[a].phase # "idle",
              u.phase = "idle" \/ u.seen = undo[a].seen,
              \A s \in StepsOf(a) : u.phase = "idle" \/ step'[s].after = step[s].after
       PROVE  UndoTells(a)' /\ \A s \in StepsOf(a) : SeenTells(a, s)'
  <2>1. undo'[a] = u
    BY <1>10, <1>18
  <2> QED BY <1>14, <1>18, <2>1 DEF UndoTells, Replaying
<1>19. ASSUME NEW u, SetUndo(a, u), \A s \in Steps : ActionOf[s] # a => step'[s] = step[s],
              target' = target \/ window = a
       PROVE  UndoFrame(a)
  BY <1>1, <1>10, <1>19 DEF UndoFrame
<1>20. CASE ClaimUndo(a)
  <2>1. /\ undo[a].phase = "claim_action" /\ step' = step /\ target' = target
        /\ UndoAt(a, "enter") \/ SetUndo(a, NoUndo(a))
    BY <1>20 DEF ClaimUndo
  <2>2. UndoTells(a)' /\ \A s \in StepsOf(a) : SeenTells(a, s)'
    <3>1. CASE UndoAt(a, "enter")
      BY <1>17, <2>1, <3>1 DEF Replaying
    <3>2. CASE SetUndo(a, NoUndo(a))
      BY <1>9, <1>18, <2>1, <3>2
    <3> QED BY <2>1, <3>1, <3>2
  <2>3. UndoFrame(a)
    BY <1>19, <2>1 DEF UndoAt
  <2> QED BY <1>5, <1>13, <1>15, <2>1, <2>2, <2>3
<1>21. CASE ClaimUndoFails(a)
  <2>1. undo[a].phase = "claim_action" /\ step' = step /\ target' = target /\ SetUndo(a, NoUndo(a))
    BY <1>21 DEF ClaimUndoFails
  <2>2. UndoTells(a)' /\ (\A s \in StepsOf(a) : SeenTells(a, s)') /\ UndoFrame(a)
    BY <1>9, <1>18, <1>19, <2>1
  <2> QED BY <1>5, <1>13, <1>15, <2>1, <2>2
<1>22. CASE UndoEnters(a)
  <2>1. undo[a].phase = "enter" /\ step' = step /\ target' = target /\ UndoAt(a, "steps")
    BY <1>22 DEF UndoEnters
  <2>2. UndoTells(a)' /\ \A s \in StepsOf(a) : SeenTells(a, s)'
    BY <1>17, <2>1 DEF Replaying
  <2>3. UndoFrame(a)
    BY <1>19, <2>1 DEF UndoAt
  <2> QED BY <1>5, <1>13, <1>15, <2>1, <2>2, <2>3
<1>23. CASE PickStep(a)
  <2>1. undo[a].phase = "steps" /\ step' = step /\ target' = target
    BY <1>23 DEF PickStep
  <2>2. PICK s \in Last(a) :
          \/ SetUndo(a, Done(a, s, FALSE)) \/ SetUndo(a, Done(a, s, TRUE))
          \/ /\ SetUndo(a, [undo[a] EXCEPT !.phase = "claim", !.at = s])
             /\ undo[a].seen[s].status \notin Passed
    BY <1>23 DEF PickStep, Seen
  <2> DEFINE c == [undo[a] EXCEPT !.phase = "claim", !.at = s]
  <2>3. c.phase = "claim" /\ c.seen = undo[a].seen /\ c.at = s
    BY <1>2 DEF Undos
  <2>4. UndoTells(a)' /\ \A t \in StepsOf(a) : SeenTells(a, t)'
    <3>1. CASE SetUndo(a, c) /\ undo[a].seen[s].status \notin Passed
      <4>1. undo'[a] = c
        BY <1>10, <3>1
      <4>2. UndoTells(a)'
        BY <2>3, <3>1, <4>1 DEF UndoTells
      <4> QED BY <1>14, <2>1, <2>3, <3>1, <4>2
    <3>2. ASSUME NEW failed \in BOOLEAN, SetUndo(a, Done(a, s, failed))
          PROVE  UndoTells(a)' /\ \A t \in StepsOf(a) : SeenTells(a, t)'
      <4>1. undo'[a] = Done(a, s, failed)
        BY <1>10, <3>2
      <4>2. UndoTells(a)'
        BY <1>7, <4>1 DEF UndoTells, Replaying
      <4> QED BY <1>7, <1>14, <2>1, <3>2, <4>2
    <3> QED BY <2>2, <3>1, <3>2
  <2>5. UndoFrame(a)
    BY <1>1, <1>10, <2>1, <2>2 DEF UndoFrame
  <2> QED BY <1>5, <1>13, <1>15, <2>1, <2>4, <2>5
<1>24. CASE ClaimStepUndo(a)
  <2>1. /\ undo[a].phase = "claim" /\ target' = target
        /\ \/ UndoAt(a, "give_up") /\ step' = step
           \/ /\ UndoAt(a, "recheck")
              /\ step' = [step EXCEPT ![undo[a].at].status = "reverting"]
    BY <1>24 DEF ClaimStepUndo
  <2>2. \A s \in StepsOf(a) : RowTells(s)' /\ step'[s].after = step[s].after
    BY <1>12, <1>13, <2>1, Statuses DEF Replaying
  <2>3. UndoTells(a)' /\ \A s \in StepsOf(a) : SeenTells(a, s)'
    BY <1>17, <2>1, <2>2 DEF Replaying
  <2>4. \A s \in Steps : ActionOf[s] # a => step'[s] = step[s]
    BY <1>3, <1>11, <2>1, Statuses, StepFacts DEF Replaying
  <2>5. UndoFrame(a)
    BY <1>19, <2>1, <2>4 DEF UndoAt
  <2> QED BY <1>5, <1>15, <2>1, <2>2, <2>3, <2>5
<1>25. CASE Recheck(a)
  <2>1. undo[a].phase = "recheck" /\ step' = step /\ target' = target
    BY <1>25 DEF Recheck
  <2>2. Telling(undo[a].seen[undo[a].at]) /\ undo[a].seen[undo[a].at].status \notin Passed
    BY <1>3, <1>4, <2>1 DEF SeenTells, UndoTells, Replaying
  <2>3. undo[a].seen[undo[a].at].after # Edited
    BY <2>2 DEF Telling
  <2>4. PICK p \in {"mark", "inverse", "give_up"} :
          UndoAt(a, p) /\ (p = "inverse" => Intact(a, undo[a].at))
    BY <1>25 DEF Recheck
  <2>5. p = "inverse" => target[TargetOf[undo[a].at]] # Edited
    BY <2>3, <2>4 DEF Intact, Seen
  <2>6. UndoTells(a)' /\ \A s \in StepsOf(a) : SeenTells(a, s)'
    BY <1>17, <2>1, <2>4, <2>5 DEF Replaying
  <2>7. UndoFrame(a)
    BY <1>19, <2>1, <2>4 DEF UndoAt
  <2> QED BY <1>5, <1>13, <1>15, <2>1, <2>6, <2>7
<1>26. CASE RunInverse(a)
  <2>1. /\ undo[a].phase = "inverse" /\ step' = step /\ window = a
        /\ UndoAt(a, "reread") \/ UndoAt(a, "give_up")
    BY <1>6, <1>26 DEF RunInverse, Undoing
  <2>2. PICK p \in {"reread", "give_up"} : UndoAt(a, p)
    BY <2>1
  <2>3. SetUndo(a, [undo[a] EXCEPT !.phase = p])
    BY <2>2 DEF UndoAt
  <2>4. UndoTells(a)'
    <3>1. undo'[a] = [undo[a] EXCEPT !.phase = p]
      BY <1>10, <2>3
    <3>2. undo'[a].phase = p /\ undo'[a].seen = undo[a].seen /\ undo'[a].at = undo[a].at
      BY <1>8, <3>1
    <3> QED BY <1>4, <2>1, <3>2 DEF UndoTells, Replaying
  <2>5. \A s \in StepsOf(a) : SeenTells(a, s)'
    BY <1>8, <1>14, <2>1, <2>3
  <2>6. UndoFrame(a)
    BY <1>19, <2>1, <2>3
  <2> QED BY <1>5, <1>13, <1>15, <2>1, <2>4, <2>5, <2>6
<1>27. CASE Reread(a)
  <2>1. /\ undo[a].phase = "reread" /\ step' = step /\ target' = target
        /\ UndoAt(a, "mark") \/ UndoAt(a, "give_up")
    BY <1>27 DEF Reread
  <2>2. UndoTells(a)' /\ \A s \in StepsOf(a) : SeenTells(a, s)'
    BY <1>17, <2>1 DEF Replaying
  <2>3. UndoFrame(a)
    BY <1>19, <2>1 DEF UndoAt
  <2> QED BY <1>5, <1>13, <1>15, <2>1, <2>2, <2>3
<1>28. CASE MarkReverted(a)
  <2>1. /\ undo[a].phase = "mark" /\ target' = target
        /\ step' = [step EXCEPT ![undo[a].at].status = "reverted"]
        /\ SetUndo(a, Done(a, undo[a].at, FALSE))
    BY <1>28 DEF MarkReverted
  <2>2. \A s \in StepsOf(a) : RowTells(s)' /\ step'[s].after = step[s].after
    BY <1>12, <2>1, Statuses DEF Replaying
  <2>3. UndoTells(a)' /\ \A s \in StepsOf(a) : SeenTells(a, s)'
    BY <1>7, <1>18, <2>1, <2>2
  <2>4. \A s \in Steps : ActionOf[s] # a => step'[s] = step[s]
    BY <1>3, <1>11, <2>1, Statuses, StepFacts DEF Replaying
  <2>5. UndoFrame(a)
    BY <1>19, <2>1, <2>4
  <2> QED BY <1>5, <1>15, <2>1, <2>2, <2>3, <2>5
<1>29. CASE UndoStepFails(a)
  <2>1. /\ undo[a].phase \in {"claim", "mark"} /\ step' = step /\ target' = target
        /\ UndoAt(a, "give_up")
    BY <1>29 DEF UndoStepFails
  <2>2. UndoTells(a)' /\ \A s \in StepsOf(a) : SeenTells(a, s)'
    BY <1>17, <2>1 DEF Replaying
  <2>3. UndoFrame(a)
    BY <1>19, <2>1 DEF UndoAt
  <2> QED BY <1>5, <1>13, <1>15, <2>1, <2>2, <2>3
<1>30. CASE GiveUpStep(a)
  <2>1. /\ undo[a].phase = "give_up" /\ target' = target
        /\ \/ step' = [step EXCEPT ![undo[a].at].status = "revert_failed"]
           \/ step' = step
        /\ SetUndo(a, Done(a, undo[a].at, TRUE))
    BY <1>30 DEF GiveUpStep
  <2>2. \A s \in StepsOf(a) : RowTells(s)' /\ step'[s].after = step[s].after
    BY <1>12, <1>13, <2>1, Statuses DEF Replaying
  <2>3. UndoTells(a)' /\ \A s \in StepsOf(a) : SeenTells(a, s)'
    BY <1>7, <1>18, <2>1, <2>2
  <2>4. \A s \in Steps : ActionOf[s] # a => step'[s] = step[s]
    BY <1>3, <1>11, <2>1, Statuses, StepFacts DEF Replaying
  <2>5. UndoFrame(a)
    BY <1>19, <2>1, <2>4
  <2> QED BY <1>5, <1>15, <2>1, <2>2, <2>3, <2>5
<1>31. CASE FinishUndo(a)
  <2>1. /\ undo[a].phase = "steps" /\ target' = target /\ SetUndo(a, NoUndo(a))
        /\ \/ step' = step
           \/ step' = [s \in Steps |-> IF ActionOf[s] = a THEN Erased(step[s]) ELSE step[s]]
    BY <1>31 DEF FinishUndo
  <2>2. \A s \in StepsOf(a) : RowTells(s)'
    <3>1. CASE step' = step
      BY <1>13, <3>1
    <3>2. CASE step' = [s \in Steps |-> IF ActionOf[s] = a THEN Erased(step[s]) ELSE step[s]]
      <4>1. \A s \in StepsOf(a) : step'[s].after = NoImage
        BY <3>2, StepFacts, ErasedType DEF TypeOK
      <4> QED BY <4>1, Values DEF RowTells, Telling
    <3> QED BY <2>1, <3>1, <3>2
  <2>3. UndoTells(a)' /\ \A s \in StepsOf(a) : SeenTells(a, s)'
    BY <1>9, <1>18, <2>1
  <2>4. UndoFrame(a)
    BY <1>19, <2>1
  <2> QED BY <1>5, <1>15, <2>1, <2>2, <2>3, <2>4
<1>32. CASE FinishUndoFails(a)
  <2>1. undo[a].phase = "steps" /\ step' = step /\ target' = target /\ SetUndo(a, NoUndo(a))
    BY <1>32 DEF FinishUndoFails
  <2>2. UndoTells(a)' /\ (\A s \in StepsOf(a) : SeenTells(a, s)') /\ UndoFrame(a)
    BY <1>9, <1>18, <1>19, <2>1
  <2> QED BY <1>5, <1>13, <1>15, <2>1, <2>2
<1> QED BY <1>16, <1>20, <1>21, <1>22, <1>23, <1>24, <1>25, <1>26, <1>27, <1>28, <1>29, <1>30,
           <1>31, <1>32 DEF UndoSteps

\* A restart forgets who was at work; a row that said nothing was to be taken
\* back still says so.
LEMMA EditRestart ==
    ASSUME TypeOK, EditInv, Restart
    PROVE  EditInv'
<1>1. \A a \in Actions : phase'[a] = "idle" /\ undo'[a].phase = "idle" /\ resumed'[a] = resumed[a]
  BY DEF Restart, NoUndo
<1>2. ASSUME NEW s \in Steps
      PROVE  /\ step'[s].after \in {step[s].after, NoImage}
             /\ step[s].status \in Passed => step'[s].status \in Passed
  <2>1. step[s] \in Rows /\ step[s].status \in StepStatus
    BY DEF TypeOK, Rows
  <2> DEFINE row == [step[s] EXCEPT !.status = RecoveredStep(@)]
  <2>2. step'[s] = row \/ step'[s] = Erased(row)
    BY DEF Restart
  <2>3. /\ row.status = RecoveredStep(step[s].status) /\ row.after = step[s].after
        /\ Erased(row).status = row.status /\ Erased(row).after = NoImage
    BY <2>1 DEF Rows, Erased, NoRow
  <2> HIDE DEF row
  <2> QED BY <2>1, <2>2, <2>3, RecoveredStepType
<1>3. \A s \in Steps : RowTells(s)'
  BY <1>2, Values DEF EditInv, RowTells, Telling
<1>4. \A a \in Actions : CallTells(a)' /\ UndoTells(a)' /\ \A s \in StepsOf(a) : SeenTells(a, s)'
  BY <1>1 DEF EditInv, CallTells, UndoTells, SeenTells, Replaying
<1> QED BY <1>3, <1>4 DEF EditInv

\* An edit in the middle of somebody's work is told apart from any other.
LEMMA EditUser ==
    ASSUME TypeOK, EditInv, NEW o \in Objects, UserEdits(o)
    PROVE  EditInv'
<1>1. UNCHANGED <<step, undo, phase, at, resumed, out>>
  BY DEF UserEdits, call
<1>2. \A s \in Steps : RowTells(s)'
  BY <1>1 DEF EditInv, RowTells, Telling
<1>3. \A a \in Actions : \A s \in StepsOf(a) : SeenTells(a, s)'
  BY <1>1 DEF EditInv, SeenTells
<1>4. ASSUME NEW v \in Objects, Busy(v), target[v] # Edited
      PROVE  target'[v] # Edited
  BY <1>4, EditedTo, Values DEF TypeOK
<1>5. ASSUME NEW a \in Actions PROVE CallTells(a)'
  <2>1. Object(a) \in Objects
    BY AtType
  <2>2. phase[a] \in {"record", "rerecord"} => Busy(Object(a))
    BY DEF Busy
  <2>3. phase[a] \in {"record", "rerecord"} /\ target[Object(a)] # Edited =>
            target'[Object(a)] # Edited
    BY <1>4, <2>1, <2>2
  <2> QED BY <1>1, <2>3 DEF EditInv, CallTells, Object
<1>6. ASSUME NEW a \in Actions PROVE UndoTells(a)'
  <2>1. undo[a].phase = "inverse" => TargetOf[undo[a].at] \in Objects /\ Busy(TargetOf[undo[a].at])
    BY StepFacts DEF Busy, TypeOK, Undos, Replaying
  <2>2. undo[a].phase = "inverse" => target'[TargetOf[undo[a].at]] # Edited
    BY <1>4, <2>1 DEF EditInv, UndoTells
  <2> QED BY <1>1, <2>2 DEF EditInv, UndoTells
<1> QED BY <1>2, <1>3, <1>5, <1>6 DEF EditInv

\* Every step keeps what is known of edits.
LEMMA EditNext ==
    ASSUME TypeOK, WindowInv, EditInv, [Next]_vars, "overlap" \notin Faults
    PROVE  EditInv'
<1>1. CASE UNCHANGED vars
  BY <1>1 DEF EditInv, vars, RowTells, Telling, SeenTells, CallTells, UndoTells, Object
<1>2. CASE Next
  BY <1>2, EditCall, EditUndo, EditRestart, EditUser DEF Next
<1> QED BY <1>1, <1>2

\* Who takes an edit away is a call that writes.
LEMMA SparesStep ==
    ASSUME TypeOK, EditInv, [Next]_vars, NEW o \in Objects,
           target[o] = Edited, target'[o] \notin {Edited} \union MidEdits
    PROVE  \E a \in Actions : phase[a] \in {"write", "clean"} /\ Object(a) = o
<1>1. ASSUME NEW a \in Actions, WriteLibrary(a) \/ WriteNote(a) \/ TryOnceMore(a)
      PROVE  phase[a] \in {"write", "clean"} /\ Object(a) = o
  BY <1>1 DEF WriteLibrary, WriteNote, TryOnceMore, TypeOK
<1>2. ASSUME NEW a \in Actions, RunInverse(a) PROVE FALSE
  BY <1>2 DEF RunInverse, EditInv, UndoTells, TypeOK
<1>3. ASSUME NEW v \in Objects, UserEdits(v) PROVE FALSE
  BY <1>3, EditedTo DEF TypeOK
<1>4. target' # target
  OBVIOUS
<1>5. ASSUME NEW a \in Actions, Begin(a) \/ Resume(a) \/ RequestUndo(a) PROVE FALSE
  BY <1>4, <1>5 DEF Begin, Resume, RequestUndo
<1>6. ASSUME NEW a \in Actions, CallSteps(a)
      PROVE  WriteLibrary(a) \/ WriteNote(a) \/ TryOnceMore(a)
  BY <1>4, <1>6 DEF CallSteps, EnterWindow, Prepare, ClaimStep, ClaimAction, ClaimFails, Refuse,
         Reconcile, Record, RecordFails, StepFails, Finish, FinishFails, Settle
<1>7. ASSUME NEW a \in Actions, UndoSteps(a) PROVE RunInverse(a)
  BY <1>4, <1>7 DEF UndoSteps, ClaimUndo, ClaimUndoFails, UndoEnters, PickStep, ClaimStepUndo,
         Recheck, Reread, MarkReverted, UndoStepFails, GiveUpStep, FinishUndo, FinishUndoFails
<1>8. ~Restart /\ ~UNCHANGED vars
  BY <1>4 DEF Restart, vars
<1> QED BY <1>1, <1>2, <1>3, <1>5, <1>6, <1>7, <1>8 DEF Next

\* An undo never takes away what the user has made of an object since: only a
\* write of the agent replaces an edit.  The check before the inverse compares
\* with the post-image, and no post-image that counts is a user's edit.
THEOREM EditsSpared ==
    ASSUME "overlap" \notin Faults
    PROVE  Spec => UndoSparesEdits
<1>1. Init => TypeOK /\ WindowInv /\ EditInv
  BY TypeInit, WindowInit, EditInit
<1>2. TypeOK /\ WindowInv /\ EditInv /\ [Next]_vars => (TypeOK /\ WindowInv /\ EditInv)'
  BY TypeNext, WindowNext, EditNext
<1>3. TypeOK /\ WindowInv /\ EditInv /\ [Next]_vars =>
        [\A o \in Objects : target[o] = Edited /\ target'[o] \notin {Edited} \union MidEdits =>
             \E a \in Actions : phase[a] \in {"write", "clean"} /\ Object(a) = o]_vars
  BY SparesStep
<1> QED BY <1>1, <1>2, <1>3, PTL DEF Spec, UndoSparesEdits
-----------------------------------------------------------------------------
(***************************************************************************)
(* What the journal calls failed.                                          *)
(***************************************************************************)

\* A pre-image from which an inverse could put the step's value back.
KeptBefore(s) ==
    \/ \E t \in Steps : step[t].before = s
    \/ \E b \in Actions : \E t \in StepsOf(b) : undo[b].seen[t].before = s

\* What the step wrote is in the library, or can come back to it.
Kept(s) == KeptBefore(s) \/ \E o \in Objects : target[o] = s

Recorded == {"applied", "irreversible", "no_effect"}

\* A row whose change is about says that there was one.
RowFits(s) ==
    /\ step[s].status # "partially_applied"
    /\ Kept(s) => step[s].status \notin {"absent", "prepared", "failed"}

\* What the action's row says goes with what its steps' rows say.
ActionFits(a) ==
    \A s \in StepsOf(a) :
        /\ action[a] = "absent" => step[s].status = "absent"
        /\ action[a] \in {"prepared", "applying"} =>
               step[s].status \notin {"reverting", "revert_failed", "reverted"}
        /\ action[a] = "failed" /\ Kept(s) => step[s].status = "no_effect"

\* The steps before the one the call is at are recorded, the ones after it
\* have no row; the call's own change is about only after it was written.
CallFits(a) ==
    /\ ~resumed[a] /\ out[a] # "partial"
    /\ phase[a] # "idle" =>
         /\ action[a] \in {"absent", "prepared", "applying"}
         /\ \A s \in StepsOf(a) : /\ s > at[a] => step[s].status = "absent"
                                  /\ s < at[a] => step[s].status \in Recorded
    /\ phase[a] \in {"enter", "prepare"} => step[at[a]].status = "absent"
    /\ phase[a] \in {"claim_action", "write", "reconcile", "clean", "record", "rerecord",
                     "uncertain", "failed"} => step[at[a]].status = "applying"
    /\ phase[a] \in {"enter", "prepare", "claim", "claim_action", "refuse", "write",
                     "clean", "failed"} => ~Kept(at[a])
    /\ phase[a] \in {"reconcile", "record"} =>
         ~KeptBefore(at[a]) /\ \A o \in Objects \ {Object(a)} : target[o] # at[a]
    /\ phase[a] \in {"clean", "failed"} => a \in Notes
    /\ phase[a] = "finish" => \A s \in StepsOf(a) : step[s].status \in Recorded
    /\ phase[a] = "settle_failed" =>
         \A s \in StepsOf(a) : Kept(s) => a \notin Notes /\ step[s].status \in Recorded

\* An undo that goes on has claimed its action.
UndoFits(a) == undo[a].phase \notin {"idle", "claim_action"} => action[a] = "reverting"

KeptInv ==
    /\ \A s \in Steps : RowFits(s)
    /\ \A a \in Actions : ActionFits(a) /\ CallFits(a) /\ UndoFits(a)

\* Nothing is written at the start.
LEMMA KeptInit == Init => KeptInv
<1> SUFFICES ASSUME Init PROVE KeptInv
  OBVIOUS
<1>1. ASSUME NEW s \in Steps PROVE ~Kept(s)
  BY StepFacts, Values DEF Init, Kept, KeptBefore, NoUndo, NoRow, Original
<1>2. \A s \in Steps : step[s].status = "absent"
  BY DEF Init, NoRow
<1>3. \A a \in Actions : at[a] \in StepsOf(a) /\ undo[a].phase = "idle"
  BY DEF Init, NoUndo
<1>4. \A s \in Steps : RowFits(s)
  BY <1>1, <1>2 DEF RowFits
<1>5. ASSUME NEW a \in Actions PROVE ActionFits(a) /\ CallFits(a) /\ UndoFits(a)
  BY <1>1, <1>2, <1>3, StepFacts DEF Init, ActionFits, CallFits, UndoFits
<1> QED BY <1>4, <1>5 DEF KeptInv

\* What a step of the call or the undo of an action leaves alone, and where a
\* step's value may turn up that was not there before.
KeptFrame(a) ==
    /\ \A s \in Steps : ActionOf[s] # a => step'[s] = step[s]
    /\ \A b \in Actions \ {a} :
         /\ action'[b] = action[b] /\ undo'[b] = undo[b]
         /\ phase'[b] = phase[b] /\ at'[b] = at[b]
         /\ resumed'[b] = resumed[b] /\ out'[b] = out[b]
    /\ \A s \in Steps : KeptBefore(s)' => KeptBefore(s) \/ (Inside(a) /\ Kept(s))
    /\ \A s \in Steps, o \in Objects :
         target'[o] = s => target[o] = s \/ KeptBefore(s) \/ s = at[a]

\* Only the step the call is at can begin to be about.
LEMMA KeptGrows ==
    ASSUME NEW a \in Actions, KeptFrame(a), NEW s \in Steps, s # at[a], Kept(s)'
    PROVE  Kept(s)
BY DEF KeptFrame, Kept

\* A step that keeps the part of its own action keeps all of the invariant.
LEMMA KeptOthers ==
    ASSUME TypeOK, WindowInv, KeptInv, NEW a \in Actions, KeptFrame(a),
           \A s \in StepsOf(a) : RowFits(s)',
           ActionFits(a)', CallFits(a)', UndoFits(a)'
    PROVE  KeptInv'
<1>1. at[a] \in StepsOf(a)
  BY DEF TypeOK
<1>2. ASSUME NEW s \in Steps, ActionOf[s] # a
      PROVE  step'[s] = step[s] /\ (Kept(s)' => Kept(s))
  <2>1. s # at[a]
    BY <1>1, <1>2, StepFacts
  <2> QED BY <1>2, <2>1, KeptGrows DEF KeptFrame
<1>3. ASSUME NEW s \in Steps PROVE RowFits(s)'
  <2>1. CASE ActionOf[s] = a
    BY <2>1 DEF StepsOf
  <2>2. CASE ActionOf[s] # a
    BY <1>2, <2>2 DEF RowFits, KeptInv
  <2> QED BY <2>1, <2>2
<1>4. ASSUME NEW b \in Actions, b # a PROVE ActionFits(b)' /\ CallFits(b)' /\ UndoFits(b)'
  <2>1. \A s \in StepsOf(b) : step'[s] = step[s] /\ (Kept(s)' => Kept(s))
    BY <1>2, <1>4, StepFacts
  <2>2. /\ action'[b] = action[b] /\ undo'[b] = undo[b]
        /\ phase'[b] = phase[b] /\ at'[b] = at[b]
        /\ resumed'[b] = resumed[b] /\ out'[b] = out[b]
    BY <1>4 DEF KeptFrame
  <2>3. ActionFits(b) /\ CallFits(b) /\ UndoFits(b)
    BY DEF KeptInv
  <2>4. /\ at[b] \in StepsOf(b) /\ at[b] \in Steps /\ at[b] # at[a]
        /\ ActionOf[at[b]] = b /\ Object(b)' = Object(b)
    BY <1>1, <1>4, <2>2, StepFacts DEF TypeOK, Object
  <2>5. ActionFits(b)'
    BY <2>1, <2>2, <2>3 DEF ActionFits
  <2>6. UndoFits(b)'
    BY <2>2, <2>3 DEF UndoFits
  <2>7. PICK i \in Steps : i = at[b]
    BY <2>4
  <2>8. i = at'[b] /\ (Kept(i)' => Kept(i))
    BY <2>1, <2>2, <2>4, <2>7
  <2>9. phase[b] \in {"reconcile", "record"} /\ ~KeptBefore(i) =>
          ~KeptBefore(i)' /\ \A o \in Objects : target'[o] = i => target[o] = i
    <3>1. phase[b] \in {"reconcile", "record"} => ~Inside(a)
      BY <1>4 DEF WindowInv, Inside, Working
    <3> QED BY <2>4, <2>7, <3>1 DEF KeptFrame
  <2>10. CallFits(b)'
    BY <2>1, <2>2, <2>3, <2>4, <2>7, <2>8, <2>9 DEF CallFits
  <2> QED BY <2>5, <2>6, <2>10
<1> QED BY <1>3, <1>4 DEF KeptInv

\* Rows that keep their pre-images, with the undos as they were, put nothing
\* within an undo's reach.
LEMMA BeforeStays ==
    ASSUME undo' = undo, \A t \in Steps : step'[t].before = step[t].before, NEW s
    PROVE  KeptBefore(s)' => KeptBefore(s)
BY DEF KeptBefore

\* A step of a call that writes nothing: it is enough to look at its own rows
\* and where it goes on.
LEMMA KeptCallReads ==
    ASSUME TypeOK, WindowInv, KeptInv, NEW a \in Actions, "resume" \notin Faults,
           "partial" \notin Faults,
           Begin(a) \/ Resume(a) \/ EnterWindow(a) \/ ClaimAction(a) \/ ClaimFails(a) \/ Reconcile(a)
             \/ RecordFails(a) \/ Finish(a) \/ FinishFails(a) \/ Settle(a)
    PROVE  KeptInv'
<1>1. step' = step /\ target' = target /\ undo' = undo /\ resumed'[a] = FALSE
  <2>1. ~resumed[a]
    BY DEF KeptInv, CallFits
  <2> QED BY <2>1 DEF Begin, Resume, Fault, EnterWindow, ClaimAction, ClaimFails, Reconcile, RecordFails,
             Finish, FinishFails, Settle, TypeOK
<1>2. /\ \A s \in Steps : RowFits(s)
      /\ ActionFits(a) /\ CallFits(a) /\ UndoFits(a)
  BY DEF KeptInv
<1>3. PICK i \in StepsOf(a) : i = at[a]
  BY DEF TypeOK
<1>4. /\ \A s : (KeptBefore(s)' <=> KeptBefore(s)) /\ (Kept(s)' <=> Kept(s))
      /\ StepsOf(a) \subseteq Steps /\ StepsOf(a) \subseteq Nat
  BY <1>1, StepFacts DEF KeptBefore, Kept
<1>5. \A s \in StepsOf(a) : RowFits(s)'
  BY <1>1, <1>2, <1>4 DEF RowFits
<1>6. \A b \in Actions \ {a} : /\ action'[b] = action[b] /\ phase'[b] = phase[b]
                               /\ at'[b] = at[b] /\ resumed'[b] = resumed[b] /\ out'[b] = out[b]
  BY DEF Begin, Resume, EnterWindow, ClaimAction, ClaimFails, Reconcile, RecordFails,
         Finish, FinishFails, Settle, TypeOK, GoTo
<1>7. KeptFrame(a)
  BY <1>1, <1>4, <1>6 DEF KeptFrame
<1>8. UndoFits(a)'
  <2>1. undo[a].phase = "idle" \/ action' = action
    BY DEF WindowInv, Begin, Resume, EnterWindow, ClaimAction, ClaimFails, Reconcile,
           RecordFails, Finish, FinishFails, Settle
  <2> QED BY <1>1, <1>2, <2>1 DEF UndoFits
<1>9. SUFFICES ActionFits(a)' /\ CallFits(a)'
  BY <1>5, <1>7, <1>8, KeptOthers
<1>10. CASE Begin(a)
  <2>1. action' = action /\ phase'[a] = "enter" /\ out'[a] = out[a] /\ at'[a] \in StepsOf(a)
    BY <1>10 DEF Begin, GoTo, TypeOK
  <2>2. \A s \in StepsOf(a) : step[s].status = "absent"
    BY <1>2, <1>10 DEF Begin, ActionFits
  <2>3. \A s \in StepsOf(a) : s >= at'[a]
    BY <1>10, StepFacts DEF Begin, IsFirst, TypeOK
  <2>4. PICK j \in StepsOf(a) : j = at'[a]
    BY <2>1
  <2>5. ~Kept(j)
    BY <1>2, <1>4, <2>2 DEF RowFits
  <2>6. ActionFits(a)'
    BY <1>1, <1>2, <1>4, <2>1 DEF ActionFits
  <2>7. CallFits(a)'
    BY <1>1, <1>2, <1>4, <1>10, <2>1, <2>2, <2>3, <2>4, <2>5 DEF CallFits, Begin
  <2> QED BY <2>6, <2>7
<1>12. CASE EnterWindow(a)
  <2>1. /\ action' = action /\ phase[a] = "enter" /\ phase'[a] = "prepare"
        /\ out' = out /\ at' = at
    BY <1>2, <1>12 DEF EnterWindow, GoTo, TypeOK, CallFits
  <2>2. ActionFits(a)'
    BY <1>1, <1>2, <1>4, <2>1 DEF ActionFits
  <2>3. CallFits(a)'
    BY <1>1, <1>2, <1>3, <1>4, <2>1 DEF CallFits
  <2> QED BY <2>2, <2>3
<1>13. CASE ClaimAction(a)
  <2>1. /\ phase[a] = "claim_action" /\ out' = out /\ at' = at
        /\ \/ phase'[a] = "refuse" /\ action' = action
           \/ /\ phase'[a] = "write" /\ action'[a] = "applying"
              /\ action[a] \in {"prepared", "applying"}
    BY <1>2, <1>13 DEF ClaimAction, GoTo, TypeOK, CallFits
  <2>2. ActionFits(a)'
    BY <1>1, <1>2, <1>4, <2>1 DEF ActionFits
  <2>3. CallFits(a)'
    BY <1>1, <1>2, <1>3, <1>4, <2>1 DEF CallFits
  <2> QED BY <2>2, <2>3
<1>14. CASE ClaimFails(a)
  <2>1. /\ phase[a] \in {"prepare", "claim", "claim_action"} /\ phase'[a] = "refuse"
        /\ action' = action /\ out' = out /\ at' = at
    BY <1>14 DEF ClaimFails, GoTo, TypeOK
  <2>2. ActionFits(a)'
    BY <1>1, <1>2, <1>4, <2>1 DEF ActionFits
  <2>3. CallFits(a)'
    BY <1>1, <1>2, <1>3, <1>4, <2>1 DEF CallFits
  <2> QED BY <2>2, <2>3
<1>15. CASE Reconcile(a)
  <2>1. /\ phase[a] = "reconcile" /\ action' = action /\ at' = at /\ out'[a] # "partial"
        /\ \/ phase'[a] = "rerecord" \/ phase'[a] = "uncertain"
           \/ phase'[a] = "clean" /\ a \in Notes /\ target[Object(a)] # i
    BY <1>2, <1>3, <1>15 DEF Reconcile, GoTo, TypeOK, CallFits, Unwritten
  <2>2. ActionFits(a)'
    BY <1>1, <1>2, <1>4, <2>1 DEF ActionFits
  <2>3. target[Object(a)] # i => ~Kept(i)
    BY <1>2, <1>3, <2>1 DEF CallFits, Kept
  <2>4. CallFits(a)'
    BY <1>1, <1>2, <1>3, <1>4, <2>1, <2>3 DEF CallFits
  <2> QED BY <2>2, <2>4
<1>16. CASE RecordFails(a)
  <2>1. /\ action' = action /\ at' = at /\ out' = out
        /\ \/ phase[a] = "record" /\ phase'[a] = "reconcile"
           \/ phase[a] = "rerecord" /\ phase'[a] = "uncertain"
    BY <1>16 DEF RecordFails, GoTo, TypeOK
  <2>2. ActionFits(a)'
    BY <1>1, <1>2, <1>4, <2>1 DEF ActionFits
  <2>3. Object(a)' = Object(a)
    BY <2>1 DEF Object
  <2>4. CallFits(a)'
    BY <1>1, <1>2, <1>3, <1>4, <2>1, <2>3 DEF CallFits
  <2> QED BY <2>2, <2>4
<1>17. CASE Finish(a)
  <2>1. /\ action'[a] \notin {"absent", "prepared", "applying", "failed"}
        /\ phase'[a] = "idle" /\ at' = at /\ out' = out
    BY <1>17 DEF Finish, GoTo, TypeOK
  <2> QED BY <1>1, <1>2, <2>1 DEF ActionFits, CallFits
<1>18. CASE FinishFails(a)
  <2>1. /\ phase[a] = "finish" /\ action' = action /\ at' = at /\ out' = out
        /\ \/ phase'[a] = "settle_uncertain" /\ a \in Notes
           \/ phase'[a] = "settle_failed" /\ a \notin Notes
    BY <1>18 DEF FinishFails, GoTo, TypeOK
  <2>2. ActionFits(a)'
    BY <1>1, <1>2, <1>4, <2>1 DEF ActionFits
  <2>3. CallFits(a)'
    BY <1>1, <1>2, <1>3, <1>4, <2>1 DEF CallFits
  <2> QED BY <2>2, <2>3
<1>19. CASE Settle(a)
  <2>1. phase'[a] = "idle" /\ at' = at /\ out' = out
    BY <1>19 DEF Settle, GoTo, TypeOK
  <2>2. CallFits(a)'
    BY <1>1, <1>2, <2>1 DEF CallFits
  <2>3. CASE action' = action
    BY <1>1, <1>2, <1>4, <2>2, <2>3 DEF ActionFits
  <2>4. CASE action'[a] \in {"partially_applied", "uncertain"}
    BY <2>2, <2>4 DEF ActionFits
  <2>5. CASE action'[a] = "failed" /\ action' # action
    <3>1. phase[a] = "settle_failed" /\ (a \in Notes \/ ChangedSteps(a) = {})
      BY <1>19, <2>5 DEF Settle, TypeOK
    <3>2. \A s \in StepsOf(a) : Kept(s) => a \notin Notes /\ step[s].status \in Recorded
      BY <1>2, <3>1 DEF CallFits
    <3>3. \A s \in StepsOf(a) : Kept(s) => step[s].status = "no_effect"
      BY <3>1, <3>2 DEF ChangedSteps, Changed, Recorded
    <3> QED BY <1>1, <1>4, <2>2, <2>5, <3>3 DEF ActionFits
  <2> QED BY <1>19, <2>3, <2>4, <2>5 DEF Settle, TypeOK
<1>20. ~Resume(a)
  BY DEF Resume, Fault
<1> QED BY <1>10, <1>12, <1>13, <1>14, <1>15, <1>16, <1>17, <1>18, <1>19, <1>20

\* A step of a call that writes a row or the library.
LEMMA KeptCallWrites ==
    ASSUME TypeOK, WindowInv, KeptInv, NEW a \in Actions, "partial" \notin Faults,
           Prepare(a) \/ ClaimStep(a) \/ Refuse(a) \/ WriteLibrary(a) \/ WriteNote(a)
             \/ TryOnceMore(a) \/ Record(a) \/ StepFails(a)
    PROVE  KeptInv'
<1>1. /\ undo' = undo /\ resumed' = resumed
      /\ \A b \in Actions \ {a} : /\ action'[b] = action[b] /\ phase'[b] = phase[b]
                                  /\ at'[b] = at[b] /\ out'[b] = out[b]
  <2>1. /\ undo' = undo /\ resumed' = resumed
        /\ action' = action \/ Prepare(a)
        /\ at' = at \/ Record(a)
        /\ \E p : GoTo(a, p)
    BY DEF Prepare, ClaimStep, Refuse, WriteLibrary, WriteNote, TryOnceMore, Record, StepFails
  <2>2. \A b \in Actions \ {a} : action'[b] = action[b]
    BY <2>1 DEF Prepare, TypeOK
  <2>3. \A b \in Actions \ {a} : at'[b] = at[b]
    BY <2>1 DEF Record, TypeOK
  <2>4. \A b \in Actions \ {a} : phase'[b] = phase[b]
    BY <2>1 DEF GoTo, TypeOK
  <2>5. \A b \in Actions \ {a} : out'[b] = out[b]
    BY DEF Prepare, ClaimStep, Refuse, WriteLibrary, WriteNote, TryOnceMore, Record, StepFails,
           TypeOK
  <2> QED BY <2>1, <2>2, <2>3, <2>4, <2>5
<1>2. /\ \A s \in Steps : RowFits(s)
      /\ ActionFits(a) /\ CallFits(a) /\ UndoFits(a)
  BY DEF KeptInv
<1>3. PICK i \in StepsOf(a) : i = at[a]
  BY DEF TypeOK
<1>4. /\ StepsOf(a) \subseteq Steps /\ StepsOf(a) \subseteq Nat
      /\ \A s \in StepsOf(a) : ActionOf[s] = a
      /\ Object(a) \in Objects
  BY StepFacts, AtType
<1>5. DOMAIN step = Steps /\ DOMAIN target = Objects /\ step[i] \in Rows
  BY <1>3, <1>4 DEF TypeOK
<1>6. UndoFits(a)'
  <2>1. undo[a].phase = "idle"
    BY DEF WindowInv, Prepare, ClaimStep, Refuse, WriteLibrary, WriteNote, TryOnceMore, Record,
           StepFails
  <2> QED BY <1>1, <2>1 DEF UndoFits
<1>7. ASSUME NEW status \in StepStatus, SetRow(a, status)
      PROVE  /\ step'[i].status = status
             /\ \A s \in Steps \ {i} : step'[s] = step[s]
             /\ \A s \in Steps : step'[s].before = step[s].before
  BY <1>3, <1>5, <1>7 DEF SetRow, Rows, TypeOK
\* Nothing is written to the library, and no pre-image changes.
<1>8. ASSUME \A s \in Steps \ {i} : step'[s] = step[s],
             \A s \in Steps : step'[s].before = step[s].before,
             target' = target
      PROVE  KeptFrame(a) /\ \A s : Kept(s)' => Kept(s)
  <2>1. \A s : KeptBefore(s)' => KeptBefore(s)
    BY <1>1, <1>8, BeforeStays
  <2>2. \A s : Kept(s)' => Kept(s)
    BY <1>8, <2>1 DEF Kept
  <2> QED BY <1>1, <1>4, <1>8, <2>1, <2>2 DEF KeptFrame
\* The step's own value is written to its object, and no row changes.
<1>9. ASSUME step' = step,
             target' = target \/ target' = [target EXCEPT ![Object(a)] = i]
      PROVE  /\ KeptFrame(a) /\ \A s : KeptBefore(s)' => KeptBefore(s)
             /\ \A s : s # i => (Kept(s)' => Kept(s))
             /\ \A s \in StepsOf(a) : s # i => RowFits(s)'
  <2>1. \A s : KeptBefore(s)' => KeptBefore(s)
    BY <1>1, <1>9, BeforeStays
  <2>2. \A o \in Objects : target'[o] = target[o] \/ target'[o] = i
    BY <1>5, <1>9
  <2>3. \A s : s # i => (Kept(s)' => Kept(s))
    BY <2>1, <2>2 DEF Kept
  <2>4. KeptFrame(a)
    BY <1>1, <1>3, <1>9, <2>1, <2>2 DEF KeptFrame
  <2> QED BY <1>2, <1>4, <1>9, <2>1, <2>3, <2>4 DEF RowFits
<1>10. SUFFICES /\ KeptFrame(a) /\ ActionFits(a)' /\ CallFits(a)'
                /\ \A s \in StepsOf(a) : RowFits(s)'
  BY <1>6, KeptOthers
<1>11. CASE Prepare(a)
  <2>1. /\ phase[a] = "prepare" /\ phase'[a] = "claim" /\ at' = at /\ out' = out
        /\ target' = target
        /\ action'[a] = "prepared" \/ (action' = action /\ ~IsFirst(i))
    BY <1>3, <1>11 DEF Prepare, GoTo, TypeOK
  <2>2. /\ step'[i].status = "prepared" /\ step'[i].before = target[Object(a)]
        /\ \A s \in Steps \ {i} : step'[s] = step[s]
    BY <1>3, <1>4, <1>5, <1>11 DEF Prepare
  <2>3. \A s \in Steps : KeptBefore(s)' => KeptBefore(s) \/ target[Object(a)] = s
    BY <1>1, <2>2 DEF KeptBefore
  <2>4. \A s \in Steps : Kept(s)' => Kept(s)
    BY <1>4, <2>1, <2>3 DEF Kept
  <2>5. Inside(a)
    BY <2>1 DEF Inside, Working
  <2>6. KeptFrame(a)
    BY <1>1, <1>4, <2>1, <2>2, <2>3, <2>5 DEF KeptFrame, Kept
  <2>7. ~Kept(i)
    BY <1>2, <1>3, <2>1 DEF CallFits
  <2>8. \A s \in StepsOf(a) : RowFits(s)'
    BY <1>2, <1>4, <2>2, <2>4, <2>7 DEF RowFits
  <2>9. action'[a] \in {"prepared", "applying"}
    <3>1. ASSUME ~IsFirst(i) PROVE action[a] # "absent"
      <4>1. PICK t \in StepsOf(a) : t < i
        BY <1>3, <1>4, <3>1 DEF IsFirst
      <4>2. step[t].status \in Recorded
        BY <1>2, <1>3, <2>1, <4>1 DEF CallFits
      <4> QED BY <1>2, <4>2 DEF ActionFits, Recorded
    <3> QED BY <1>2, <2>1, <3>1 DEF CallFits
  <2>10. \A s \in StepsOf(a) : s # i => step[s].status \in Recorded \union {"absent"}
    BY <1>2, <1>3, <1>4, <2>1 DEF CallFits
  <2>11. ActionFits(a)'
    BY <1>4, <2>2, <2>9, <2>10 DEF ActionFits, Recorded
  <2>12. CallFits(a)'
    BY <1>1, <1>2, <1>3, <1>4, <2>1, <2>2, <2>4, <2>7, <2>9 DEF CallFits
  <2> QED BY <2>6, <2>8, <2>11, <2>12
<1>12. CASE ClaimStep(a)
  <2>1. /\ phase[a] = "claim" /\ at' = at /\ out' = out /\ action' = action /\ target' = target
        /\ \/ phase'[a] = "refuse" /\ step' = step
           \/ /\ phase'[a] = "claim_action" /\ SetRow(a, "applying")
              /\ step[i].status = "prepared"
    BY <1>2, <1>3, <1>12 DEF ClaimStep, Row, GoTo, TypeOK, CallFits
  <2>2. /\ \A s \in Steps \ {i} : step'[s] = step[s]
        /\ \A s \in Steps : step'[s].before = step[s].before
    BY <1>7, <2>1, Statuses
  <2>3. step' = step \/ step'[i].status = "applying"
    BY <1>7, <2>1, Statuses
  <2>4. KeptFrame(a) /\ \A s : Kept(s)' => Kept(s)
    BY <1>8, <2>1, <2>2
  <2>5. \A s \in StepsOf(a) : RowFits(s)'
    BY <1>2, <1>4, <2>2, <2>3, <2>4 DEF RowFits
  <2>6. ~Kept(i)
    BY <1>2, <1>3, <2>1 DEF CallFits
  <2>7. ActionFits(a)'
    BY <1>2, <1>3, <1>4, <2>1, <2>2, <2>3, <2>4, <2>6 DEF ActionFits
  <2>8. CallFits(a)'
    BY <1>1, <1>2, <1>3, <1>4, <1>7, <2>1, <2>2, <2>4, <2>6, Statuses DEF CallFits
  <2> QED BY <2>4, <2>5, <2>7, <2>8
<1>13. CASE Refuse(a)
  <2>1. /\ phase[a] = "refuse" /\ phase'[a] = "settle_failed"
        /\ at' = at /\ out' = out /\ action' = action /\ target' = target
        /\ \/ step' = step
           \/ SetRow(a, "failed") /\ step[i].status # "absent"
    BY <1>3, <1>13 DEF Refuse, Row, GoTo, TypeOK
  <2>2. /\ \A s \in Steps \ {i} : step'[s] = step[s]
        /\ \A s \in Steps : step'[s].before = step[s].before
    BY <1>7, <2>1, Statuses
  <2>3. step' = step \/ (step'[i].status = "failed" /\ step[i].status # "absent")
    BY <1>7, <2>1, Statuses
  <2>4. KeptFrame(a) /\ \A s : Kept(s)' => Kept(s)
    BY <1>8, <2>1, <2>2
  <2>5. ~Kept(i)
    BY <1>2, <1>3, <2>1 DEF CallFits
  <2>6. \A s \in StepsOf(a) : RowFits(s)'
    BY <1>2, <1>4, <2>2, <2>3, <2>4, <2>5 DEF RowFits
  <2>7. ActionFits(a)'
    BY <1>2, <1>3, <1>4, <2>1, <2>2, <2>3, <2>4, <2>5 DEF ActionFits
  <2>8. \A s \in StepsOf(a) : Kept(s)' => s # i /\ s < i /\ step'[s].status \in Recorded
    BY <1>2, <1>3, <1>4, <2>1, <2>2, <2>4, <2>5 DEF CallFits, RowFits
  <2>9. a \in Notes => \A s \in StepsOf(a) : s = i
    BY StepsAssumption
  <2>10. CallFits(a)'
    BY <1>1, <1>2, <1>3, <1>4, <2>1, <2>2, <2>8, <2>9 DEF CallFits
  <2> QED BY <2>4, <2>6, <2>7, <2>10
<1>14. CASE WriteLibrary(a) \/ WriteNote(a) \/ TryOnceMore(a)
  <2>1. /\ phase[a] \in {"write", "clean"} /\ at' = at /\ action' = action /\ step' = step
        /\ target' = target \/ target' = [target EXCEPT ![Object(a)] = i]
        /\ out'[a] # "partial"
        /\ phase'[a] \in {"record", "rerecord", "reconcile", "clean", "uncertain", "failed"}
        /\ phase'[a] \in {"clean", "failed"} => a \in Notes /\ target' = target
    BY <1>2, <1>3, <1>14 DEF WriteLibrary, WriteNote, TryOnceMore, GoTo, TypeOK, CallFits
  <2>2. /\ KeptFrame(a) /\ \A s : KeptBefore(s)' => KeptBefore(s)
        /\ \A s : s # i => (Kept(s)' => Kept(s))
        /\ \A s \in StepsOf(a) : s # i => RowFits(s)'
    BY <1>9, <2>1
  <2>3. step[i].status = "applying" /\ ~Kept(i)
    BY <1>2, <1>3, <2>1 DEF CallFits
  <2>4. \A s \in StepsOf(a) : RowFits(s)'
    BY <2>1, <2>2, <2>3 DEF RowFits
  <2>5. ActionFits(a)'
    BY <1>2, <1>3, <1>4, <2>1, <2>2, <2>3 DEF ActionFits, CallFits
  <2>6. target' = target => ~Kept(i)'
    BY <2>2, <2>3 DEF Kept
  <2>7. ~KeptBefore(i)' /\ \A o \in Objects \ {Object(a)} : target'[o] # i
    BY <1>5, <2>1, <2>2, <2>3 DEF Kept
  <2>8. Object(a)' = Object(a)
    BY <2>1 DEF Object
  <2>9. CallFits(a)'
    BY <1>1, <1>2, <1>3, <1>4, <2>1, <2>3, <2>6, <2>7, <2>8 DEF CallFits
  <2> QED BY <2>2, <2>4, <2>5, <2>9
<1>15. CASE Record(a)
  <2>1. /\ phase[a] \in {"record", "rerecord"} /\ out' = out /\ action' = action
        /\ target' = target
        /\ \/ phase'[a] = "finish" /\ at' = at /\ Later(i) = {}
           \/ phase'[a] = "enter" /\ at'[a] \in Following(i)
    BY <1>3, <1>15 DEF Record, GoTo, TypeOK
  <2>2. /\ step'[i].status = Outcome(a) /\ step'[i].before = step[i].before
        /\ \A s \in Steps \ {i} : step'[s] = step[s]
    BY <1>3, <1>4, <1>5, <1>15 DEF Record, Rows
  <2>3. Outcome(a) \in Recorded
    BY <1>2 DEF Outcome, TypeOK, CallFits, Recorded
  <2>4. \A s \in Steps : step'[s].before = step[s].before
    BY <2>2
  <2>5. KeptFrame(a) /\ \A s : Kept(s)' => Kept(s)
    BY <1>8, <2>1, <2>2, <2>4
  <2>6. \A s \in StepsOf(a) : RowFits(s)'
    BY <1>2, <1>4, <2>2, <2>3, <2>5 DEF RowFits, Recorded
  <2>7. action[a] \in {"absent", "prepared", "applying"} /\ step[i].status = "applying"
    BY <1>2, <1>3, <2>1 DEF CallFits
  <2>8. ActionFits(a)'
    BY <1>2, <1>4, <2>1, <2>2, <2>3, <2>5, <2>7 DEF ActionFits, Recorded
  <2>9. \A s \in StepsOf(a) : s <= i => step'[s].status \in Recorded
    BY <1>2, <1>3, <1>4, <2>1, <2>2, <2>3 DEF CallFits
  <2>10. CASE phase'[a] = "finish" /\ at' = at /\ Later(i) = {}
    <3>1. \A s \in StepsOf(a) : s <= i
      BY <1>4, <2>10 DEF Later
    <3>2. CallFits(a)'
      BY <1>1, <1>2, <1>3, <1>4, <2>1, <2>7, <2>9, <2>10, <3>1 DEF CallFits
    <3> QED BY <2>5, <2>6, <2>8, <3>2
  <2>11. CASE phase'[a] = "enter" /\ at'[a] \in Following(i)
    <3>1. PICK j \in Following(i) : j = at'[a]
      BY <2>11
    <3>2. j \in StepsOf(a) /\ j > i /\ \A s \in StepsOf(a) : s > i => j <= s
      BY <1>4, <3>1 DEF Following, Later
    <3>3. \A s \in StepsOf(a) : s >= j => step'[s].status = "absent"
      BY <1>2, <1>3, <1>4, <2>1, <2>2, <3>2 DEF CallFits
    <3>4. ~Kept(j)'
      BY <1>4, <2>6, <3>2, <3>3 DEF RowFits
    <3>5. \A s \in StepsOf(a) : s < j => s <= i
      BY <1>4, <3>2
    <3>6. CallFits(a)'
      BY <1>1, <1>2, <1>4, <2>1, <2>7, <2>9, <2>11, <3>1, <3>2, <3>3, <3>4, <3>5 DEF CallFits
    <3> QED BY <2>5, <2>6, <2>8, <3>6
  <2> QED BY <2>1, <2>5, <2>6, <2>8, <2>10, <2>11
<1>16. CASE StepFails(a)
  <2>1. /\ phase[a] \in {"uncertain", "failed"} /\ at' = at /\ out' = out /\ action' = action
        /\ target' = target
        /\ phase'[a] = IF phase[a] = "failed" THEN "settle_failed" ELSE "settle_uncertain"
        /\ step' = step \/ SetRow(a, phase[a])
    BY <1>3, <1>16 DEF StepFails, GoTo, TypeOK
  <2>2. /\ \A s \in Steps \ {i} : step'[s] = step[s]
        /\ \A s \in Steps : step'[s].before = step[s].before
    BY <1>7, <2>1, Statuses
  <2>3. step' = step \/ step'[i].status = phase[a]
    BY <1>7, <2>1, Statuses
  <2>4. KeptFrame(a) /\ \A s : Kept(s)' => Kept(s)
    BY <1>8, <2>1, <2>2
  <2>5. /\ step[i].status = "applying" /\ action[a] \in {"absent", "prepared", "applying"}
        /\ phase[a] = "failed" => ~Kept(i) /\ a \in Notes
    BY <1>2, <1>3, <2>1 DEF CallFits
  <2>6. \A s \in StepsOf(a) : RowFits(s)'
    BY <1>2, <1>4, <2>1, <2>2, <2>3, <2>4, <2>5 DEF RowFits
  <2>7. ActionFits(a)'
    BY <1>2, <1>3, <1>4, <2>1, <2>2, <2>3, <2>4, <2>5 DEF ActionFits
  <2>8. a \in Notes => \A s \in StepsOf(a) : s = i
    BY StepsAssumption
  <2>9. CallFits(a)'
    BY <1>1, <1>2, <1>3, <1>4, <2>1, <2>2, <2>4, <2>5, <2>8 DEF CallFits
  <2> QED BY <2>4, <2>6, <2>7, <2>9
<1> QED BY <1>11, <1>12, <1>13, <1>14, <1>15, <1>16

\* A step of an undo puts back pre-images only.
LEMMA KeptUndo ==
    ASSUME TypeOK, WindowInv, KeptInv, NEW a \in Actions, UndoSteps(a) \/ RequestUndo(a),
           "overlap" \notin Faults
    PROVE  KeptInv'
<1>1. UNCHANGED call
  BY DEF UndoSteps, RequestUndo, ClaimUndo, ClaimUndoFails, UndoEnters, PickStep,
         ClaimStepUndo, Recheck, RunInverse, Reread, MarkReverted, UndoStepFails,
         GiveUpStep, FinishUndo, FinishUndoFails
<1>2. /\ undo[a] \in Undos(a) /\ DOMAIN undo = Actions /\ DOMAIN action = Actions
      /\ DOMAIN step = Steps /\ DOMAIN target = Objects
  BY DEF TypeOK
<1>3. /\ undo[a].phase \in Replaying => undo[a].at \in StepsOf(a) /\ undo[a].at \in Steps
      /\ StepsOf(a) \subseteq Steps /\ \A s \in StepsOf(a) : ActionOf[s] = a
  BY <1>2, StepFacts DEF Undos, Replaying
<1>4. /\ \A s \in Steps : RowFits(s)
      /\ ActionFits(a) /\ CallFits(a) /\ UndoFits(a)
  BY DEF KeptInv
<1>5. undo[a].phase \notin {"idle", "claim_action"} => action[a] = "reverting"
  BY <1>4 DEF UndoFits
<1>6. phase[a] = "idle" /\ (undo'[a].phase # "idle" => action[a] # "absent")
  BY <1>2 DEF WindowInv, UndoSteps, RequestUndo, Apart, ClaimUndo, ClaimUndoFails, UndoEnters,
         PickStep, ClaimStepUndo, Recheck, RunInverse, Reread, MarkReverted, UndoStepFails,
         GiveUpStep, FinishUndo, FinishUndoFails, SetUndo, UndoAt
<1>7. CallFits(a)'
  BY <1>1, <1>4, <1>6 DEF CallFits, call
\* The rows an undo has read are the ones it goes on with.
<1>8. ASSUME NEW u, SetUndo(a, u),
             u.seen = undo[a].seen \/ (\A t \in StepsOf(a) : u.seen[t].before \in {step[t].before, Original}),
             \A t \in Steps : step'[t].before \in {step[t].before, Original}
      PROVE  \A s \in Steps : KeptBefore(s)' => KeptBefore(s)
  <2>1. undo'[a] = u /\ \A b \in Actions \ {a} : undo'[b] = undo[b]
    BY <1>2, <1>8 DEF SetUndo
  <2>2. ASSUME NEW s \in Steps, NEW t \in Steps, step'[t].before = s PROVE KeptBefore(s)
    BY <1>8, <2>2, StepFacts DEF KeptBefore, Original
  <2>3. ASSUME NEW s \in Steps, NEW b \in Actions, NEW t \in StepsOf(b), undo'[b].seen[t].before = s
        PROVE  KeptBefore(s)
    <3>1. CASE undo'[b].seen = undo[b].seen
      BY <2>3, <3>1 DEF KeptBefore
    <3>2. CASE b = a /\ u.seen[t].before \in {step[t].before, Original}
      BY <1>3, <2>1, <2>3, <3>2, StepFacts DEF KeptBefore, Original
    <3> QED BY <1>8, <2>1, <3>1, <3>2
  <2> QED BY <2>2, <2>3 DEF KeptBefore
\* It is enough that rows keep saying that there was a change.
<1>9. ASSUME NEW u, SetUndo(a, u),
             u.seen = undo[a].seen \/ (\A t \in StepsOf(a) : u.seen[t].before \in {step[t].before, Original}),
             \A t \in Steps : /\ ActionOf[t] # a => step'[t] = step[t]
                              /\ step'[t].before \in {step[t].before, Original},
             \A t \in StepsOf(a) : \/ step'[t].status = step[t].status
                                   \/ /\ action'[a] = "reverting"
                                      /\ step'[t].status \in {"reverting", "reverted", "revert_failed"},
             \/ action' = action
             \/ /\ \A b \in Actions \ {a} : action'[b] = action[b]
                /\ action'[a] \in {"reverting", "reverted", "revert_failed"},
             \A o \in Objects, s \in Steps : target'[o] = s => target[o] = s \/ KeptBefore(s),
             u.phase \notin {"idle", "claim_action"} => action'[a] = "reverting"
      PROVE  KeptInv'
  <2>1. \A s \in Steps : KeptBefore(s)' => KeptBefore(s)
    BY <1>8, <1>9
  <2>2. \A s \in Steps : Kept(s)' => Kept(s)
    BY <1>9, <2>1 DEF Kept
  <2>3. undo'[a] = u /\ \A b \in Actions \ {a} : undo'[b] = undo[b]
    BY <1>2, <1>9 DEF SetUndo
  <2>4. KeptFrame(a)
    BY <1>1, <1>9, <2>1, <2>3 DEF KeptFrame, call
  <2>5. \A s \in StepsOf(a) : RowFits(s)'
    BY <1>3, <1>4, <1>9, <2>2 DEF RowFits
  <2>6. ActionFits(a)'
    BY <1>3, <1>4, <1>9, <2>2 DEF ActionFits
  <2>7. UndoFits(a)'
    BY <1>9, <2>3 DEF UndoFits
  <2> QED BY <1>7, <2>4, <2>5, <2>6, <2>7, KeptOthers
<1>10. \A p : /\ [undo[a] EXCEPT !.phase = p].phase = p
              /\ [undo[a] EXCEPT !.phase = p].seen = undo[a].seen
  BY <1>2 DEF Undos
<1>11. \A s, failed : /\ Done(a, s, failed).phase = "steps"
                      /\ Done(a, s, failed).seen = undo[a].seen
  BY <1>2 DEF Done, Undos
<1>12. /\ NoUndo(a).phase = "idle"
       /\ \A t \in StepsOf(a) : NoUndo(a).seen[t].before = Original
  BY DEF NoUndo, NoRow
\* Its own step's row gets another status.
<1>13. ASSUME undo[a].phase \in Replaying, NEW status \in {"reverting", "reverted", "revert_failed"},
              step' = [step EXCEPT ![undo[a].at].status = status]
       PROVE  \A t \in Steps : /\ t # undo[a].at => step'[t] = step[t]
                               /\ step'[t].before = step[t].before
                               /\ t = undo[a].at => step'[t].status = status
  BY <1>3, <1>13 DEF TypeOK, Rows
<1>14. CASE RequestUndo(a)
  <2> DEFINE u == [phase |-> "claim_action", at |-> NoStep, failed |-> FALSE,
                   seen |-> [s \in StepsOf(a) |-> step[s]],
                   todo |-> {s \in StepsOf(a) : step[s].status # "absent"}]
  <2>1. SetUndo(a, u) /\ step' = step /\ target' = target /\ action' = action
    BY <1>14 DEF RequestUndo
  <2>2. u.phase = "claim_action" /\ \A t \in StepsOf(a) : u.seen[t].before = step[t].before
    OBVIOUS
  <2> HIDE DEF u
  <2> QED BY <1>9, <2>1, <2>2
<1>15. CASE ClaimUndo(a)
  <2>1. step' = step /\ target' = target
    BY <1>15 DEF ClaimUndo
  <2>2. CASE /\ action' = [action EXCEPT ![a] = "reverting"]
             /\ SetUndo(a, [undo[a] EXCEPT !.phase = "enter"])
    BY <1>2, <1>9, <1>10, <2>1, <2>2
  <2>3. CASE SetUndo(a, NoUndo(a)) /\ action' = action
    BY <1>9, <1>12, <2>1, <2>3
  <2> QED BY <1>15, <2>2, <2>3 DEF ClaimUndo, UndoAt
<1>16. CASE ClaimUndoFails(a)
  <2>1. step' = step /\ target' = target /\ action' = action /\ SetUndo(a, NoUndo(a))
    BY <1>16 DEF ClaimUndoFails
  <2> QED BY <1>9, <1>12, <2>1
<1>17. CASE UndoEnters(a) \/ PickStep(a) \/ Recheck(a) \/ Reread(a) \/ UndoStepFails(a)
  <2>1. /\ step' = step /\ target' = target /\ action' = action
        /\ undo[a].phase \notin {"idle", "claim_action"}
    BY <1>17 DEF UndoEnters, PickStep, Recheck, Reread, UndoStepFails
  <2>2. PICK u : SetUndo(a, u) /\ u.seen = undo[a].seen
    <3>1. CASE \E p : UndoAt(a, p)
      BY <1>10, <3>1 DEF UndoAt
    <3>2. CASE PickStep(a)
      <4>1. \A s : [undo[a] EXCEPT !.phase = "claim", !.at = s].seen = undo[a].seen
        BY <1>2 DEF Undos
      <4>2. PICK s : \/ SetUndo(a, Done(a, s, FALSE)) \/ SetUndo(a, Done(a, s, TRUE))
                     \/ SetUndo(a, [undo[a] EXCEPT !.phase = "claim", !.at = s])
        BY <3>2 DEF PickStep
      <4> QED BY <1>11, <4>1, <4>2
    <3> QED BY <1>17, <3>1, <3>2 DEF UndoEnters, Recheck, Reread, UndoStepFails
  <2> QED BY <1>5, <1>9, <2>1, <2>2
<1>18. CASE RunInverse(a)
  <2>1. /\ step' = step /\ action' = action /\ undo[a].phase = "inverse"
        /\ UndoAt(a, "reread") \/ UndoAt(a, "give_up")
        /\ \/ target' = target
           \/ target' = [target EXCEPT ![TargetOf[undo[a].at]] = Seen(a, undo[a].at).before]
    BY <1>18 DEF RunInverse
  <2>2. \A s \in Steps, o \in Objects : target'[o] = s => target[o] = s \/ KeptBefore(s)
    BY <1>2, <1>3, <2>1 DEF KeptBefore, Seen, Replaying
  <2>3. PICK u : SetUndo(a, u) /\ u.seen = undo[a].seen
    <3>1. PICK p : UndoAt(a, p)
      BY <2>1
    <3> QED BY <1>10, <3>1 DEF UndoAt
  <2> QED BY <1>5, <1>9, <2>1, <2>2, <2>3
<1>19. CASE ClaimStepUndo(a) \/ MarkReverted(a) \/ GiveUpStep(a)
  <2>1. /\ target' = target /\ action' = action /\ undo[a].phase \in Replaying
        /\ \/ step' = step
           \/ \E status \in {"reverting", "reverted", "revert_failed"} :
                step' = [step EXCEPT ![undo[a].at].status = status]
    BY <1>19 DEF ClaimStepUndo, MarkReverted, GiveUpStep, Replaying
  <2>2. PICK u : SetUndo(a, u) /\ u.seen = undo[a].seen
    <3>1. CASE \E p : UndoAt(a, p)
      BY <1>10, <3>1 DEF UndoAt
    <3>2. CASE \E s, failed : SetUndo(a, Done(a, s, failed))
      BY <1>11, <3>2
    <3> QED BY <1>19, <3>1, <3>2 DEF ClaimStepUndo, MarkReverted, GiveUpStep
  <2>3. \A t \in Steps : /\ t # undo[a].at => step'[t] = step[t]
                         /\ step'[t].before = step[t].before
                         /\ t = undo[a].at => \/ step'[t].status = step[t].status
                                              \/ step'[t].status \in {"reverting", "reverted", "revert_failed"}
    BY <1>13, <2>1
  <2>4. action[a] = "reverting"
    BY <1>5, <2>1 DEF Replaying
  <2> QED BY <1>3, <1>9, <2>1, <2>2, <2>3, <2>4
<1>20. CASE FinishUndo(a) \/ FinishUndoFails(a)
  <2>1. /\ target' = target /\ SetUndo(a, NoUndo(a))
        /\ \/ step' = step
           \/ step' = [s \in Steps |-> IF ActionOf[s] = a THEN Erased(step[s]) ELSE step[s]]
        /\ \/ action' = action
           \/ action' = [action EXCEPT ![a] = "reverted"]
           \/ action' = [action EXCEPT ![a] = "revert_failed"]
    BY <1>20 DEF FinishUndo, FinishUndoFails
  <2>2. \A t \in Steps : /\ ActionOf[t] # a => step'[t] = step[t]
                         /\ step'[t].before \in {step[t].before, Original}
                         /\ step'[t].status = step[t].status
    <3>1. \A t \in Steps : Erased(step[t]).before = Original /\ Erased(step[t]).status = step[t].status
      BY DEF Erased, NoRow
    <3> QED BY <2>1, <3>1
  <2>3. /\ \A b \in Actions \ {a} : action'[b] = action[b]
        /\ action' = action \/ action'[a] \in {"reverted", "revert_failed"}
    BY <1>2, <2>1
  <2> QED BY <1>3, <1>9, <1>12, <2>1, <2>2, <2>3
<1> QED BY <1>14, <1>15, <1>16, <1>17, <1>18, <1>19, <1>20 DEF UndoSteps

\* The recovery takes a change that may have been made for one that was.
LEMMA KeptRestart ==
    ASSUME TypeOK, KeptInv, Restart
    PROVE  KeptInv'
<1>1. ASSUME NEW s \in Steps
      PROVE  /\ step'[s].status = RecoveredStep(step[s].status)
             /\ step'[s].before \in {step[s].before, Original}
  <2>1. step[s] \in Rows
    BY DEF TypeOK
  <2> DEFINE row == [step[s] EXCEPT !.status = RecoveredStep(@)]
  <2>2. step'[s] = row \/ step'[s] = Erased(row)
    BY DEF Restart
  <2>3. /\ row.status = RecoveredStep(step[s].status) /\ row.before = step[s].before
        /\ Erased(row).status = row.status /\ Erased(row).before = Original
    BY <2>1 DEF Rows, Erased, NoRow
  <2> HIDE DEF row
  <2> QED BY <2>2, <2>3
<1>2. \A a \in Actions : /\ phase'[a] = "idle" /\ undo'[a].phase = "idle"
                         /\ action'[a] = RecoveredAction(a)
                         /\ \A t \in StepsOf(a) : undo'[a].seen[t].before = Original
  BY DEF Restart, NoUndo, NoRow
<1>3. \A s \in Steps : Kept(s)' => Kept(s)
  <2>1. target' = target
    BY DEF Restart
  <2> QED BY <1>1, <1>2, <2>1, StepFacts DEF Kept, KeptBefore, Original
<1>4. ASSUME NEW s \in Steps PROVE RowFits(s)'
  BY <1>1, <1>3, <1>4 DEF KeptInv, RowFits, RecoveredStep
<1>5. ASSUME NEW a \in Actions PROVE ActionFits(a)' /\ CallFits(a)' /\ UndoFits(a)'
  <2>1. /\ ActionFits(a) /\ CallFits(a)
        /\ \A s \in StepsOf(a) : s \in Steps /\ RowFits(s)
    BY StepFacts DEF KeptInv
  <2>2. action'[a] = RecoveredAction(a) /\ action[a] \in StepStatus
    BY <1>2 DEF TypeOK
  <2>3. RecoveredAction(a) \notin {"prepared", "applying"}
    BY DEF RecoveredAction
  <2>4. RecoveredAction(a) = "absent" => action[a] = "absent"
    BY DEF RecoveredAction
  <2>5. ASSUME NEW s \in StepsOf(a), RecoveredAction(a) = "failed", Kept(s)
        PROVE  step[s].status = "no_effect"
    <3>1. CASE action[a] = "failed"
      BY <2>1, <2>5, <3>1 DEF ActionFits
    <3>2. CASE action[a] \in {"prepared", "applying"}
      <4>1. RecoveredStep(step[s].status) \notin
              {"uncertain", "applied", "irreversible", "no_effect", "reverted"}
        BY <2>5, <3>2 DEF RecoveredAction
      <4>2. step[s].status \notin {"absent", "prepared", "failed", "partially_applied",
                                   "reverting", "revert_failed", "reverted"}
        BY <2>1, <2>5, <3>2 DEF ActionFits, RowFits
      <4>3. step[s].status \in StepStatus
        BY <2>1 DEF TypeOK, Rows
      <4> QED BY <4>1, <4>2, <4>3 DEF RecoveredStep, StepStatus
    <3> QED BY <2>5, <3>1, <3>2 DEF RecoveredAction
  <2>6. ActionFits(a)'
    BY <1>1, <1>3, <2>1, <2>2, <2>3, <2>4, <2>5 DEF ActionFits, RecoveredStep
  <2>7. resumed'[a] = resumed[a] /\ out'[a] = out[a]
    BY DEF Restart
  <2>8. CallFits(a)' /\ UndoFits(a)'
    BY <1>2, <2>1, <2>7 DEF CallFits, UndoFits
  <2> QED BY <2>6, <2>8
<1> QED BY <1>4, <1>5 DEF KeptInv

\* What the user writes is no step's.
LEMMA KeptUser ==
    ASSUME TypeOK, KeptInv, NEW v \in Objects, UserEdits(v)
    PROVE  KeptInv'
<1>1. UNCHANGED <<action, step, undo, phase, at, resumed, out>>
  BY DEF UserEdits, call
<1>2. \A o \in Objects, s \in Steps : target'[o] = s => target[o] = s
  BY EditedTo, Values DEF TypeOK
<1>3. \A s \in Steps : (KeptBefore(s)' <=> KeptBefore(s)) /\ (Kept(s)' => Kept(s))
  BY <1>1, <1>2 DEF KeptBefore, Kept
<1>4. \A s \in Steps : RowFits(s)'
  BY <1>1, <1>3 DEF KeptInv, RowFits
<1>5. ASSUME NEW a \in Actions PROVE ActionFits(a)' /\ CallFits(a)' /\ UndoFits(a)'
  <2>1. ActionFits(a)' /\ UndoFits(a)'
    BY <1>1, <1>3, StepFacts DEF KeptInv, ActionFits, UndoFits
  <2>2. PICK i \in Steps : i = at[a]
    BY AtType
  <2>3. i = at'[a] /\ Object(a)' = Object(a)
    BY <1>1, <2>2 DEF Object
  <2>4. CallFits(a) /\ \A s \in StepsOf(a) : s \in Steps
    BY StepFacts DEF KeptInv
  <2>5. CallFits(a)'
    BY <1>1, <1>2, <1>3, <2>2, <2>3, <2>4 DEF CallFits
  <2> QED BY <2>1, <2>5
<1> QED BY <1>4, <1>5 DEF KeptInv

\* Every step keeps the rows in step with what is in the library.
LEMMA KeptNext ==
    ASSUME TypeOK, WindowInv, KeptInv, [Next]_vars,
           {"partial", "resume", "overlap"} \cap Faults = {}
    PROVE  KeptInv'
<1>1. CASE UNCHANGED vars
  BY <1>1 DEF KeptInv, vars, RowFits, ActionFits, CallFits, UndoFits, Kept, KeptBefore, Object
<1>2. ASSUME NEW a \in Actions, CallSteps(a) PROVE KeptInv'
  BY <1>2, KeptCallReads, KeptCallWrites DEF CallSteps
<1>3. ASSUME NEW a \in Actions, Begin(a) \/ Resume(a) PROVE KeptInv'
  BY <1>3, KeptCallReads
<1> QED BY <1>1, <1>2, <1>3, KeptUndo, KeptRestart, KeptUser DEF Next

\* Nothing that is in the library is called failed, and so kept from the
\* history the user can undo from.  A "partial" result is the exception that
\* the interrupted_partial_write run exhibits; a retry and an undo that
\* overlaps with a call can bring a failed change back and are left out.
THEOREM FailedIsUntouched ==
    ASSUME {"partial", "resume", "overlap"} \cap Faults = {}
    PROVE  Spec => []FailedMeansUntouched
<1>1. Init => TypeOK /\ WindowInv /\ KeptInv
  BY TypeInit, WindowInit, KeptInit
<1>2. TypeOK /\ WindowInv /\ KeptInv /\ [Next]_vars => (TypeOK /\ WindowInv /\ KeptInv)'
  BY TypeNext, WindowNext, KeptNext
<1>3. TypeOK /\ KeptInv => FailedMeansUntouched
  <2> SUFFICES ASSUME TypeOK, KeptInv, NEW s \in Steps, InPlace(s), ~Unattributed(s)
               PROVE  "failed" \notin {step[s].status, action[ActionOf[s]]}
    BY DEF FailedMeansUntouched
  <2>1. Kept(s)
    BY StepFacts DEF InPlace, Kept
  <2> QED BY <2>1, StepFacts DEF KeptInv, RowFits, ActionFits, Unattributed
<1> QED BY <1>1, <1>2, <1>3, PTL DEF Spec
-----------------------------------------------------------------------------
(***************************************************************************)
(* Rows that say that somebody is at work.                                 *)
(***************************************************************************)

LEMMA OwnerCall ==
    ASSUME TypeOK, WindowInv, InFlightHasOwner, NEW a \in Actions,
           CallSteps(a) \/ Begin(a) \/ Resume(a), {"db", "overlap"} \cap Faults = {}
    PROVE  InFlightHasOwner'
<1>1. undo[a].phase = "idle" /\ undo' = undo
  BY DEF CallSteps, Begin, Resume, Apart, WindowInv, TypeOK, EnterWindow, Prepare, ClaimStep,
         ClaimAction, ClaimFails, Refuse, WriteLibrary, WriteNote, Reconcile, TryOnceMore,
         Record, RecordFails, StepFails, Finish, FinishFails, Settle
<1>2. action[a] # "reverting"
  BY <1>1 DEF InFlightHasOwner
<1>3. /\ \A b \in Actions \ {a} : action'[b] = action[b] /\ phase'[b] = phase[b]
      /\ \/ phase'[a] # "idle" /\ action'[a] \in {action[a], "prepared", "applying"}
         \/ phase'[a] = "idle" /\ action'[a] \notin {"prepared", "applying", "reverting"}
  <2> USE DEF GoTo, TypeOK
  <2>1. CASE Begin(a) \/ Resume(a) \/ EnterWindow(a) \/ ClaimStep(a) \/ ClaimFails(a) \/ Refuse(a)
    BY <2>1 DEF Begin, Resume, EnterWindow, ClaimStep, ClaimFails, Refuse
  <2>2. CASE WriteLibrary(a) \/ WriteNote(a) \/ Reconcile(a) \/ TryOnceMore(a)
    BY <2>2 DEF WriteLibrary, WriteNote, Reconcile, TryOnceMore
  <2>3. CASE Record(a) \/ RecordFails(a) \/ StepFails(a) \/ FinishFails(a)
    BY <2>3 DEF Record, RecordFails, StepFails, FinishFails
  <2>4. CASE Prepare(a)
    BY <2>4 DEF Prepare
  <2>5. CASE ClaimAction(a)
    BY <2>5 DEF ClaimAction
  <2>6. CASE Finish(a)
    BY <2>6 DEF Finish
  <2>7. CASE Settle(a)
    BY <2>7 DEF Settle, Fault
  <2> QED BY <2>1, <2>2, <2>3, <2>4, <2>5, <2>6, <2>7 DEF CallSteps
<1> QED BY <1>1, <1>2, <1>3 DEF InFlightHasOwner

\* A step of an undo leaves nothing in flight without an owner.
LEMMA OwnerUndo ==
    ASSUME TypeOK, WindowInv, InFlightHasOwner, NEW a \in Actions,
           UndoSteps(a) \/ RequestUndo(a), {"db", "overlap"} \cap Faults = {}
    PROVE  InFlightHasOwner'
<1>1. phase' = phase
  BY DEF UndoSteps, RequestUndo, ClaimUndo, ClaimUndoFails, UndoEnters, PickStep,
         ClaimStepUndo, Recheck, RunInverse, Reread, MarkReverted, UndoStepFails,
         GiveUpStep, FinishUndo, FinishUndoFails, call
<1>2. /\ undo[a] \in Undos(a) /\ DOMAIN undo = Actions /\ DOMAIN action = Actions
      /\ NoUndo(a).phase = "idle" /\ \A s, failed : Done(a, s, failed).phase = "steps"
      /\ \A p : [undo[a] EXCEPT !.phase = p].phase = p
      /\ \A s : [undo[a] EXCEPT !.phase = "claim", !.at = s].phase = "claim"
  BY DEF TypeOK, NoUndo, Done, Undos
<1>3. ASSUME NEW u, SetUndo(a, u)
      PROVE  undo'[a] = u /\ \A b \in Actions \ {a} : undo'[b] = undo[b]
  BY <1>2, <1>3 DEF SetUndo
<1> DEFINE Goes(u) ==
      /\ SetUndo(a, u)
      /\ \A b \in Actions \ {a} : action'[b] = action[b]
      /\ \/ action'[a] = action[a] /\ u.phase \notin {"idle", "claim_action"}
         \/ action'[a] = action[a] /\ action[a] # "reverting"
         \/ action'[a] = "reverting" /\ u.phase = "enter"
         \/ action'[a] \in {"reverted", "revert_failed"}
<1>4. ASSUME NEW u, Goes(u) PROVE InFlightHasOwner'
  <2>1. undo'[a] = u /\ \A b \in Actions \ {a} : undo'[b] = undo[b]
    BY <1>3, <1>4
  <2>2. action'[a] \in {"prepared", "applying"} => phase'[a] # "idle"
    BY <1>1, <1>4 DEF InFlightHasOwner
  <2>3. action'[a] = "reverting" => undo'[a].phase \notin {"idle", "claim_action"}
    BY <1>4, <2>1
  <2>4. \A b \in Actions \ {a} : action'[b] = action[b]
    BY <1>4
  <2> QED BY <1>1, <2>1, <2>2, <2>3, <2>4 DEF InFlightHasOwner
<1>5. undo[a].phase \in {"idle", "claim_action"} => action[a] # "reverting"
  BY DEF InFlightHasOwner
<1>6. \E u : Goes(u)
  <2>1. CASE RequestUndo(a)
    BY <1>5, <2>1 DEF RequestUndo
  <2>2. CASE ClaimUndo(a)
    BY <1>2, <1>5, <2>2 DEF ClaimUndo, UndoAt
  <2>3. CASE PickStep(a)
    <3>1. PICK s : \/ SetUndo(a, Done(a, s, FALSE)) \/ SetUndo(a, Done(a, s, TRUE))
                   \/ SetUndo(a, [undo[a] EXCEPT !.phase = "claim", !.at = s])
      BY <2>3 DEF PickStep
    <3>2. action' = action
      BY <2>3 DEF PickStep
    <3> HIDE DEF SetUndo
    <3> QED BY <1>2, <3>1, <3>2
  <2>4. CASE MarkReverted(a) \/ GiveUpStep(a)
    BY <1>2, <2>4 DEF MarkReverted, GiveUpStep
  <2>5. CASE FinishUndo(a)
    BY <1>2, <2>5 DEF FinishUndo
  <2>6. CASE \/ UndoEnters(a) \/ ClaimStepUndo(a) \/ Recheck(a) \/ RunInverse(a)
             \/ Reread(a) \/ UndoStepFails(a)
    <3>1. action' = action /\ \E p \in {"steps"} \union Replaying : UndoAt(a, p)
      BY <2>6 DEF UndoEnters, ClaimStepUndo, Recheck, RunInverse, Reread, UndoStepFails, Replaying
    <3> QED BY <1>2, <3>1 DEF UndoAt, Replaying
  <2>7. ~ClaimUndoFails(a) /\ ~FinishUndoFails(a)
    BY DEF ClaimUndoFails, FinishUndoFails, Fault
  <2> QED BY <2>1, <2>2, <2>3, <2>4, <2>5, <2>6, <2>7 DEF UndoSteps
<1> QED BY <1>4, <1>6

\* A row says that a call or an undo is at work only while there is one that
\* will put it right, a restart included: as long as no statement fails that
\* was to say how it ended.
THEOREM OwnerInFlight ==
    ASSUME {"db", "overlap"} \cap Faults = {}
    PROVE  Spec => []InFlightHasOwner
<1>1. Init => TypeOK /\ WindowInv /\ InFlightHasOwner
  <2>1. Init => InFlightHasOwner
    BY DEF Init, InFlightHasOwner
  <2> QED BY <2>1, TypeInit, WindowInit
<1>2. TypeOK /\ WindowInv /\ InFlightHasOwner /\ [Next]_vars =>
        (TypeOK /\ WindowInv /\ InFlightHasOwner)'
  <2> SUFFICES ASSUME TypeOK, WindowInv, InFlightHasOwner, [Next]_vars
               PROVE  InFlightHasOwner'
    BY TypeNext, WindowNext
  <2>1. CASE UNCHANGED vars
    BY <2>1 DEF InFlightHasOwner, vars
  <2>2. CASE Restart
    BY <2>2 DEF Restart, InFlightHasOwner, RecoveredAction
  <2>3. ASSUME NEW o \in Objects, UserEdits(o) PROVE InFlightHasOwner'
    BY <2>3 DEF UserEdits, InFlightHasOwner, call
  <2> QED BY <2>1, <2>2, <2>3, OwnerCall, OwnerUndo DEF Next
<1> QED BY <1>1, <1>2, PTL DEF Spec
=============================================================================
