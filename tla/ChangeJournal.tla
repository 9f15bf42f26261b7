---------------------------- MODULE ChangeJournal ----------------------------
(***************************************************************************)
(* The durable journal of the agent's writes to the Zotero library.  An    *)
(* action is one tool call, its steps are the single changes.  A step's    *)
(* inverse is stored before the change is made, the outcome after it, and  *)
(* an undo replays the inverses newest step first.  Every database         *)
(* statement and every call into Zotero is a step of the model: edits of   *)
(* the user, other actions, an undo and a restart happen in between.       *)
(*                                                                         *)
(* An object of the library holds the number of the step that wrote it     *)
(* last, or one of the values below.  A restart runs the recovery of       *)
(* initAgentChangeJournal before anything else uses the journal.           *)
(***************************************************************************)
EXTENDS Integers, FiniteSets

CONSTANTS Actions,    \* journal actions
          Steps,      \* step numbers; an action's steps run in their order
          ActionOf,   \* the action a step belongs to
          TargetOf,   \* the object a step writes
          Notes,      \* actions that change one prepared note and may be retried
          NoAction,   \* the write window is free
          Faults,     \* which of "db", "throw", "partial", "resume", "overlap",
                      \* "repeat" may happen
          MaxFaults, MaxEdits, MaxUndos, MaxRestarts

Objects == {TargetOf[s] : s \in Steps}
Original == 0
Edited == -1          \* the user's edit, made while nobody worked on the object
NoImage == -2         \* no post-image was recorded
MidEdit(n) == -3 - n  \* the user's n-th edit, in the middle of somebody's work on it
NoStep == 0           \* an undo is between two steps
MidEdits == {v \in Int : v <= MidEdit(0)}
Value == Steps \union {Original, Edited} \union MidEdits

StepsOf(a) == {s \in Steps : ActionOf[s] = a}
IsFirst(s) == \A t \in StepsOf(ActionOf[s]) : s <= t

\* Mutant: goes on with whatever step comes next, of any action.
LaterOfAny(s) == {t \in Steps : t > s}

Later(s) == {t \in StepsOf(ActionOf[s]) : t > s}

Following(s) == {t \in Later(s) : \A u \in Later(s) : t <= u}

ASSUME StepsAssumption ==
    /\ Steps \subseteq Nat \ {0} /\ IsFiniteSet(Steps)
    /\ ActionOf \in [Steps -> Actions] /\ DOMAIN TargetOf = Steps
    /\ \A a \in Actions : StepsOf(a) # {}
    /\ Notes \subseteq Actions /\ NoAction \notin Actions
    /\ \A a \in Notes : \A s, t \in StepsOf(a) : s = t
ASSUME BoundsAssumption ==
    {MaxFaults, MaxEdits, MaxUndos, MaxRestarts} \subseteq Nat

VARIABLES action,     \* action -> status of its row
          closed,     \* action -> its row says it cannot be undone at all
          step,       \* step -> its row
          target,     \* object -> value in the library
          phase,      \* action -> where the call that makes its changes is
          at,         \* action -> the step that call is at
          resumed,    \* action -> that call retries an earlier one
          out,        \* action -> effect of the native write
          undo,       \* action -> where its undo is
          window,     \* the action inside the write window
          outer,      \* who opened the window for it: the call or the undo
          faults, edits, undos, restarts

call == <<phase, at, resumed, out>>
win == <<window, outer>>
bounds == <<edits, undos, restarts>>
vars == <<action, closed, step, target, phase, at, resumed, out, undo,
          window, outer, faults, edits, undos, restarts>>

StepStatus == {"absent", "prepared", "applying", "applied", "partially_applied",
               "no_effect", "irreversible", "reverting", "reverted",
               "revert_failed", "failed", "uncertain"}
Changed == {"applied", "partially_applied", "irreversible"}
NoRow == [status |-> "absent", inverse |-> FALSE, before |-> Original,
          after |-> NoImage]
NoUndo(a) == [phase |-> "idle", seen |-> [s \in StepsOf(a) |-> NoRow],
              todo |-> {}, at |-> NoStep, failed |-> FALSE]

Init ==
    /\ action = [a \in Actions |-> "absent"]
    /\ closed = [a \in Actions |-> FALSE]
    /\ step = [s \in Steps |-> NoRow]
    /\ target = [o \in Objects |-> Original]
    /\ phase = [a \in Actions |-> "idle"]
    /\ at \in {f \in [Actions -> Steps] : \A a \in Actions : f[a] \in StepsOf(a) /\ IsFirst(f[a])}
    /\ resumed = [a \in Actions |-> FALSE]
    /\ out = [a \in Actions |-> "none"]
    /\ undo = [a \in Actions |-> NoUndo(a)]
    /\ window = NoAction /\ outer = "call"
    /\ faults = 0 /\ edits = 0 /\ undos = 0 /\ restarts = 0

Fault(kind) == kind \in Faults /\ faults < MaxFaults /\ faults' = faults + 1
NoFault == UNCHANGED faults

GoTo(a, p) == phase' = [phase EXCEPT ![a] = p]

\* Mutant: nobody waits for the window.
EnterAtOnce(a, who) == window' = a /\ outer' = who

\* The window is global, serial, and reentrant for the action that holds it.
Enter(a, who) ==
    \/ window = NoAction /\ window' = a /\ outer' = who
    \/ window = a /\ UNCHANGED win

\* Mutant: the window stays taken.
LeaveOpen(a, who) == UNCHANGED win

Leave(a, who) ==
    /\ window' = IF window = a /\ outer = who THEN NoAction ELSE window
    /\ UNCHANGED outer

Object(a) == TargetOf[at[a]]
Row(a) == step[at[a]]
SetRow(a, status) == step' = [step EXCEPT ![at[a]].status = status]
-----------------------------------------------------------------------------
\* The call that makes the changes.

\* Nothing in the code keeps an undo and the calls of the same action apart;
\* an instance without "overlap" looks at the schedules where they are.
Apart(a) == "overlap" \in Faults \/ (phase[a] = "idle" /\ undo[a].phase = "idle")

\* A first call of an action.
Begin(a) ==
    /\ phase[a] = "idle" /\ action[a] = "absent"
    /\ \E s \in StepsOf(a) : IsFirst(s) /\ at' = [at EXCEPT ![a] = s]
    /\ resumed' = [resumed EXCEPT ![a] = FALSE]
    /\ GoTo(a, "enter") /\ NoFault
    /\ UNCHANGED <<action, closed, step, target, out, undo, win, bounds>>

\* A retry of a note change: it goes on with the stored payload, unless the
\* action was undone when it looked.
Resume(a) ==
    /\ a \in Notes /\ phase[a] = "idle" /\ Apart(a)
    /\ action[a] \notin {"absent", "reverted", "reverting", "revert_failed"}
    /\ Row(a).status # "absent" /\ Row(a).inverse
    /\ Fault("resume")
    /\ resumed' = [resumed EXCEPT ![a] = TRUE]
    /\ GoTo(a, "enter")
    /\ UNCHANGED <<action, closed, step, target, at, out, undo, win, bounds>>

EnterWindow(a) ==
    /\ phase[a] = "enter" /\ Enter(a, "call")
    /\ GoTo(a, IF resumed[a] THEN "claim" ELSE "prepare") /\ NoFault
    /\ UNCHANGED <<action, closed, step, target, at, resumed, out, undo, bounds>>

\* The rows, with the inverse and the pre-image, before anything is changed.
Prepare(a) ==
    /\ phase[a] = "prepare" /\ GoTo(a, "claim") /\ NoFault
    /\ \E inverse \in IF a \in Notes THEN {TRUE} ELSE BOOLEAN :
        /\ step' = [step EXCEPT ![at[a]] =
                [status |-> "prepared", inverse |-> inverse,
                 before |-> target[Object(a)], after |-> NoImage]]
        /\ IF IsFirst(at[a])
           THEN /\ action' = [action EXCEPT ![a] = "prepared"]
                /\ closed' = [closed EXCEPT ![a] = ~inverse]
           ELSE UNCHANGED <<action, closed>>
    /\ UNCHANGED <<target, at, resumed, out, undo, win, bounds>>

Retriable == {"prepared", "uncertain", "failed", "applied", "no_effect",
              "partially_applied"}

ClaimStep(a) ==
    /\ phase[a] = "claim" /\ NoFault
    /\ IF Row(a).status \in (IF resumed[a] THEN Retriable ELSE {"prepared"})
       THEN SetRow(a, "applying") /\ GoTo(a, "claim_action")
       ELSE GoTo(a, "refuse") /\ UNCHANGED step
    /\ UNCHANGED <<action, closed, target, at, resumed, out, undo, win, bounds>>

ClaimAction(a) ==
    /\ phase[a] = "claim_action" /\ NoFault
    /\ IF action[a] \in {"prepared", "applying"}
                        \union (IF resumed[a] THEN Retriable ELSE {})
       THEN action' = [action EXCEPT ![a] = "applying"] /\ GoTo(a, "write")
       ELSE GoTo(a, "refuse") /\ UNCHANGED action
    /\ UNCHANGED <<closed, step, target, at, resumed, out, undo, win, bounds>>

\* A statement of the journal fails before the change is made.
ClaimFails(a) ==
    /\ phase[a] \in {"prepare", "claim", "claim_action"} /\ Fault("db")
    /\ GoTo(a, "refuse")
    /\ UNCHANGED <<action, closed, step, target, at, resumed, out, undo, win, bounds>>

\* Whatever the step's row said, it now says failed; the action's follows.
Refuse(a) ==
    /\ phase[a] = "refuse" /\ GoTo(a, "settle_failed") /\ Leave(a, "call")
    /\ \/ /\ NoFault
          /\ IF Row(a).status = "absent" THEN UNCHANGED step ELSE SetRow(a, "failed")
       \/ Fault("db") /\ UNCHANGED step
    /\ UNCHANGED <<action, closed, target, at, resumed, out, undo, bounds>>

\* An operation of the library: it changes its object, finds nothing to do,
\* changes only some of its targets, or throws before or after the change.
WriteLibrary(a) ==
    /\ phase[a] = "write" /\ a \notin Notes
    /\ \/ /\ NoFault /\ GoTo(a, "record")
          /\ \/ out' = [out EXCEPT ![a] = "none"] /\ UNCHANGED target
             \/ /\ out' = [out EXCEPT ![a] = "applied"]
                /\ target' = [target EXCEPT ![Object(a)] = at[a]]
             \/ /\ "partial" \in Faults /\ out' = [out EXCEPT ![a] = "partial"]
                /\ target' = [target EXCEPT ![Object(a)] = at[a]]
       \/ /\ Fault("throw") /\ GoTo(a, "reconcile") /\ UNCHANGED out
          /\ target' \in {target, [target EXCEPT ![Object(a)] = at[a]]}
    /\ UNCHANGED <<action, closed, step, at, resumed, undo, win, bounds>>

\* A prepared note change: it is there already, or it replaces the pre-image,
\* or the note holds something else and is left alone.  When its assets cannot
\* be imported, or an earlier call left them incomplete, nothing is written and
\* nothing is read back.
WriteNote(a) ==
    /\ phase[a] = "write" /\ a \in Notes
    /\ \/ /\ target[Object(a)] \in {at[a], Row(a).before} /\ NoFault
          /\ out' = [out EXCEPT ![a] = "applied"] /\ GoTo(a, "record")
          /\ target' = [target EXCEPT ![Object(a)] = at[a]]
       \/ /\ target[Object(a)] \notin {at[a], Row(a).before} /\ NoFault
          /\ GoTo(a, "reconcile") /\ UNCHANGED <<out, target>>
       \/ /\ target[Object(a)] = Row(a).before /\ Fault("throw") /\ UNCHANGED out
          /\ \/ GoTo(a, "clean") /\ UNCHANGED target
             \/ /\ GoTo(a, "reconcile")
                /\ target' \in {target, [target EXCEPT ![Object(a)] = at[a]]}
       \/ /\ target[Object(a)] = Row(a).before /\ GoTo(a, "uncertain")
          /\ (resumed[a] /\ NoFault) \/ Fault("throw")
          /\ UNCHANGED <<out, target>>
    /\ UNCHANGED <<action, closed, step, at, resumed, undo, win, bounds>>

\* A first call of a note change that has provably had no effect.
Unwritten(a) == a \in Notes /\ ~resumed[a] /\ target[Object(a)] = Row(a).before

\* After an error the library is read back.  An operation whose result is in
\* place counts as one that had nothing to do; a note change as applied.
Reconcile(a) ==
    /\ phase[a] = "reconcile"
    /\ \/ /\ target[Object(a)] = at[a] /\ GoTo(a, "rerecord") /\ NoFault
          /\ out' = [out EXCEPT ![a] = IF a \in Notes THEN "applied" ELSE "none"]
       \/ /\ target[Object(a)] # at[a] /\ NoFault /\ UNCHANGED out
          /\ GoTo(a, IF Unwritten(a) THEN "clean" ELSE "uncertain")
       \/ Fault("throw") /\ GoTo(a, "uncertain") /\ UNCHANGED out
    /\ UNCHANGED <<action, closed, step, target, at, resumed, undo, win, bounds>>

\* It is tried once more.  An error that proves that there was no effect
\* again is a failure, any other leaves it open.
TryOnceMore(a) ==
    /\ phase[a] = "clean"
    /\ \/ /\ Unwritten(a) /\ NoFault
          /\ target' = [target EXCEPT ![Object(a)] = at[a]]
          /\ out' = [out EXCEPT ![a] = "applied"] /\ GoTo(a, "rerecord")
       \/ /\ ~Unwritten(a) /\ NoFault /\ UNCHANGED <<target, out>>
          /\ GoTo(a, "failed") \/ (~resumed[a] /\ GoTo(a, "uncertain"))
       \/ /\ Fault("throw") /\ UNCHANGED out
          /\ \/ GoTo(a, "failed") /\ UNCHANGED target
             \/ GoTo(a, "uncertain") /\ UNCHANGED target
             \/ /\ Unwritten(a) /\ GoTo(a, "uncertain")
                /\ target' = [target EXCEPT ![Object(a)] = at[a]]
    /\ UNCHANGED <<action, closed, step, at, resumed, undo, win, bounds>>

Outcome(a) == CASE out[a] = "none"    -> "no_effect"
                [] out[a] = "partial" -> "partially_applied"
                [] out[a] = "applied" -> IF Row(a).inverse THEN "applied"
                                                           ELSE "irreversible"

\* What is read back of a note is not what the call has written.
Differs(a) == a \in Notes /\ target[Object(a)] # at[a]

\* The outcome and the post-image, as read now; then the next step, or the end.
Record(a) ==
    /\ phase[a] \in {"record", "rerecord"} /\ Leave(a, "call") /\ NoFault
    /\ ~Differs(a)
    /\ step' = [step EXCEPT ![at[a]].status = Outcome(a),
                            ![at[a]].after = target[Object(a)]]
    /\ IF Later(at[a]) = {}
       THEN GoTo(a, "finish") /\ UNCHANGED at
       ELSE /\ GoTo(a, "enter")
            /\ \E s \in Following(at[a]) : at' = [at EXCEPT ![a] = s]
    /\ UNCHANGED <<action, closed, target, resumed, out, undo, bounds>>

\* The row cannot be written, or a note holds another change by now.
RecordFails(a) ==
    /\ phase[a] \in {"record", "rerecord"}
    /\ Fault("db") \/ (Differs(a) /\ NoFault)
    /\ GoTo(a, IF phase[a] = "record" THEN "reconcile" ELSE "uncertain")
    /\ UNCHANGED <<action, closed, step, target, at, resumed, out, undo, win, bounds>>

\* The step failed for certain, or nobody knows; the row may not say so.
StepFails(a) ==
    /\ phase[a] \in {"uncertain", "failed"} /\ Leave(a, "call")
    /\ GoTo(a, IF phase[a] = "failed" THEN "settle_failed" ELSE "settle_uncertain")
    /\ \/ SetRow(a, phase[a]) /\ NoFault
       \/ Fault("db") /\ UNCHANGED step
    /\ UNCHANGED <<action, closed, target, at, resumed, out, undo, bounds>>

ChangedSteps(a) == {s \in StepsOf(a) : step[s].status \in Changed}
NoneUndoable(S) == S # {} /\ \A s \in S : ~step[s].inverse

\* The action's row after all its steps.
Finish(a) ==
    /\ phase[a] = "finish" /\ GoTo(a, "idle") /\ NoFault
    /\ closed' = [closed EXCEPT ![a] = NoneUndoable(ChangedSteps(a))]
    /\ action' = [action EXCEPT ![a] =
            IF ChangedSteps(a) = {} THEN "no_effect"
            ELSE IF \E s \in ChangedSteps(a) : step[s].status = "partially_applied"
            THEN "partially_applied"
            ELSE IF NoneUndoable(ChangedSteps(a)) THEN "irreversible" ELSE "applied"]
    /\ UNCHANGED <<step, target, at, resumed, out, undo, win, bounds>>

FinishFails(a) ==
    /\ phase[a] = "finish" /\ Fault("db")
    /\ GoTo(a, IF a \in Notes THEN "settle_uncertain" ELSE "settle_failed")
    /\ UNCHANGED <<action, closed, step, target, at, resumed, out, undo, win, bounds>>

\* The action's row after a failure; its caller gets the error either way.
Settle(a) ==
    /\ phase[a] \in {"settle_uncertain", "settle_failed"} /\ GoTo(a, "idle")
    /\ \/ /\ NoFault
          /\ IF a \notin Notes /\ ChangedSteps(a) # {}
             THEN action' = [action EXCEPT ![a] = "partially_applied"]
             ELSE action' = [action EXCEPT ![a] =
                     IF phase[a] = "settle_uncertain" THEN "uncertain" ELSE "failed"]
          /\ closed' = [closed EXCEPT ![a] = NoneUndoable(
                 ChangedSteps(a) \union
                 IF phase[a] = "settle_uncertain" THEN {at[a]} ELSE {})]
       \/ Fault("db") /\ UNCHANGED <<action, closed>>
    /\ UNCHANGED <<step, target, at, resumed, out, undo, win, bounds>>
-----------------------------------------------------------------------------
\* Undo.

SetUndo(a, u) == undo' = [undo EXCEPT ![a] = u]
UndoAt(a, p) == SetUndo(a, [undo[a] EXCEPT !.phase = p])
Seen(a, s) == undo[a].seen[s]
Last(a) == {s \in undo[a].todo : \A t \in undo[a].todo : t <= s}
Done(a, s, failed) ==
    [undo[a] EXCEPT !.phase = "steps", !.todo = @ \ {s}, !.at = NoStep,
                    !.failed = IF failed THEN TRUE ELSE @]

Undoable == {"applied", "partially_applied", "uncertain", "revert_failed"}

\* An action offered by the history is chosen; its rows are read now.
RequestUndo(a) ==
    /\ undo[a].phase = "idle" /\ undos < MaxUndos /\ undos' = undos + 1
    /\ action[a] \notin {"absent", "reverted", "no_effect", "failed"} /\ ~closed[a]
    /\ Apart(a)
    /\ SetUndo(a, [phase |-> "claim_action", at |-> NoStep, failed |-> FALSE,
                   seen |-> [s \in StepsOf(a) |-> step[s]],
                   todo |-> {s \in StepsOf(a) : step[s].status # "absent"}])
    /\ NoFault /\ UNCHANGED <<action, closed, step, target, call, win, edits, restarts>>

ClaimUndo(a) ==
    /\ undo[a].phase = "claim_action" /\ NoFault
    /\ IF action[a] \in Undoable
       THEN action' = [action EXCEPT ![a] = "reverting"] /\ UndoAt(a, "enter")
       ELSE SetUndo(a, NoUndo(a)) /\ UNCHANGED action
    /\ UNCHANGED <<closed, step, target, call, win, bounds>>

ClaimUndoFails(a) ==
    /\ undo[a].phase = "claim_action" /\ Fault("db") /\ SetUndo(a, NoUndo(a))
    /\ UNCHANGED <<action, closed, step, target, call, win, bounds>>

UndoEnters(a) ==
    /\ undo[a].phase = "enter" /\ Enter(a, "undo") /\ UndoAt(a, "steps") /\ NoFault
    /\ UNCHANGED <<action, closed, step, target, call, bounds>>

\* What the library shows for a step, given the row the undo has read.
Restored(a, s) == /\ Seen(a, s).status = "revert_failed"
                  /\ target[TargetOf[s]] = Seen(a, s).before
Intact(a, s) == target[TargetOf[s]] = Seen(a, s).after
Conflict(a, s) == ~Restored(a, s) /\ ~Intact(a, s)

\* Nothing to take back.
Passed == {"reverted", "no_effect", "failed", "irreversible"}

\* Steps without an effect are passed over, steps whose object has changed
\* since are refused, the others are taken up.
PickStep(a) ==
    /\ undo[a].phase = "steps" /\ NoFault
    /\ \E s \in Last(a) :
          \/ Seen(a, s).status \in Passed /\ SetUndo(a, Done(a, s, FALSE))
          \/ /\ Seen(a, s).status \notin Passed
             /\ SetUndo(a, IF ~Seen(a, s).inverse \/ Conflict(a, s) THEN Done(a, s, TRUE)
                           ELSE [undo[a] EXCEPT !.phase = "claim", !.at = s])
    /\ UNCHANGED <<action, closed, step, target, call, win, bounds>>

ClaimStepUndo(a) ==
    /\ undo[a].phase = "claim" /\ NoFault
    /\ IF step[undo[a].at].status \in {"applied", "uncertain", "revert_failed"}
       THEN /\ step' = [step EXCEPT ![undo[a].at].status = "reverting"]
            /\ UndoAt(a, "recheck")
       ELSE UndoAt(a, "give_up") /\ UNCHANGED step
    /\ UNCHANGED <<action, closed, target, call, win, bounds>>

\* Mutant: no second look.
RecheckSkipped(a) ==
    /\ undo[a].phase = "recheck" /\ NoFault
    /\ UndoAt(a, IF Restored(a, undo[a].at) THEN "mark" ELSE "inverse")
    /\ UNCHANGED <<action, closed, step, target, call, win, bounds>>

\* The last look before the inverse runs.
Recheck(a) ==
    /\ undo[a].phase = "recheck" /\ NoFault
    /\ UndoAt(a, IF Restored(a, undo[a].at) THEN "mark"
                 ELSE IF Intact(a, undo[a].at) THEN "inverse" ELSE "give_up")
    /\ UNCHANGED <<action, closed, step, target, call, win, bounds>>

RunInverse(a) ==
    /\ undo[a].phase = "inverse"
    /\ \/ NoFault /\ UndoAt(a, "reread") /\ target' =
            [target EXCEPT ![TargetOf[undo[a].at]] = Seen(a, undo[a].at).before]
       \/ Fault("throw") /\ UndoAt(a, "give_up") /\ UNCHANGED target
    /\ UNCHANGED <<action, closed, step, call, win, bounds>>

Reread(a) ==
    /\ undo[a].phase = "reread" /\ NoFault
    /\ UndoAt(a, IF target[TargetOf[undo[a].at]] = Seen(a, undo[a].at).before
                 THEN "mark" ELSE "give_up")
    /\ UNCHANGED <<action, closed, step, target, call, win, bounds>>

MarkReverted(a) ==
    /\ undo[a].phase = "mark" /\ NoFault
    /\ step' = [step EXCEPT ![undo[a].at].status = "reverted"]
    /\ SetUndo(a, Done(a, undo[a].at, FALSE))
    /\ UNCHANGED <<action, closed, target, call, win, bounds>>

UndoStepFails(a) ==
    /\ undo[a].phase \in {"claim", "mark"} /\ Fault("db") /\ UndoAt(a, "give_up")
    /\ UNCHANGED <<action, closed, step, target, call, win, bounds>>

GiveUpStep(a) ==
    /\ undo[a].phase = "give_up" /\ SetUndo(a, Done(a, undo[a].at, TRUE))
    /\ \/ NoFault /\ step' = [step EXCEPT ![undo[a].at].status = "revert_failed"]
       \/ Fault("db") /\ UNCHANGED step
    /\ UNCHANGED <<action, closed, target, call, win, bounds>>

Erased(row) == [NoRow EXCEPT !.status = row.status]

\* Mutant: steps that failed are not counted.
FinishUndoAnyway(a) ==
    /\ undo[a].phase = "steps" /\ undo[a].todo = {} /\ NoFault
    /\ action' = [action EXCEPT ![a] = "reverted"]
    /\ step' = [s \in Steps |-> IF ActionOf[s] = a THEN Erased(step[s]) ELSE step[s]]
    /\ SetUndo(a, NoUndo(a)) /\ Leave(a, "undo")
    /\ UNCHANGED <<closed, target, call, bounds>>

\* All steps are through: the undo is final and the inverses are erased in
\* one transaction, or the action stays offered.
FinishUndo(a) ==
    /\ undo[a].phase = "steps" /\ undo[a].todo = {} /\ NoFault
    /\ IF ~undo[a].failed /\ action[a] = "reverting"
       THEN /\ action' = [action EXCEPT ![a] = "reverted"]
            /\ step' = [s \in Steps |-> IF ActionOf[s] = a THEN Erased(step[s])
                                                           ELSE step[s]]
       ELSE action' = [action EXCEPT ![a] = "revert_failed"] /\ UNCHANGED step
    /\ SetUndo(a, NoUndo(a)) /\ Leave(a, "undo")
    /\ UNCHANGED <<closed, target, call, bounds>>

\* The final statement fails: after a failed finalization there is a second
\* attempt to write "revert_failed".
FinishUndoFails(a) ==
    /\ undo[a].phase = "steps" /\ undo[a].todo = {} /\ Fault("db")
    /\ \/ UNCHANGED action
       \/ ~undo[a].failed /\ action' = [action EXCEPT ![a] = "revert_failed"]
    /\ SetUndo(a, NoUndo(a)) /\ Leave(a, "undo")
    /\ UNCHANGED <<closed, step, target, call, bounds>>
-----------------------------------------------------------------------------
\* The environment.

\* Somebody is between reading an object and having written it.
Busy(o) ==
    \/ \E a \in Actions : /\ phase[a] \in {"claim", "claim_action", "write",
                                 "reconcile", "clean", "record", "rerecord"}
                          /\ Object(a) = o
    \/ \E a \in Actions : undo[a].phase = "inverse" /\ TargetOf[undo[a].at] = o

\* The user edits an object; what an edit in the middle of some work on it leaves
\* may be what an earlier one left only in an instance with "repeat".
UserEdits(o) ==
    /\ edits < MaxEdits /\ edits' = edits + 1
    /\ \E n \in 0 .. edits :
          /\ n = edits \/ "repeat" \in Faults
          /\ target' = [target EXCEPT ![o] = IF Busy(o) THEN MidEdit(n) ELSE Edited]
    /\ NoFault /\ UNCHANGED <<action, closed, step, call, undo, win, undos, restarts>>

\* Mutant: a change that was under way counts as not made.
RecoveredStepUnmade(status) ==
    CASE status = "reverting" -> "revert_failed"
      [] status \in {"applying", "prepared"} -> "failed"
      [] OTHER -> status

RecoveredStep(status) ==
    CASE status = "reverting" -> "revert_failed"
      [] status = "applying"  -> "uncertain"
      [] status = "prepared"  -> "failed"
      [] OTHER                -> status

\* Mutant: an undo that was interrupted is not recovered.
RecoveredActionReverting(a) ==
    IF action[a] \in {"prepared", "applying"} THEN "uncertain" ELSE action[a]

RecoveredAction(a) ==
    LET some(S) == \E s \in StepsOf(a) : RecoveredStep(step[s].status) \in S
    IN CASE action[a] = "reverting" -> "revert_failed"
         [] action[a] \in {"prepared", "applying"} ->
              IF some({"uncertain"}) THEN "uncertain"
              ELSE IF some({"applied", "irreversible"}) THEN "partially_applied"
              ELSE IF some({"no_effect", "reverted"}) THEN "no_effect" ELSE "failed"
         [] OTHER -> action[a]

\* Mutant: what nobody knows is final, too.
RetiredUncertain(a, s) ==
    \/ RecoveredStep(step[s].status) \in {"failed", "no_effect", "irreversible", "uncertain"}
    \/ RecoveredAction(a) \in {"failed", "no_effect", "irreversible"}

\* The inverses that are erased when a start finds them in a final state.
Retired(a, s) ==
    \/ RecoveredStep(step[s].status) \in {"failed", "no_effect", "irreversible"}
    \/ RecoveredAction(a) \in {"failed", "no_effect", "irreversible"}

RecoveredClosed(a) ==
    IF action[a] \notin {"prepared", "applying"} \/ RecoveredAction(a) = "uncertain"
    THEN closed[a]
    ELSE NoneUndoable({s \in StepsOf(a) : step[s].status \in {"applied", "irreversible"}})

\* The process stops at any point; the next start repairs the journal.
\* Retiring the inverses may fail and is left to the start after.
Restart ==
    /\ restarts < MaxRestarts /\ restarts' = restarts + 1
    /\ action' = [a \in Actions |-> RecoveredAction(a)]
    /\ closed' = [a \in Actions |-> RecoveredClosed(a)]
    /\ \E retired \in BOOLEAN :
          step' = [s \in Steps |->
              LET row == [step[s] EXCEPT !.status = RecoveredStep(@)] IN
              IF retired /\ Retired(ActionOf[s], s) THEN Erased(row) ELSE row]
    /\ phase' = [a \in Actions |-> "idle"]
    /\ undo' = [a \in Actions |-> NoUndo(a)]
    /\ window' = NoAction
    /\ NoFault /\ UNCHANGED <<target, at, resumed, out, outer, edits, undos>>

CallSteps(a) ==
    \/ EnterWindow(a) \/ Prepare(a) \/ ClaimStep(a) \/ ClaimAction(a) \/ ClaimFails(a)
    \/ Refuse(a) \/ WriteLibrary(a) \/ WriteNote(a) \/ Reconcile(a) \/ TryOnceMore(a)
    \/ Record(a) \/ RecordFails(a) \/ StepFails(a) \/ Finish(a) \/ FinishFails(a)
    \/ Settle(a)

UndoSteps(a) ==
    \/ ClaimUndo(a) \/ ClaimUndoFails(a) \/ UndoEnters(a) \/ PickStep(a)
    \/ ClaimStepUndo(a) \/ Recheck(a) \/ RunInverse(a) \/ Reread(a)
    \/ MarkReverted(a) \/ UndoStepFails(a) \/ GiveUpStep(a) \/ FinishUndo(a)
    \/ FinishUndoFails(a)

Next ==
    \/ \E a \in Actions : Begin(a) \/ Resume(a) \/ RequestUndo(a)
    \/ \E a \in Actions : CallSteps(a) \/ UndoSteps(a)
    \/ \E o \in Objects : UserEdits(o)
    \/ Restart

Spec == Init /\ [][Next]_vars

\* A call that has started goes on until it returns, and the window is handed
\* over in the order of arrival.
Fairness ==
    \A a \in Actions : /\ WF_vars(CallSteps(a)) /\ SF_vars(EnterWindow(a))
                       /\ WF_vars(UndoSteps(a)) /\ SF_vars(UndoEnters(a))
FairSpec == Spec /\ Fairness
-----------------------------------------------------------------------------
Rows == [status : StepStatus, inverse : BOOLEAN,
         before : Value, after : Value \union {NoImage}]

Phases == {"idle", "enter", "prepare", "claim", "claim_action", "refuse", "write",
           "reconcile", "clean", "record", "rerecord", "uncertain", "failed", "finish",
           "settle_uncertain", "settle_failed"}
Replaying == {"claim", "recheck", "inverse", "reread", "mark", "give_up"}
Undos(a) ==
    {u \in [phase : {"idle", "claim_action", "enter", "steps"} \union Replaying,
            seen : [StepsOf(a) -> Rows], todo : SUBSET StepsOf(a),
            at : StepsOf(a) \union {NoStep}, failed : BOOLEAN] :
        u.phase \in Replaying => u.at \in StepsOf(a)}

\* Every variable has the type of what it models.
TypeOK ==
    /\ action \in [Actions -> StepStatus] /\ closed \in [Actions -> BOOLEAN]
    /\ step \in [Steps -> Rows] /\ target \in [Objects -> Value]
    /\ phase \in [Actions -> Phases] /\ resumed \in [Actions -> BOOLEAN]
    /\ out \in [Actions -> {"none", "applied", "partial"}]
    /\ at \in [Actions -> Steps] /\ \A a \in Actions : at[a] \in StepsOf(a)
    /\ DOMAIN undo = Actions /\ \A a \in Actions : undo[a] \in Undos(a)
    /\ window \in Actions \union {NoAction} /\ outer \in {"call", "undo"}
    /\ {faults, edits, undos, restarts} \subseteq Nat

Working(a) == phase[a] \notin {"idle", "enter", "finish", "settle_uncertain", "settle_failed"}
Undoing(a) == undo[a].phase \notin {"idle", "claim_action", "enter"}
Inside(a) == Working(a) \/ Undoing(a)
NobodyAt(a) == phase[a] = "idle" /\ undo[a].phase = "idle"
InPlace(s) == target[TargetOf[s]] = s
\* A change that was found in place after an error counts as no effect of the
\* call (mutationCoordinator.reconcileAfterError).
Unattributed(s) == step[s].status = "no_effect"

\* Only one action's calls are between planning a change and recording it, or
\* replaying an inverse: what Zotero notifies meanwhile is that action's doing.
WindowExclusive ==
    \A a, b \in Actions : Inside(a) /\ Inside(b) => a = b

\* What the journal calls failed is not in the library, a restart in the
\* middle of the action included: nothing is hidden from the undo history.
FailedMeansUntouched ==
    \A s \in Steps : NobodyAt(ActionOf[s]) /\ InPlace(s) /\ ~Unattributed(s) =>
        "failed" \notin {step[s].status, action[ActionOf[s]]}

\* An action that is reported undone has left nothing of what it could undo.
RevertedMeansRestored ==
    \A s \in Steps : action[ActionOf[s]] = "reverted" /\ InPlace(s) =>
        step[s].status = "irreversible" \/ Unattributed(s)

\* A row that says somebody works on it has somebody who does, or can be
\* selected for undo again: nothing is left "applying" or "reverting" for ever.
InFlightHasOwner ==
    \A a \in Actions :
        /\ action[a] \in {"prepared", "applying"} => phase[a] # "idle"
        /\ action[a] = "reverting" => undo[a].phase \notin {"idle", "claim_action"}

\* The inverse of a change is only erased when the change is not in the
\* library any more.
ErasesNoLiveChange ==
    [][\A s \in Steps : step[s].inverse /\ ~step'[s].inverse =>
           ~InPlace(s) \/ Unattributed(s)]_vars

\* An edit the user made while nobody worked on the object is never lost to an
\* undo; only a later write of the agent replaces it.
UndoSparesEdits ==
    [][\A o \in Objects : target[o] = Edited /\ target'[o] \notin {Edited} \union MidEdits =>
           \E a \in Actions : phase[a] \in {"write", "clean"} /\ Object(a) = o]_vars

\* Every call and every undo comes to an end and leaves a row that says how.
ActionsSettle ==
    \A a \in Actions : action[a] \in {"prepared", "applying", "reverting"} ~>
                       action[a] \notin {"prepared", "applying", "reverting"}
=============================================================================
