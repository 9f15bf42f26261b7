--------------------------- MODULE PendingDeletion ---------------------------
(***************************************************************************)
(* Durable deletion of conversations and of single turns:                  *)
(* core/conversations/pendingDeletionStore.ts, the finalizers of           *)
(* modules/contextPanel/conversationDeletion.ts it calls, the write fence  *)
(* and the requests that write through it.                                 *)
(*                                                                         *)
(* Deleting something first inserts an intent (a write-ahead row) which    *)
(* can be undone for six seconds; then the intent is finalized: the local  *)
(* rows are deleted and the intent is withdrawn.  A failure is retried for *)
(* ever.  All operations of one conversation run one after another in its  *)
(* lane; each "await" of the code ends an atomic step here, so operations  *)
(* of other conversations, timers, the loader, user actions, running       *)
(* requests and a crash of Zotero come between any two steps.              *)
(*                                                                         *)
(* Time is kept as what the code asks of it: whether the Undo window of an *)
(* intent is over ("expired"), and whether a timer is armed.               *)
(***************************************************************************)
EXTENDS WriteFence, Naturals, Sequences, FiniteSets

CONSTANTS
    Turn,          \* question/answer pairs
    ConvOf,        \* the conversation a turn belongs to
    MaxId,         \* bound: how many deletions are ever requested
    LaneMax,       \* bound: user actions wait while a lane is this long
    MaxCrash,      \* bound: how often Zotero crashes or is restarted
    Faults,        \* which operations can fail
    UnreadableRow, \* the table holds a row that cannot be decoded
    NoTarget       \* the target of an intent never requested

AllFaults ==
    { "insert",    \* INSERT of an intent
      "mark",      \* UPDATE of an intent's state
      "withdraw",  \* DELETE of an intent
      "select",    \* reading the intents back
      "verify",    \* the identity of the conversation cannot be established
      "delete",    \* the transaction that deletes local rows
      "cleanup" }  \* work after that transaction

Target == Conv \cup Turn
Id     == 1 .. MaxId

ASSUME ConvOfAssumption  == ConvOf \in [Turn -> Conv]
ASSUME TargetAssumption  == Conv \cap Turn = {} /\ NoTarget \notin Conv \cup Turn
ASSUME BoundAssumption   == MaxId \in Nat /\ LaneMax \in Nat /\ MaxCrash \in Nat
ASSUME FaultAssumption   == Faults \subseteq AllFaults
ASSUME UnreadableAssumption == UnreadableRow \in BOOLEAN

VARIABLES
    \* durable: survives a crash
    row,         \* the intents in the table, by id: their state, or "none"
    target,      \* what each intent deletes
    nextId,      \* how many deletions were requested: each gets the next id
    expired,     \* the intents whose Undo window is over
    alive,       \* the conversations and turns whose rows exist
    \* the store's memory
    entry,       \* entries: the state of each loaded intent, or "none"
    timer,       \* timers: "off", "expiry" or "retry"
    destroyed,   \* destructivelyFinalizedIds
    lane,        \* conversationOpChains: the operations of each conversation
    pc,          \* where the operation at the head of each lane is
    todo,        \* the turn intents a whole-conversation delete still purges
    \* the process
    ui,          \* panels can mount
    swept,       \* the deferred startup sweep was started
    fenceLoaded, \* persistedFenceLoaded
    loader,      \* loadPersistedIntentsUnlocked
    crashes,
    \* history, read by properties only
    undone       \* intents whose Undo reported "restored"

durable == <<row, target, nextId, expired, alive>>
memory  == <<entry, timer, destroyed>>
lanes   == <<lane, pc, todo>>
process == <<ui, swept, fenceLoaded, loader, crashes>>
vars    == <<durable, memory, lanes, process, undone, fence>>

-------------------------------------------------------------------------------
(***************************** Intents and lanes *****************************)

DeletionState ==
    { "undoable", "committing", "retrying_local", "quarantined_identity",
      "cleanup_pending", "complete" }

IntentState == DeletionState \cup {"none"}

KeyOf(x) == IF x \in Conv THEN x ELSE ConvOf[x]
Used     == {i \in Id : target[i] # NoTarget}
Key(i)   == KeyOf(target[i])
IsConv(i) == target[i] \in Conv
IsTurn(i) == target[i] \in Turn

\* A conversation goes with its turns.
RowsOf(x) == IF x \in Conv THEN {x} \cup {y \in Turn : ConvOf[y] = x} ELSE {x}

QueueOp(i)      == [op |-> "queue", id |-> i]
UndoOp(i)       == [op |-> "undo", id |-> i]
FinalizeOp(i)   == [op |-> "finalize", id |-> i]     \* finalize(id)
FinalizeTurn(i) == [op |-> "finalizeTurn", id |-> i] \* one of finalizeTurnsForConversation
TurnsOp         == [op |-> "turns"]                  \* finalizeTurnsForConversation

Op == [op : {"queue", "undo", "finalize", "finalizeTurn"}, id : Id] \cup {TurnsOp}

OpPhase ==
    { "start", "insert", "undoing", "mark", "verify", "stale", "delete",
      "post", "purge", "scrub", "withdraw", "quarantine", "deleteTurn",
      "postTurn", "cleanupMark", "fail" }

Waiting(k) == {lane[k][n] : n \in DOMAIN lane[k]}
Head1(k)   == lane[k][1]
Running(k, phase) == lane[k] # <<>> /\ pc[k] = phase

\* hasConversationEntriesForConversation, hasTurnEntries.., hasEntries..
ConvEntries(k) == {i \in Used : entry[i] # "none" /\ IsConv(i) /\ Key(i) = k}
TurnEntries(k) == {i \in Used : entry[i] # "none" /\ IsTurn(i) /\ Key(i) = k}
EntriesOf(k)   == ConvEntries(k) \cup TurnEntries(k)

\* unrecordedConversationQueueIntents and unrecordedQueueIntents count the
\* queue operations from the request until the operation has run: those in
\* the lane.
HasConvQueueIntent(ops) == \E o \in ops : o.op = "queue" /\ IsConv(o.id)
HasQueueIntent(ops)     == \E o \in ops : o.op = "queue"

\* isConversationPendingDeletion
IsPendingDeletion(k) == HasQueueIntent(Waiting(k)) \/ ConvEntries(k) # {}

\* scheduledFinalizations: a finalize(id) in the lane is not scheduled again.
Scheduled(i) == FinalizeOp(i) \in Waiting(Key(i))

\* The operation at the head of lane k ends; others behind it remain.
Rest(k)     == {lane[k][n] : n \in DOMAIN lane[k] \ {1}}
EndOp(k)    == /\ lane' = [lane EXCEPT ![k] = Tail(@)]
               /\ pc' = [pc EXCEPT ![k] = "start"]
GoTo(k, phase) == pc' = [pc EXCEPT ![k] = phase] /\ UNCHANGED lane
Enqueue(k, o)  == lane' = [lane EXCEPT ![k] = Append(@, o)]

\* removeEntry(id)
RemoveEntry(i) ==
    /\ entry' = [entry EXCEPT ![i] = "none"]
    /\ timer' = [timer EXCEPT ![i] = "off"]
    /\ destroyed' = destroyed \ {i}

\* An UPDATE of an intent's row: no row, no effect.
Updated(i, state) ==
    IF row[i] = "none" THEN row ELSE [row EXCEPT ![i] = state]

\* persistConversationState whose result is not looked at.
TryUpdate(i, state) ==
    \/ row' = Updated(i, state)
    \/ "mark" \in Faults /\ row' = row

Arm(i, kind) == timer' = [timer EXCEPT ![i] = kind]

\* Mutant: a deletion does not take the write lock.
LockIgnored(k) == TRUE

\* No critical section of k is open.
LockFree(k) == NoWriterInside(k) /\ ~Running(k, "postTurn")

NoFence == UNCHANGED fence

-------------------------------------------------------------------------------
(********************************* Requests **********************************)

Room(k) == Len(lane[k]) < LaneMax

\* A deletion of x is requested: its operation joins the lane.
RequestDeletion(x) ==
    /\ ui /\ x \in alive /\ Room(KeyOf(x)) /\ nextId < MaxId
    /\ nextId' = nextId + 1
    /\ target' = [target EXCEPT ![nextId + 1] = x]
    /\ frozen' = frozen \cup {KeyOf(x)}
    /\ Enqueue(KeyOf(x), QueueOp(nextId + 1))
    /\ UNCHANGED <<row, expired, alive, memory, pc, todo, process, undone>>

\* queueConversationDeletion, its synchronous part.
RequestConversationDeletion(k) ==
    /\ RequestDeletion(k)
    /\ LET hadExistingIntent == HasConvQueueIntent(Waiting(k)) \/ ConvEntries(k) # {}
       IN  writer' = Cross(k, ~hadExistingIntent)

\* queueTurnDeletion, its synchronous part.
RequestTurnDeletion(x) ==
    /\ RequestDeletion(x)
    /\ writer' = Cross(ConvOf[x], TRUE)

\* The Undo button of a panel or of the standalone window: undo(id).
RequestUndo(i) ==
    /\ ui /\ i \in Used /\ entry[i] # "none" /\ Room(Key(i))
    /\ Enqueue(Key(i), UndoOp(i))
    /\ UNCHANGED <<durable, memory, pc, todo, process, undone, fence>>

\* A fork finalizes the pending turns it overlaps: finalize(id, "fork-overlap").
RequestFork(i) ==
    /\ ui /\ i \in Used /\ entry[i] # "none" /\ IsTurn(i) /\ ~Scheduled(i)
    /\ Enqueue(Key(i), FinalizeOp(i))
    /\ UNCHANGED <<durable, memory, pc, todo, process, undone, fence>>

\* A send, retry or edit starts: it refuses to run before the intents are
\* loaded, and asks for the pending turns of its chat to be finalized.
BeginSend(w, k) ==
    /\ ui /\ fenceLoaded /\ k \in alive
    /\ writer[w].phase = "idle"
    /\ writer' = [writer EXCEPT ![w] =
            [phase |-> "waiting", key |-> k, current |-> FALSE, crossed |-> FALSE]]
    /\ IF HasQueueIntent(Waiting(k)) \/ TurnEntries(k) # {}
       THEN Room(k) /\ Enqueue(k, TurnsOp)
       ELSE UNCHANGED lane
    /\ UNCHANGED <<durable, memory, pc, todo, process, undone, frozen>>

\* awaitPendingTurnFinalize is time-boxed: the send goes on whether or not the
\* turns are finalized, unless the conversation itself is being deleted.
PassPendingCheck(w) ==
    /\ writer[w].phase = "waiting"
    /\ IF IsPendingDeletion(writer[w].key) THEN Finish(w) ELSE MoveTo(w, "preparing")
    /\ UNCHANGED <<durable, memory, lanes, process, undone, frozen>>

SendCaptures(w) ==
    /\ CaptureGeneration(w)
    /\ UNCHANGED <<durable, memory, lanes, process, undone>>

\* validateConversationScopeForItem: the registry still knows the conversation.
ValidateScope(w) ==
    /\ writer[w].phase = "captured"
    /\ IF writer[w].key \in alive THEN MoveTo(w, "ready") ELSE Finish(w)
    /\ UNCHANGED <<durable, memory, lanes, process, undone, frozen>>

\* A write waits for the lock, which the turn finalizer holds too.
SendEnters(w) ==
    /\ LockFree(writer[w].key)
    /\ EnterWrite(w)
    /\ UNCHANGED <<durable, memory, lanes, process, undone>>

SendLeaves(w) ==
    /\ LeaveWrite(w)
    /\ UNCHANGED <<durable, memory, lanes, process, undone>>

-------------------------------------------------------------------------------
(*********************** The lane: queueing an intent ************************)

\* Mutant: other intents of the conversation are forgotten.
AbandonQueueBlindly(k) == frozen' = frozen \ {k}

\* Mutant: the check comes before the operation's own intent is released.
AbandonQueueEarly(k) ==
    frozen' = IF HasQueueIntent(Waiting(k)) \/ EntriesOf(k) # {} THEN frozen ELSE frozen \ {k}

\* The queue operation ends without an intent: it is no longer unrecorded, and
\* the fence reopens unless another intent needs it.
AbandonQueue(k) ==
    LET keep == IF IsConv(Head1(k).id)
                THEN HasConvQueueIntent(Rest(k)) \/ ConvEntries(k) # {}
                ELSE HasQueueIntent(Rest(k)) \/ EntriesOf(k) # {}
    IN  frozen' = IF keep THEN frozen ELSE frozen \ {k}

\* An intent for the same conversation or turn makes this one superfluous.
StartQueue(k) ==
    /\ Running(k, "start") /\ Head1(k).op = "queue"
    /\ IF \E i \in EntriesOf(k) : target[i] = target[Head1(k).id]
       THEN EndOp(k) /\ AbandonQueue(k)
       ELSE GoTo(k, "insert") /\ UNCHANGED frozen
    /\ UNCHANGED <<durable, memory, todo, process, undone, writer>>

InsertIntent(k) ==
    /\ Running(k, "insert")
    /\ row' = [row EXCEPT ![Head1(k).id] = "undoable"]
    /\ entry' = [entry EXCEPT ![Head1(k).id] = "undoable"]
    /\ Arm(Head1(k).id, "expiry")
    /\ EndOp(k)
    /\ UNCHANGED <<target, nextId, expired, alive, destroyed, todo, process, undone, fence>>

InsertFails(k) ==
    /\ Running(k, "insert") /\ "insert" \in Faults
    /\ AbandonQueue(k)
    /\ EndOp(k)
    /\ UNCHANGED <<durable, memory, todo, process, undone, writer>>

-------------------------------------------------------------------------------
(****************************** The lane: Undo *******************************)

\* Mutant: the state of the intent is not looked at.
StartUndoAnyState(k) ==
    /\ Running(k, "start") /\ Head1(k).op = "undo"
    /\ IF entry[Head1(k).id] # "none" /\ Head1(k).id \notin expired
       THEN GoTo(k, "undoing")
       ELSE EndOp(k)
    /\ UNCHANGED <<durable, memory, todo, process, undone, fence>>

StartUndo(k) ==
    /\ Running(k, "start") /\ Head1(k).op = "undo"
    /\ LET i == Head1(k).id IN
       IF entry[i] = "undoable" /\ i \notin expired /\ i \notin destroyed
       THEN GoTo(k, "undoing")
       ELSE EndOp(k)
    /\ UNCHANGED <<durable, memory, todo, process, undone, fence>>

\* Mutant: other intents of the conversation are forgotten.
UndoBlindly(k) ==
    /\ Running(k, "undoing")
    /\ LET i == Head1(k).id IN
       /\ row' = [row EXCEPT ![i] = "none"]
       /\ RemoveEntry(i)
       /\ undone' = undone \cup {i}
    /\ frozen' = frozen \ {k}
    /\ writer' = Bump(k)
    /\ EndOp(k)
    /\ UNCHANGED <<target, nextId, expired, alive, todo, process>>

\* Mutant: the fence is not reopened.
UndoKeepsFence(k) ==
    /\ Running(k, "undoing")
    /\ LET i == Head1(k).id IN
       /\ row' = [row EXCEPT ![i] = "none"]
       /\ RemoveEntry(i)
       /\ undone' = undone \cup {i}
    /\ writer' = Bump(k)
    /\ EndOp(k)
    /\ UNCHANGED <<target, nextId, expired, alive, todo, process, frozen>>

\* The row is withdrawn, the generation bumped, and the fence reopened unless
\* another intent of the conversation needs it.
UndoDone(k) ==
    /\ Running(k, "undoing")
    /\ LET i == Head1(k).id IN
       /\ row' = [row EXCEPT ![i] = "none"]
       /\ RemoveEntry(i)
       /\ undone' = undone \cup {i}
       /\ frozen' = IF HasQueueIntent(Rest(k)) \/ EntriesOf(k) \ {i} # {}
                    THEN frozen ELSE frozen \ {k}
    /\ writer' = Bump(k)
    /\ EndOp(k)
    /\ UNCHANGED <<target, nextId, expired, alive, todo, process>>

UndoFails(k) ==
    /\ Running(k, "undoing") /\ "withdraw" \in Faults
    /\ EndOp(k)
    /\ UNCHANGED <<durable, memory, todo, process, undone, fence>>

-------------------------------------------------------------------------------
(************************* The lane: finalizing turns ************************)

\* The sequences that list each element of S once.
Listings(S) ==
    { s \in [1 .. Cardinality(S) -> S] : \A i \in S : \E n \in DOMAIN s : s[n] = i }

\* finalizeTurnsForConversation: its own turns, one after the other.
StartTurns(k) ==
    /\ Running(k, "start") /\ Head1(k) = TurnsOp
    /\ \E s \in Listings(TurnEntries(k)) :
          lane' = [lane EXCEPT ![k] =
                      [n \in DOMAIN s |-> FinalizeTurn(s[n])] \o Tail(@)]
    /\ UNCHANGED <<durable, memory, pc, todo, process, undone, fence>>

-------------------------------------------------------------------------------
(************************* The lane: finalizeInternal ************************)

\* Mutant: the state in memory is left to the marker.
StartFinalizeUndoable(k) ==
    /\ Running(k, "start") /\ Head1(k).op \in {"finalize", "finalizeTurn"}
    /\ LET i == Head1(k).id IN
       IF entry[i] = "none"
       THEN EndOp(k) /\ UNCHANGED timer
       ELSE Arm(i, "off") /\ GoTo(k, "mark")
    /\ UNCHANGED <<durable, entry, destroyed, todo, process, undone, fence>>

\* A conversation moves to "committing" and writes the marker; a turn does so
\* only when its state in memory is still "undoable".
StartFinalize(k) ==
    /\ Running(k, "start") /\ Head1(k).op \in {"finalize", "finalizeTurn"}
    /\ LET i == Head1(k).id IN
       IF entry[i] = "none"
       THEN EndOp(k) /\ UNCHANGED <<entry, timer>>
       ELSE /\ Arm(i, "off")
            /\ IF IsConv(i) \/ entry[i] = "undoable"
               THEN /\ entry' = [entry EXCEPT ![i] = "committing"]
                    /\ GoTo(k, "mark")
               ELSE /\ UNCHANGED entry
                    /\ GoTo(k, "deleteTurn")
    /\ UNCHANGED <<durable, destroyed, todo, process, undone, fence>>

\* persistConversationState: a conversation goes on whatever the outcome.
MarkConversation(k) ==
    /\ Running(k, "mark") /\ IsConv(Head1(k).id)
    /\ TryUpdate(Head1(k).id, "committing")
    /\ GoTo(k, "verify")
    /\ UNCHANGED <<target, nextId, expired, alive, memory, todo, process, undone, fence>>

\* Mutant: the marker is not written.
MarkTurnInMemory(k) ==
    /\ Running(k, "mark") /\ IsTurn(Head1(k).id)
    /\ GoTo(k, "deleteTurn")
    /\ UNCHANGED <<durable, memory, todo, process, undone, fence>>

MarkTurn(k) ==
    /\ Running(k, "mark") /\ IsTurn(Head1(k).id)
    /\ row' = Updated(Head1(k).id, "committing")
    /\ GoTo(k, "deleteTurn")
    /\ UNCHANGED <<target, nextId, expired, alive, memory, todo, process, undone, fence>>

\* A turn whose marker cannot be written is retried later.
MarkTurnFails(k) ==
    /\ Running(k, "mark") /\ IsTurn(Head1(k).id) /\ "mark" \in Faults
    /\ Arm(Head1(k).id, "retry")
    /\ EndOp(k)
    /\ UNCHANGED <<durable, entry, destroyed, todo, process, undone, fence>>

\* repairQueuedConversationIdentity and classifyQueuedConversationDeletionStaleness.
VerifyFresh(k) ==
    /\ Running(k, "verify") /\ k \in alive
    /\ GoTo(k, "delete")
    /\ UNCHANGED <<durable, memory, todo, process, undone, fence>>

\* Mutant: a conversation that exists is taken for a stale one.
VerifyStaleAlways(k) ==
    /\ Running(k, "verify")
    /\ frozen' = frozen \ {k}
    /\ writer' = Bump(k)
    /\ GoTo(k, "stale")
    /\ UNCHANGED <<durable, memory, todo, process, undone>>

\* The conversation is already gone: releaseStaleWriteFence.
VerifyStale(k) ==
    /\ Running(k, "verify") /\ k \notin alive
    /\ frozen' = frozen \ {k}
    /\ writer' = Bump(k)
    /\ GoTo(k, "stale")
    /\ UNCHANGED <<durable, memory, todo, process, undone>>

\* "unknown" is a plain failure, "unverifiable" a quarantine.
VerifyFails(k) ==
    /\ Running(k, "verify") /\ "verify" \in Faults
    /\ \E phase \in {"fail", "quarantine"} : GoTo(k, phase)
    /\ UNCHANGED <<durable, memory, todo, process, undone, fence>>

Quarantine(k) ==
    /\ Running(k, "quarantine")
    /\ LET i == Head1(k).id IN
       /\ entry' = [entry EXCEPT ![i] = "quarantined_identity"]
       /\ TryUpdate(i, "quarantined_identity")
       /\ Arm(i, "retry")
    /\ EndOp(k)
    /\ UNCHANGED <<target, nextId, expired, alive, destroyed, todo, process, undone, fence>>

\* deleteLocalConversationRows: one transaction inside the write lock.
DeleteConversation(k) ==
    /\ Running(k, "delete") /\ LockFree(k)
    /\ alive' = alive \ RowsOf(k)
    /\ GoTo(k, "post")
    /\ UNCHANGED <<row, target, nextId, expired, memory, todo, process, undone, fence>>

DeleteConversationFails(k) ==
    /\ Running(k, "delete") /\ "delete" \in Faults
    /\ GoTo(k, "fail")
    /\ UNCHANGED <<durable, memory, todo, process, undone, fence>>

\* Caches, agent state, attachments and the provider's job, after the
\* transaction or (retryPostCommitCleanupForDeletedInstance) on a retry.
CleanUpConversation(k) ==
    /\ Running(k, "post") \/ Running(k, "stale")
    /\ todo' = [todo EXCEPT ![k] = TurnEntries(k)]
    /\ GoTo(k, "purge")
    /\ UNCHANGED <<durable, memory, process, undone, fence>>

CleanUpFails(k) ==
    /\ Running(k, "post") \/ Running(k, "stale")
    /\ "cleanup" \in Faults
    /\ GoTo(k, "fail")
    /\ UNCHANGED <<durable, memory, todo, process, undone, fence>>

\* purgePendingTurnEntriesForConversation, one row at a time.
PurgeTurn(k) ==
    /\ Running(k, "purge")
    /\ \E j \in todo[k] :
          /\ row' = [row EXCEPT ![j] = "none"]
          /\ RemoveEntry(j)
          /\ todo' = [todo EXCEPT ![k] = @ \ {j}]
    /\ UNCHANGED <<target, nextId, expired, alive, lane, pc, process, undone, fence>>

PurgeFails(k) ==
    /\ Running(k, "purge") /\ todo[k] # {} /\ "withdraw" \in Faults
    /\ todo' = [todo EXCEPT ![k] = {}]
    /\ GoTo(k, "fail")
    /\ UNCHANGED <<durable, memory, process, undone, fence>>

\* The deletion is done; what the provider still owes is in the state.
PurgeDone(k) ==
    /\ Running(k, "purge") /\ todo[k] = {}
    /\ destroyed' = destroyed \cup {Head1(k).id}
    /\ \E state \in {"complete", "cleanup_pending"} :
          entry' = [entry EXCEPT ![Head1(k).id] = state]
    /\ GoTo(k, "scrub")
    /\ UNCHANGED <<durable, timer, todo, process, undone, fence>>

\* Mutant: the state written is one no reader knows.
ScrubUnreadable(k) ==
    /\ Running(k, "scrub")
    /\ row' = Updated(Head1(k).id, "done")
    /\ GoTo(k, "withdraw")
    /\ UNCHANGED <<target, nextId, expired, alive, memory, todo, process, undone, fence>>

ScrubManifest(k) ==
    /\ Running(k, "scrub")
    /\ row' = Updated(Head1(k).id, entry[Head1(k).id])
    /\ GoTo(k, "withdraw")
    /\ UNCHANGED <<target, nextId, expired, alive, memory, todo, process, undone, fence>>

ScrubFails(k) ==
    /\ Running(k, "scrub") /\ "mark" \in Faults
    /\ GoTo(k, "fail")
    /\ UNCHANGED <<durable, memory, todo, process, undone, fence>>

\* deleteTurnMessages, inside the write lock, which stays held.
DeleteTurn(k) ==
    /\ Running(k, "deleteTurn") /\ LockFree(k)
    /\ alive' = alive \ {target[Head1(k).id]}
    /\ GoTo(k, "postTurn")
    /\ UNCHANGED <<row, target, nextId, expired, memory, todo, process, undone, fence>>

DeleteTurnFails(k) ==
    /\ Running(k, "deleteTurn") /\ LockFree(k) /\ "delete" \in Faults
    /\ GoTo(k, "fail")
    /\ UNCHANGED <<durable, memory, todo, process, undone, fence>>

\* Provider session, agent state and attachment references of the turn.
CleanUpTurn(k) ==
    /\ Running(k, "postTurn")
    /\ destroyed' = destroyed \cup {Head1(k).id}
    /\ GoTo(k, "withdraw")
    /\ UNCHANGED <<durable, entry, timer, todo, process, undone, fence>>

CleanUpTurnFails(k) ==
    /\ Running(k, "postTurn") /\ "cleanup" \in Faults
    /\ destroyed' = destroyed \cup {Head1(k).id}
    /\ entry' = [entry EXCEPT ![Head1(k).id] = "cleanup_pending"]
    /\ GoTo(k, "cleanupMark")
    /\ UNCHANGED <<durable, timer, todo, process, undone, fence>>

MarkCleanUpPending(k) ==
    /\ Running(k, "cleanupMark")
    /\ TryUpdate(Head1(k).id, "cleanup_pending")
    /\ GoTo(k, "fail")
    /\ UNCHANGED <<target, nextId, expired, alive, memory, todo, process, undone, fence>>

\* deleteRowStrict: the intent is withdrawn.  A turn reopens the fence; the
\* key of a deleted conversation stays frozen.
Withdraw(k) ==
    /\ Running(k, "withdraw")
    /\ LET i == Head1(k).id
           reopen == IsTurn(i) /\ ~HasQueueIntent(Rest(k)) /\ EntriesOf(k) \ {i} = {}
       IN  /\ row' = [row EXCEPT ![i] = "none"]
           /\ RemoveEntry(i)
           /\ frozen' = IF reopen THEN frozen \ {k} ELSE frozen
           /\ writer' = IF reopen THEN Bump(k) ELSE writer
    /\ EndOp(k)
    /\ UNCHANGED <<target, nextId, expired, alive, todo, process, undone>>

\* Mutant: no retry is armed.
WithdrawFailsForGood(k) ==
    /\ Running(k, "withdraw") /\ "withdraw" \in Faults
    /\ EndOp(k)
    /\ UNCHANGED <<durable, memory, todo, process, undone, fence>>

WithdrawFails(k) ==
    /\ Running(k, "withdraw") /\ "withdraw" \in Faults
    /\ Arm(Head1(k).id, "retry")
    /\ EndOp(k)
    /\ UNCHANGED <<durable, entry, destroyed, todo, process, undone, fence>>

\* Mutant: no retry is armed.
FinalizeGivesUp(k) ==
    /\ Running(k, "fail")
    /\ EndOp(k)
    /\ UNCHANGED <<durable, memory, todo, process, undone, fence>>

\* There is no give-up: the intent stays and its retry is scheduled.
FinalizeFails(k) ==
    /\ Running(k, "fail")
    /\ LET i == Head1(k).id IN
       /\ IF IsConv(i)
          THEN /\ entry' = [entry EXCEPT ![i] = "retrying_local"]
               /\ TryUpdate(i, "retrying_local")
          ELSE UNCHANGED <<entry, row>>
       /\ Arm(i, "retry")
    /\ EndOp(k)
    /\ UNCHANGED <<target, nextId, expired, alive, destroyed, todo, process, undone, fence>>

-------------------------------------------------------------------------------
(****************************** Time and sweeps ******************************)

\* Six seconds after an intent was queued.  Windows have one length, so within
\* a conversation they end in the order they began.
UndoWindowEnds(i) ==
    /\ i \in Used \ expired
    /\ row[i] # "none" \/ entry[i] # "none"
    /\ \A j \in Used : j < i /\ Key(j) = Key(i) /\ row[j] # "none" => j \in expired
    /\ expired' = expired \cup {i}
    /\ UNCHANGED <<row, target, nextId, alive, memory, lanes, process, undone, fence>>

\* armTimer's callback: finalize(id, "timeout").
TimerFires(i) ==
    /\ timer[i] = "retry" \/ (timer[i] = "expiry" /\ i \in expired)
    /\ Arm(i, "off")
    /\ IF entry[i] = "none" \/ Scheduled(i)
       THEN UNCHANGED lane
       ELSE Enqueue(Key(i), FinalizeOp(i))
    /\ UNCHANGED <<durable, entry, destroyed, pc, todo, process, undone, fence>>

\* finalize(id) for every id of S, in some order.
FinalizeAll(S) ==
    LET Of(k) == {i \in S : Key(i) = k /\ ~Scheduled(i)} IN
    \E s \in [Conv -> UNION {[1 .. n -> S] : n \in 0 .. Cardinality(S)}] :
        /\ \A k \in Conv : s[k] \in Listings(Of(k))
        /\ lane' = [k \in Conv |->
                      lane[k] \o [n \in DOMAIN s[k] |-> FinalizeOp(s[k][n])]]

\* A panel mounts: sweepExpired.  A retry that is scheduled is left alone.  The
\* code keeps later loads out (opChain) until these finalizations have run; here
\* a load may begin while they run, so more orders are allowed, not fewer.
SweepExpired ==
    LET due == {i \in Used \cap expired : entry[i] # "none" /\ timer[i] # "retry"} IN
    /\ ui /\ loader.phase = "idle"
    /\ \E i \in due : ~Scheduled(i)
    /\ FinalizeAll(due)
    /\ UNCHANGED <<durable, memory, pc, todo, process, undone, fence>>

-------------------------------------------------------------------------------
(************************* Loading the intents back **************************)

NoRows == [i \in Id |-> "none"]
LoaderAt(phase, sweep, due) ==
    [phase |-> phase, sweep |-> sweep, snapshot |-> NoRows, due |-> due]
IdleLoader == LoaderAt("idle", FALSE, {})

\* What a process that starts finds: it loads the fence before panels mount.
BootLoader == LoaderAt("select", FALSE, {})
NoTimers   == [i \in Id |-> "off"]
NoLanes    == [k \in Conv |-> <<>>]
AtStart    == [k \in Conv |-> "start"]
NoTodo     == [k \in Conv |-> {}]

\* What the loader does, in one go, with the rows S of what it read.
LoadRows(S, snapshot) ==
    LET new == {i \in S : entry[i] = "none"}
        keys == {Key(i) : i \in new}
    IN  /\ entry' = [i \in Id |-> IF i \in new THEN snapshot[i] ELSE entry[i]]
        /\ timer' = [i \in Id |->
              IF i \in S \ expired /\ snapshot[i] = "undoable" THEN "expiry" ELSE timer[i]]
        /\ frozen' = frozen \cup keys
        /\ writer' = BumpAll(keys)

\* The rows a sweep finalizes at once.
Due(S, snapshot) == {i \in S : i \in expired \/ snapshot[i] # "undoable"}

\* The load is over: the fence is complete, and a sweep finalizes what is due.
LoadEnds(due) ==
    /\ fenceLoaded' = TRUE
    /\ loader' = IF loader.sweep
                 THEN LoaderAt("sweeping", FALSE, due)
                 ELSE IdleLoader

StartLoad(sweep) ==
    /\ loader.phase = "idle"
    /\ loader' = LoaderAt("select", sweep, {})

\* A send finds the fence not loaded: ensurePersistedFenceLoaded.
EnsureFenceLoaded ==
    /\ ui /\ ~fenceLoaded
    /\ StartLoad(FALSE)
    /\ UNCHANGED <<durable, memory, lanes, ui, swept, fenceLoaded, crashes, undone, fence>>

\* The deferred startup task: sweepAllPersisted("startup-sweep").
StartupSweep ==
    /\ ui /\ ~swept
    /\ swept' = TRUE
    /\ StartLoad(TRUE)
    /\ UNCHANGED <<durable, memory, lanes, ui, fenceLoaded, crashes, undone, fence>>

\* The rows are read.  The loop over them only pauses at a row it cannot
\* decode, to mark it: the rows after that one are taken from what was read.
SelectIntents ==
    /\ loader.phase = "select"
    /\ LET all == {i \in Id : row[i] # "none"} IN
       \E S \in SUBSET all :
          /\ UnreadableRow \/ S = all
          /\ LoadRows(S, row)
          /\ IF UnreadableRow
             THEN /\ loader' =
                        [phase |-> "unreadable", sweep |-> loader.sweep,
                         snapshot |-> [i \in Id |-> IF i \in S THEN "none" ELSE row[i]],
                         due |-> Due(S, row)]
                  /\ UNCHANGED <<ui, fenceLoaded>>
             ELSE LoadEnds(Due(S, row)) /\ ui' = TRUE
    /\ UNCHANGED <<durable, destroyed, lanes, swept, crashes, undone>>

MarkUnreadable ==
    /\ loader.phase = "unreadable"
    /\ LET S == {i \in Id : loader.snapshot[i] # "none"} IN
       /\ LoadRows(S, loader.snapshot)
       /\ LoadEnds(loader.due \cup Due(S, loader.snapshot))
    /\ ui' = TRUE
    /\ UNCHANGED <<durable, destroyed, lanes, swept, crashes, undone>>

\* A failed load does not abort startup.
SelectFails ==
    /\ loader.phase = "select" /\ "select" \in Faults
    /\ loader' = IdleLoader
    /\ ui' = TRUE
    /\ UNCHANGED <<durable, memory, lanes, swept, fenceLoaded, crashes, undone, fence>>

\* The loader returned; sweepAllPersisted finalizes the rows that are due.  As
\* in SweepExpired the next load need not wait for them.
SweepDue ==
    /\ loader.phase = "sweeping"
    /\ FinalizeAll({i \in loader.due : entry[i] # "none"})
    /\ loader' = IdleLoader
    /\ UNCHANGED <<durable, memory, pc, todo, ui, swept, fenceLoaded, crashes, undone, fence>>

-------------------------------------------------------------------------------
(********************************* The system ********************************)

\* Zotero stops at any point and starts again: only the tables survive.
Crash ==
    /\ crashes < MaxCrash
    /\ crashes' = crashes + 1
    /\ entry' = NoRows /\ timer' = NoTimers /\ destroyed' = {}
    /\ lane' = NoLanes /\ pc' = AtStart /\ todo' = NoTodo
    /\ ui' = FALSE /\ swept' = FALSE /\ fenceLoaded' = FALSE
    /\ loader' = BootLoader
    /\ frozen' = {}
    /\ writer' = [w \in Writer |-> AtRest(w)]
    /\ UNCHANGED <<durable, undone>>

Init ==
    /\ row = NoRows
    /\ target = [i \in Id |-> NoTarget]
    /\ nextId = 0 /\ expired = {} /\ undone = {} /\ crashes = 0
    /\ alive = Target
    /\ entry = NoRows /\ timer = NoTimers /\ destroyed = {}
    /\ lane = NoLanes /\ pc = AtStart /\ todo = NoTodo
    /\ ui = FALSE /\ swept = FALSE /\ fenceLoaded = FALSE
    /\ loader = BootLoader
    /\ frozen = {}
    /\ writer \in [Writer -> [phase : {"idle"}, key : Conv, current : {FALSE}, crossed : {FALSE}]]

Finalize(k) ==
    \/ StartFinalize(k)
    \/ MarkConversation(k) \/ MarkTurn(k) \/ MarkTurnFails(k)
    \/ VerifyFresh(k) \/ VerifyStale(k) \/ VerifyFails(k) \/ Quarantine(k)
    \/ DeleteConversation(k) \/ DeleteConversationFails(k)
    \/ CleanUpConversation(k) \/ CleanUpFails(k)
    \/ PurgeTurn(k) \/ PurgeFails(k) \/ PurgeDone(k)
    \/ ScrubManifest(k) \/ ScrubFails(k)
    \/ DeleteTurn(k) \/ DeleteTurnFails(k)
    \/ CleanUpTurn(k) \/ CleanUpTurnFails(k) \/ MarkCleanUpPending(k)
    \/ Withdraw(k) \/ WithdrawFails(k) \/ FinalizeFails(k)

Lane(k) ==
    \/ StartQueue(k) \/ InsertIntent(k) \/ InsertFails(k)
    \/ StartUndo(k) \/ UndoDone(k) \/ UndoFails(k)
    \/ StartTurns(k)
    \/ Finalize(k)

Load ==
    \/ EnsureFenceLoaded \/ StartupSweep
    \/ SelectIntents \/ MarkUnreadable \/ SelectFails \/ SweepDue

Send(w) ==
    \/ \E k \in Conv : BeginSend(w, k)
    \/ PassPendingCheck(w) \/ SendCaptures(w) \/ ValidateScope(w)
    \/ SendEnters(w) \/ SendLeaves(w)

\* Nothing is under way and nobody has to do anything.
Quiet ==
    /\ loader.phase = "idle"
    /\ \A k \in Conv : lane[k] = <<>>
    /\ \A w \in Writer : writer[w].phase = "idle"
    /\ UNCHANGED vars

Next ==
    \/ \E k \in Conv : RequestConversationDeletion(k) \/ Lane(k)
    \/ \E x \in Turn : RequestTurnDeletion(x)
    \/ \E i \in Id : RequestUndo(i) \/ RequestFork(i) \/ UndoWindowEnds(i) \/ TimerFires(i)
    \/ \E w \in Writer : Send(w)
    \/ SweepExpired
    \/ Load
    \/ Crash
    \/ Quiet

Spec == Init /\ [][Next]_vars

\* The steps in which something of the environment lets the store down.
Failure ==
    \/ \E k \in Conv :
          \/ MarkTurnFails(k) \/ VerifyFails(k) \/ DeleteConversationFails(k)
          \/ CleanUpFails(k) \/ PurgeFails(k) \/ ScrubFails(k)
          \/ DeleteTurnFails(k) \/ CleanUpTurnFails(k) \/ WithdrawFails(k)
    \/ SelectFails

\* Promises settle, timers fire, transactions end, the startup task runs; and
\* a failure that is retried for ever is one day over.
Fairness ==
    /\ \A k \in Conv : WF_vars(Lane(k))
    /\ \A i \in Id : WF_vars(UndoWindowEnds(i)) /\ WF_vars(TimerFires(i))
    /\ \A w \in Writer : WF_vars(SendLeaves(w))
    /\ WF_vars(Load)
    /\ <>[][~Failure]_vars

FairSpec == Spec /\ Fairness

-------------------------------------------------------------------------------
(******************************** Properties *********************************)

LoaderRecord ==
    [phase : {"idle", "select", "unreadable", "sweeping"}, sweep : BOOLEAN,
     snapshot : [Id -> IntentState], due : SUBSET Id]

DurableTypeOK ==
    /\ row \in [Id -> IntentState]
    /\ target \in [Id -> Target \cup {NoTarget}]
    /\ nextId \in 0 .. MaxId
    /\ expired \subseteq Id
    /\ alive \subseteq Target

MemoryTypeOK ==
    /\ entry \in [Id -> IntentState]
    /\ timer \in [Id -> {"off", "expiry", "retry"}]
    /\ destroyed \subseteq Id

LaneTypeOK ==
    /\ lane \in [Conv -> Seq(Op)]
    /\ pc \in [Conv -> OpPhase]
    /\ todo \in [Conv -> SUBSET Id]

ProcessTypeOK ==
    /\ ui \in BOOLEAN /\ swept \in BOOLEAN /\ fenceLoaded \in BOOLEAN
    /\ loader \in LoaderRecord
    /\ crashes \in 0 .. MaxCrash
    /\ undone \subseteq Id

\* Every variable has the shape the code gives it.
TypeOK == DurableTypeOK /\ MemoryTypeOK /\ LaneTypeOK /\ ProcessTypeOK /\ FenceTypeOK

\* While a conversation that still exists has a deletion in the store, its
\* writes are frozen, whatever other intents of it come and go.
ConversationFence ==
    \A i \in Used :
        entry[i] # "none" /\ IsConv(i) /\ target[i] \in alive => target[i] \in frozen

\* The same of a pending turn deletion: the comment in queueTurnDeletion says
\* its conversation is frozen "while the intent is undoable/finalizing".
TurnFence ==
    \A i \in Used :
        entry[i] # "none" /\ IsTurn(i) /\ Key(i) \in alive => Key(i) \in frozen

\* A conversation that still exists does not stay frozen once nothing of it is
\* pending: a failed or undone deletion gives the chat back.
NoFrozenLeak ==
    \A k \in alive \cap frozen : EntriesOf(k) # {} \/ HasQueueIntent(Waiting(k))

\* A write in progress is a write into a conversation that still exists.
NoWriteAfterDelete ==
    \A w \in Writer : writer[w].phase = "writing" => writer[w].key \in alive

\* Once the startup sweep is over, an intent in the store always has its next
\* attempt ahead of it: a timer, or a place in its lane.
Heartbeat ==
    swept /\ loader.phase = "idle" =>
        \A i \in Used :
            entry[i] # "none" => \/ timer[i] # "off"
                                \/ \E o \in Waiting(Key(i)) : o # TurnsOp /\ o.id = i

\* Writers that enter the critical section in this step.
Entering(w) == writer[w].phase = "ready" /\ writer'[w].phase = "writing"

\* No write starts in a conversation with a durable deletion that is not
\* finished, in this run of Zotero or an earlier one.
NoWriteIntoPendingDeletion ==
    [][\A w \in Writer : Entering(w) =>
          \A i \in Used : row[i] # "none" => target[i] # writer[w].key]_vars

\* A request from before a deletion was asked for never writes after it, not
\* even when the deletion was undone.
NoWriteAcrossDecision ==
    [][\A w \in Writer : Entering(w) => ~writer[w].crossed]_vars

\* The decision to delete is never lost: a durable intent disappears only by
\* an Undo, or when what it deletes is gone.
DecisionDurable ==
    [][\A i \in Id : row[i] # "none" /\ row'[i] = "none" =>
          i \in undone' \/ target[i] \notin alive]_vars

\* Undo reports a restored conversation or turn only when its rows exist.
UndoRestoresRows ==
    [][\A i \in undone' \ undone : target[i] \in alive]_vars

\* The same where only one deletion was ever asked for of what was restored:
\* no crash and no failure of the finalizer makes it a lie.
OnlyDecision(i) == \A j \in Used \ {i} : target[j] \notin {target[i], Key(i)}

LoneUndoRestoresRows ==
    [][\A i \in undone' \ undone : OnlyDecision(i) => target[i] \in alive]_vars

\* The lane of k is finalizing a turn.
IsTurnAtHead(k) ==
    lane[k] # <<>> /\ Head1(k).op \in {"finalize", "finalizeTurn"} /\ IsTurn(Head1(k).id)

\* The rows of a turn go only after the durable state of the intent that
\* deletes them has left "undoable".
MarkerPrecedesRows ==
    [][\A k \in Conv :
          IsTurnAtHead(k) /\ target[Head1(k).id] \in alive \ alive'
              => row[Head1(k).id] # "undoable"]_vars

\* A conversation or turn goes only on behalf of an intent that covers it, that
\* was not undone and whose Undo is over: an Undo in the lane behind its
\* finalization is refused.
UndoIsFinal ==
    [][\A x \in alive \ alive' : \E i \in Used \ undone :
          x \in RowsOf(target[i]) /\ entry[i] \notin {"none", "undoable"}]_vars

\* A decision to delete is carried out, undone or found void in the end.
EveryDecisionSettles == \A i \in Id : row[i] # "none" ~> row[i] = "none"

\* A chat whose writes were frozen is given back, or is gone.
ChatComesBack == \A k \in Conv : k \in frozen ~> k \notin frozen \/ k \notin alive

-------------------------------------------------------------------------------
(************************ The promise and how it is kept *********************)

\* A decision is pending while its row is in the table.
DecisionStatus ==
    [i \in Id |-> IF row[i] # "none" THEN "pending"
                 ELSE IF i \in undone THEN "restored"
                 ELSE "absent"]

Kept ==
    INSTANCE DeletionPromise WITH
        Decision <- Id, Thing <- Target, Covers <- RowsOf,
        status <- DecisionStatus, subject <- target, exists <- alive

\* The store implements the promise: every step of it is a step the promise
\* allows, or changes nothing the promise speaks of.
KeepsPromise == Kept!Promise
===============================================================================
