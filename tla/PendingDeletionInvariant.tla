----------------------- MODULE PendingDeletionInvariant -----------------------
(***************************************************************************)
(* The inductive invariant of PendingDeletion: what is true between any    *)
(* two steps and is preserved by each of them.  Its parts say which        *)
(* operation a lane is at, what it knows of the intent it is about, and    *)
(* what is gone by then.                                                   *)
(***************************************************************************)
EXTENDS PendingDeletion

HeadId(k) == Head1(k).id

\* In the middle of an operation that operation is at the head of its lane.
BusyHead == \A k \in Conv : pc[k] # "start" => lane[k] # <<>> /\ Head1(k) # TurnsOp

\* Ids are handed out in order.
IdsInOrder == \A i \in Used : i <= nextId

\* What is loaded, stored, snapshotted or about to be swept was requested.
OnlyUsed ==
    \A i \in Id \ Used :
        entry[i] = "none" /\ row[i] = "none" /\ loader.snapshot[i] = "none"

\* An operation is about an intent of the conversation whose lane it is in.
LaneOfKey ==
    \A k \in Conv : \A o \in Waiting(k) : o # TurnsOp => o.id \in Used /\ Key(o.id) = k

\* A purge is about turns of its conversation.
TodoOfKey ==
    \A k \in Conv : \A i \in todo[k] : i \in Used /\ IsTurn(i) /\ Key(i) = k

ConversationPhase == {"verify", "stale", "delete", "post", "purge", "scrub", "quarantine"}
TurnPhase         == {"deleteTurn", "postTurn", "cleanupMark"}
FinalizePhase     == ConversationPhase \cup TurnPhase \cup {"mark", "withdraw", "fail"}

\* Each phase belongs to one kind of operation and of intent, and from its
\* first step to its last an undo or a finalization has its entry.
PhaseOf(k) ==
    pc[k] # "start" =>
        /\ pc[k] = "insert" <=> Head1(k).op = "queue"
        /\ pc[k] = "undoing" <=> Head1(k).op = "undo"
        /\ pc[k] \in FinalizePhase <=> Head1(k).op \in {"finalize", "finalizeTurn"}
        /\ pc[k] # "insert" => entry[HeadId(k)] # "none"
        /\ pc[k] \in ConversationPhase => IsConv(HeadId(k))
        /\ pc[k] \in TurnPhase => IsTurn(HeadId(k))

PhaseOfOp == \A k \in Conv : PhaseOf(k)

\* Turns go with their conversation.
TurnsGoToo == \A x \in Turn : x \in alive => ConvOf[x] \in alive

\* Past the transaction, what the intent deletes is gone.
GoneBy(k) ==
    pc[k] \in {"post", "stale", "purge", "scrub", "postTurn", "cleanupMark", "withdraw"}
        => target[HeadId(k)] \notin alive

GoneByThen == \A k \in Conv : GoneBy(k)

LaneInv == BusyHead /\ IdsInOrder /\ OnlyUsed /\ LaneOfKey /\ TodoOfKey

StepInv == PhaseOfOp /\ TurnsGoToo /\ GoneByThen

\* A deletion of an existing conversation that waits to be recorded has frozen
\* it already.
QueueFence ==
    \A k \in Conv : HasConvQueueIntent(Waiting(k)) /\ k \in alive => k \in frozen

FenceInv == QueueFence /\ ConversationFence

IInv == TypeOK /\ LaneInv /\ StepInv /\ FenceInv

-------------------------------------------------------------------------------
(***************************************************************************)
(* What the fence means for requests that write.                           *)
(***************************************************************************)

\* A request of k that nothing would stop from writing, now or next.
MayWrite(w) ==
    /\ writer[w].phase \in {"ready", "writing"}
    /\ writer[w].current /\ writer[w].key \notin frozen

\* A deletion of conversation k waits to be recorded, or is loaded.
Deleting(k) == HasConvQueueIntent(Waiting(k)) \/ ConvEntries(k) # {}

\* Nobody may write into a conversation that is being deleted, whether or not
\* its rows are gone already.
DeletionBlocks ==
    \A k \in Conv : \A w \in Writer : Deleting(k) /\ writer[w].key = k => ~MayWrite(w)

\* Once the fence is loaded, every row of the table is known to the store; while
\* it is being loaded, what is not known yet was read.
RowsLoaded ==
    /\ fenceLoaded => \A i \in Id : row[i] # "none" => entry[i] # "none"
    /\ loader.phase = "unreadable" =>
          \A i \in Id : row[i] # "none" => entry[i] # "none" \/ loader.snapshot[i] # "none"

\* Requests begin after that.
FenceFirst == \A w \in Writer : writer[w].phase # "idle" => fenceLoaded

BlockInv == DeletionBlocks /\ RowsLoaded /\ FenceFirst

\* Where every intent can be recorded, the fence stands for turns as well: while
\* anything of a conversation waits to be recorded, or is loaded.
AnyFence ==
    /\ \A k \in Conv : HasQueueIntent(Waiting(k)) /\ k \in alive => k \in frozen
    /\ \A i \in Used : entry[i] # "none" /\ Key(i) \in alive => Key(i) \in frozen

\* Who writes, or may, has a conversation to write into.
WritersAlive ==
    \A w \in Writer : MayWrite(w) \/ writer[w].phase = "writing" => writer[w].key \in alive

\* A request that a deletion has crossed has an old generation or a frozen key.
CrossedStopped ==
    \A w \in Writer : Captured(w) /\ writer[w].crossed /\ writer[w].current
                         => writer[w].key \in frozen

-------------------------------------------------------------------------------
(***************************************************************************)
(* What waits to be recorded, and what the table knows of the decisions.   *)
(***************************************************************************)

\* A deletion that waits to be recorded waits once, and nobody knows it yet.
QueueOnce ==
    \A k \in Conv : \A m, n \in DOMAIN lane[k] :
        lane[k][m].op = "queue" /\ lane[k][n] = lane[k][m] => m = n
Unknown(i) == row[i] = "none" /\ entry[i] = "none" /\ loader.snapshot[i] = "none"
QueueNew ==
    \A k \in Conv : \A o \in Waiting(k) : o.op = "queue" => Unknown(o.id)

QueueInv == QueueOnce /\ QueueNew

\* Where every row can be decoded, what is loaded is in the table, and what was
\* undone is neither there nor waiting to be.
EntryHasRow == \A i \in Id : entry[i] # "none" => row[i] # "none"
UndoneIsOut == \A i \in undone : i \in Used /\ row[i] = "none"
QueueFresh ==
    \A k \in Conv : \A o \in Waiting(k) : o.op = "queue" => o.id \notin undone

RecordInv == loader.phase # "unreadable" /\ EntryHasRow /\ UndoneIsOut /\ QueueFresh

\* From its first step on a finalization is of an intent whose Undo is over.
DecidedInv == \A k \in Conv : pc[k] \in FinalizePhase => entry[HeadId(k)] # "undoable"

\* Where the marker can always be written: an undo is of an undoable intent, and
\* from its marker on a finalization is of one that is not, here or in the table.
MarkerOf(k) ==
    /\ pc[k] = "undoing" => entry[HeadId(k)] = "undoable"
    /\ pc[k] \in FinalizePhase => entry[HeadId(k)] # "undoable"
    /\ pc[k] \in FinalizePhase \ {"mark"} => row[HeadId(k)] # "undoable"

\* The table may be behind the store only where the marker is being written, and
\* is never behind what a load has read of it.
TableFollows ==
    \A i \in Id : entry[i] \notin {"none", "undoable"} /\ row[i] = "undoable"
        => pc[Key(i)] = "mark" /\ HeadId(Key(i)) = i
SnapshotBehind ==
    \A i \in Id : loader.snapshot[i] \notin {"none", "undoable"} => row[i] # "undoable"

MarkInv == TableFollows /\ SnapshotBehind /\ \A k \in Conv : MarkerOf(k)

\* What only one decision speaks of exists for as long as it can be undone.
LoneInv ==
    \A i \in Used :
        OnlyDecision(i)
        /\ (row[i] = "undoable" \/ entry[i] = "undoable" \/ QueueOp(i) \in Waiting(Key(i)))
            => target[i] \in alive

-------------------------------------------------------------------------------
(***************************************************************************)
(* Where the next attempt of an intent is, if SELECT does not fail.        *)
(***************************************************************************)

Attempts == {"finalize", "finalizeTurn"}
Hearted(i) == timer[i] # "off" \/ \E o \in Waiting(Key(i)) : o.op \in Attempts /\ o.id = i

\* Nothing happens before the first load; only the sweep loads again.
Loading == loader.phase \in {"select", "unreadable"}
BootInv ==
    /\ ui => fenceLoaded
    /\ ~ui => Loading
    /\ ui /\ Loading => loader.sweep
    /\ loader.sweep \/ loader.phase = "sweeping" => swept
    /\ swept => ui

\* The first load finds an empty store, so until the sweep reads the table again
\* all that is loaded, and all that is left to load, is in it.
FirstLoad ==
    ~ui /\ loader.phase = "select" =>
        (\A i \in Id : entry[i] = "none") /\ \A k \in Conv : Waiting(k) = {}
UntilSweep ==
    /\ ~swept \/ loader.phase = "select" => EntryHasRow
    /\ ~swept => \A i \in Id : loader.snapshot[i] # "none" => entry[i] = "none" /\ row[i] # "none"
TodoLoaded ==
    \A k \in Conv :
        /\ pc[k] # "purge" => todo[k] = {}
        /\ \A i \in todo[k] : entry[i] # "none"

LoadInv == FirstLoad /\ UntilSweep /\ TodoLoaded

\* From the sweep's load on, an intent has a next attempt or is about to get one.
Coming(i) ==
    \/ loader.phase \in {"unreadable", "sweeping"} /\ i \in loader.due
    \/ loader.phase = "unreadable" /\ loader.snapshot[i] # "none"
SweptInv ==
    swept /\ loader.phase # "select" =>
        \A i \in Used : entry[i] # "none" => Hearted(i) \/ Coming(i)

HeartInv == BootInv /\ LoadInv /\ SweptInv
===============================================================================
