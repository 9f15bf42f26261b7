--------------------- MODULE PendingDeletionPromise_proof ---------------------
(***************************************************************************)
(* What PendingDeletion promises: it implements DeletionPromise, an Undo   *)
(* is final and true, rows of a turn go behind a marker, and every intent  *)
(* has a next attempt.  Each theorem says which faults it needs excluded.  *)
(***************************************************************************)
EXTENDS PendingDeletionFence_proof

-------------------------------------------------------------------------------
\* A waiting deletion is recorded once: the positions of a lane.
Once(s) == \A m, n \in DOMAIN s : s[m].op = "queue" /\ s[n] = s[m] => m = n

\* An operation that ends leaves the others in their order.
LEMMA OnceTail ==
    ASSUME TypeOK, NEW k \in Conv, lane[k] # <<>>, Once(lane[k]), EndOp(k)
    PROVE  Once(lane'[k])
<1>1. lane[k] \in Seq(Op) /\ lane'[k] = Tail(lane[k])
  BY DEF TypeOK, LaneTypeOK, EndOp
<1>2. /\ DOMAIN Tail(lane[k]) = 1 .. Len(Tail(lane[k])) /\ DOMAIN lane[k] = 1 .. Len(lane[k])
      /\ Len(Tail(lane[k])) = Len(lane[k]) - 1 /\ Len(lane[k]) \in Nat
      /\ \A n \in 1 .. Len(Tail(lane[k])) : Tail(lane[k])[n] = lane[k][n + 1]
  BY <1>1, HeadTailProperties, LenProperties
<1>3. ASSUME NEW n \in DOMAIN Tail(lane[k])
      PROVE  n \in Int /\ n + 1 \in DOMAIN lane[k] /\ Tail(lane[k])[n] = lane[k][n + 1]
  BY <1>2
<1>4. ASSUME NEW m \in DOMAIN Tail(lane[k]), NEW n \in DOMAIN Tail(lane[k]),
             Tail(lane[k])[m].op = "queue", Tail(lane[k])[n] = Tail(lane[k])[m]
      PROVE  m = n
  <2>1. m + 1 = n + 1
    BY <1>3, <1>4 DEF Once
  <2> QED BY <1>3, <2>1
<1> QED BY <1>1, <1>4 DEF Once

\* Turns that are finalized in place of an operation are no waiting deletions.
LEMMA OnceTurns ==
    ASSUME TypeOK, NEW k \in Conv, Once(lane[k]), StartTurns(k)
    PROVE  Once(lane'[k])
<1>1. PICK d \in Nat :
        \A n \in DOMAIN lane'[k] :
           \/ lane'[k][n] \in {FinalizeTurn(i) : i \in TurnEntries(k)}
           \/ n - d + 1 \in DOMAIN lane[k] \ {1} /\ lane'[k][n] = lane[k][n - d + 1]
  BY StartTurnsShape
<1>2. \A n \in DOMAIN lane'[k] : n \in Int
  BY StartTurnsShape, LenProperties
<1>3. ASSUME NEW m \in DOMAIN lane'[k], NEW n \in DOMAIN lane'[k],
             lane'[k][m].op = "queue", lane'[k][n] = lane'[k][m]
      PROVE  m = n
  <2>1. n - d + 1 = m - d + 1
    <3>1. \A i : FinalizeTurn(i).op # "queue"
      BY DEF FinalizeTurn
    <3> QED BY <1>1, <1>3, <3>1 DEF Once
  <2> QED BY <1>2, <2>1
<1> QED BY <1>3 DEF Once

\* What joins a lane is another one, or none at all.
LEMMA OnceAppend ==
    ASSUME TypeOK, NEW k \in Conv, NEW o \in Op, Once(lane[k]), Enqueue(k, o),
           o.op = "queue" => o \notin Waiting(k)
    PROVE  Once(lane'[k])
<1>1. lane[k] \in Seq(Op) /\ lane'[k] = Append(lane[k], o)
  BY DEF TypeOK, LaneTypeOK, Enqueue
<1>2. /\ DOMAIN lane'[k] = 1 .. (Len(lane[k]) + 1) /\ DOMAIN lane[k] = 1 .. Len(lane[k])
      /\ Len(lane[k]) \in Nat
      /\ \A n \in 1 .. Len(lane[k]) : lane'[k][n] = lane[k][n]
      /\ lane'[k][Len(lane[k]) + 1] = o
  <2>1. /\ Append(lane[k], o) \in Seq(Op) /\ Len(Append(lane[k], o)) = Len(lane[k]) + 1
        /\ \A n \in 1 .. Len(lane[k]) : Append(lane[k], o)[n] = lane[k][n]
        /\ Append(lane[k], o)[Len(lane[k]) + 1] = o
    BY <1>1, AppendProperties
  <2> QED BY <1>1, <2>1, LenProperties
<1>3. ASSUME NEW m \in DOMAIN lane'[k], NEW n \in DOMAIN lane'[k],
             lane'[k][m].op = "queue", lane'[k][n] = lane'[k][m]
      PROVE  m = n
  <2>1. CASE m \in DOMAIN lane[k] /\ n \in DOMAIN lane[k]
    BY <1>2, <1>3, <2>1 DEF Once
  <2>2. CASE m \notin DOMAIN lane[k] /\ n \in DOMAIN lane[k]
    BY <1>2, <1>3, <2>2 DEF Waiting
  <2>3. CASE m \in DOMAIN lane[k] /\ n \notin DOMAIN lane[k]
    BY <1>2, <1>3, <2>3 DEF Waiting
  <2>4. CASE m \notin DOMAIN lane[k] /\ n \notin DOMAIN lane[k]
    BY <1>2, <2>4
  <2> QED BY <2>1, <2>2, <2>3, <2>4
<1> QED BY <1>3 DEF Once

\* A sweep appends no waiting deletions.
LEMMA OnceSweep ==
    ASSUME TypeOK, NEW S \in SUBSET Id, FinalizeAll(S), NEW k \in Conv, Once(lane[k])
    PROVE  Once(lane'[k])
<1>1. /\ \A n \in DOMAIN lane[k] : lane'[k][n] = lane[k][n]
      /\ \A n \in DOMAIN lane'[k] \ DOMAIN lane[k] :
            lane'[k][n] \in {FinalizeOp(i) : i \in {m \in S : Key(m) = k}}
  BY FinalizeAllShape
<1>2. \A i : FinalizeOp(i).op # "queue"
  BY DEF FinalizeOp
<1>3. \A n \in DOMAIN lane'[k] : n \in DOMAIN lane[k] \/ lane'[k][n].op # "queue"
  BY <1>1, <1>2
<1> QED BY <1>1, <1>3 DEF Once

\* A lane step keeps it.
LEMMA LaneOnce ==
    ASSUME TypeOK, LaneInv, QueueOnce, NEW k \in Conv, Lane(k)
    PROVE  QueueOnce'
<1>1. \A j \in Conv \ {k} : lane'[j] = lane[j]
  BY OtherLanes
<1>2. Once(lane'[k])
  <2>1. Once(lane[k]) /\ lane[k] # <<>>
    BY LaneHead DEF QueueOnce, Once, LaneInv
  <2>2. CASE StartTurns(k)
    BY <2>1, <2>2, OnceTurns
  <2>3. CASE EndOp(k)
    BY <2>1, <2>3, OnceTail
  <2>4. CASE lane' = lane
    BY <2>1, <2>4
  <2> QED BY <2>2, <2>3, <2>4 DEF GoTo, Lane, Finalize, StartQueue, InsertIntent, InsertFails,
    StartUndo, UndoDone, UndoFails, StartFinalize, MarkConversation, MarkTurn, MarkTurnFails,
    VerifyFresh, VerifyStale, VerifyFails, Quarantine, DeleteConversation,
    DeleteConversationFails, CleanUpConversation, CleanUpFails, PurgeTurn, PurgeFails,
    PurgeDone, ScrubManifest, ScrubFails, DeleteTurn, DeleteTurnFails, CleanUpTurn,
    CleanUpTurnFails, MarkCleanUpPending, Withdraw, WithdrawFails, FinalizeFails
<1> QED BY <1>1, <1>2 DEF QueueOnce, Once

\* So do steps from outside.
LEMMA OutsideOnce ==
    ASSUME TypeOK, LaneInv, QueueOnce, Outside
    PROVE  QueueOnce'
<1>1. \A k \in Conv : Once(lane[k])
  BY DEF QueueOnce, Once
<1> SUFFICES \A k \in Conv : Once(lane'[k])
  BY DEF QueueOnce, Once
<1>2. CASE UNCHANGED lane
  BY <1>1, <1>2
<1>3. CASE \E k : \E o \in Op : Enqueue(k, o) /\ (o.op = "queue" => k \in Conv /\ o \notin Waiting(k))
  <2>1. PICK k : \E o \in Op : Enqueue(k, o) /\ (o.op = "queue" => k \in Conv /\ o \notin Waiting(k))
    BY <1>3
  <2>2. PICK o \in Op : Enqueue(k, o) /\ (o.op = "queue" => k \in Conv /\ o \notin Waiting(k))
    BY <2>1
  <2>3. CASE k \in Conv
    <3>1. \A j \in Conv \ {k} : lane'[j] = lane[j]
      BY <2>2, EnqueueLanes, <2>3
    <3>2. Once(lane'[k])
      BY <1>1, <2>2, <2>3, OnceAppend
    <3> QED BY <1>1, <3>1, <3>2
  <2>4. CASE k \notin Conv
    BY <1>2, <2>2, <2>4 DEF Enqueue, TypeOK, LaneTypeOK
  <2> QED BY <2>3, <2>4
<1>4. CASE \E S \in SUBSET Id : FinalizeAll(S)
  BY <1>1, <1>4, OnceSweep
<1>5. \A i \in Id : /\ UndoOp(i) \in Op /\ FinalizeOp(i) \in Op /\ QueueOp(i) \in Op
                    /\ UndoOp(i).op # "queue" /\ FinalizeOp(i).op # "queue"
  BY DEF UndoOp, FinalizeOp, QueueOp, Op
<1>6. CASE \E x \in Target : RequestDeletion(x)
  <2>1. PICK x \in Target : RequestDeletion(x)
    BY <1>6
  <2>2. nextId + 1 \in Id /\ nextId + 1 \notin Used
    BY <2>1, BoundAssumption DEF RequestDeletion, TypeOK, DurableTypeOK, Id, LaneInv, IdsInOrder
  <2>3. QueueOp(nextId + 1) # TurnsOp /\ QueueOp(nextId + 1).id = nextId + 1
    BY TurnsOpName DEF QueueOp
  <2>4. \A k \in Conv : QueueOp(nextId + 1) \notin Waiting(k)
    BY <2>2, <2>3 DEF LaneInv, LaneOfKey
  <2>5. KeyOf(x) \in Conv /\ Enqueue(KeyOf(x), QueueOp(nextId + 1))
    BY <2>1, KeyOfTarget DEF RequestDeletion
  <2> QED BY <1>3, <1>5, <2>2, <2>4, <2>5
<1>7. CASE \/ \E k \in Conv : RequestConversationDeletion(k)
           \/ \E x \in Turn : RequestTurnDeletion(x)
  BY <1>6, <1>7 DEF RequestConversationDeletion, RequestTurnDeletion, Target
<1>8. CASE \E i \in Id : RequestUndo(i) \/ RequestFork(i) \/ UndoWindowEnds(i) \/ TimerFires(i)
  BY <1>2, <1>3, <1>5, <1>8 DEF RequestUndo, RequestFork, UndoWindowEnds, TimerFires, lanes
<1>9. CASE \E w \in Writer : Send(w)
  <2>1. TurnsOp \in Op /\ TurnsOp.op # "queue"
    BY TurnsOpName DEF Op
  <2> QED BY <1>2, <1>3, <1>9, <2>1 DEF Send, BeginSend, PassPendingCheck, SendCaptures,
         ValidateScope, SendEnters, SendLeaves, lanes
<1>10. CASE SweepExpired \/ Load \/ UNCHANGED vars
  BY <1>2, <1>4, <1>10 DEF SweepExpired, Load, EnsureFenceLoaded, StartupSweep,
     SelectIntents, MarkUnreadable, SelectFails, SweepDue, lanes, vars, Used, TypeOK,
     ProcessTypeOK, LoaderRecord
<1> QED BY <1>7, <1>8, <1>9, <1>10 DEF Outside

-------------------------------------------------------------------------------
USE DEF Lane, Finalize, StartQueue, InsertIntent, InsertFails, StartUndo, UndoDone, UndoFails,
    StartTurns, StartFinalize, MarkConversation, MarkTurn, MarkTurnFails, VerifyFresh,
    VerifyStale, VerifyFails, Quarantine, DeleteConversation, DeleteConversationFails,
    CleanUpConversation, CleanUpFails, PurgeTurn, PurgeFails, PurgeDone, ScrubManifest,
    ScrubFails, DeleteTurn, DeleteTurnFails, CleanUpTurn, CleanUpTurnFails,
    MarkCleanUpPending, Withdraw, WithdrawFails, FinalizeFails

\* How a step of a lane changes the table: one way in, and a row that goes takes
\* the entry of its intent along.
LEMMA LaneTable ==
    ASSUME TypeOK, LaneInv, StepInv, NEW k \in Conv, Lane(k), NEW i \in Id
    PROVE  /\ row[i] # "none" /\ row'[i] = "none" => entry'[i] = "none"
           /\ row[i] # "none" /\ row'[i] = "none" => UndoDone(k) \/ Withdraw(k) \/ PurgeTurn(k)
           /\ row[i] = "none" /\ row'[i] # "none" => InsertIntent(k) /\ i = HeadId(k)
           /\ undone \subseteq undone'
           /\ i \in undone' \ undone => UndoDone(k) /\ i = HeadId(k) /\ row'[i] = "none"
<1> HIDE DEF StartTurns
<1>1. CASE StartTurns(k)
  BY <1>1 DEF StartTurns, durable, memory
<1>2. CASE ~StartTurns(k)
  <2>1. PhaseOf(k) /\ HeadId(k) \in Id
    BY <1>2, LaneHead DEF StepInv, PhaseOfOp, LaneInv
  <2>2. undone' = undone \/ (UndoDone(k) /\ undone' = undone \cup {HeadId(k)})
    BY <1>2 DEF HeadId
  <2>3. CASE UndoDone(k)
    BY <2>1, <2>2, <2>3 DEF HeadId, RemoveEntry, TypeOK, DurableTypeOK, MemoryTypeOK
  <2>4. CASE Withdraw(k)
    BY <2>1, <2>2, <2>4 DEF HeadId, RemoveEntry, TypeOK, DurableTypeOK, MemoryTypeOK, Running
  <2>5. CASE PurgeTurn(k)
    BY <2>1, <2>2, <2>5 DEF RemoveEntry, TypeOK, DurableTypeOK, MemoryTypeOK, Running
  <2>6. CASE InsertIntent(k)
    BY <2>1, <2>2, <2>6 DEF HeadId, TypeOK, DurableTypeOK, Running
  <2>7. CASE ~UndoDone(k) /\ ~Withdraw(k) /\ ~PurgeTurn(k) /\ ~InsertIntent(k)
    <3>1. pc[k] = "scrub" => entry[HeadId(k)] # "none"
      BY <2>1, <2>7 DEF PhaseOf
    <3>2. row'[i] = row[i] \/ (row[i] # "none" /\ row'[i] # "none")
      BY <1>2, <2>1, <2>7, <3>1 DEF durable, TryUpdate, Updated, Running, HeadId, TypeOK,
         DurableTypeOK
    <3> HIDE DEF UndoDone, InsertIntent, Withdraw, PurgeTurn
    <3> QED BY <2>2, <2>7, <3>2
  <2> HIDE DEF UndoDone, InsertIntent, Withdraw, PurgeTurn
  <2> QED BY <2>3, <2>4, <2>5, <2>6, <2>7
<1> QED BY <1>1, <1>2

HIDE DEF Lane, Finalize, StartQueue, InsertIntent, InsertFails, StartUndo, UndoDone, UndoFails,
    StartTurns, StartFinalize, MarkConversation, MarkTurn, MarkTurnFails, VerifyFresh,
    VerifyStale, VerifyFails, Quarantine, DeleteConversation, DeleteConversationFails,
    CleanUpConversation, CleanUpFails, PurgeTurn, PurgeFails, PurgeDone, ScrubManifest,
    ScrubFails, DeleteTurn, DeleteTurnFails, CleanUpTurn, CleanUpTurnFails,
    MarkCleanUpPending, Withdraw, WithdrawFails, FinalizeFails

\* What is inserted is the deletion that waited at the head of its lane.
LEMMA InsertHead ==
    ASSUME TypeOK, LaneInv, StepInv, NEW k \in Conv, InsertIntent(k)
    PROVE  /\ Lane(k) /\ Head1(k).op = "queue" /\ Head1(k) \in Waiting(k) /\ HeadId(k) \in Used
           /\ HeadId(k) \in Id /\ Key(HeadId(k)) = k /\ Waiting(k)' = Rest(k)
           /\ row'[HeadId(k)] = "undoable" /\ entry'[HeadId(k)] = "undoable"
           /\ \A i \in Id \ {HeadId(k)} : row'[i] = row[i] /\ entry'[i] = entry[i]
           /\ UNCHANGED <<undone, alive, target>>
<1>1. Lane(k) /\ lane[k] # <<>> /\ pc[k] = "insert" /\ EndOp(k)
  BY DEF Lane, InsertIntent, Running
<1>2. Head1(k).op = "queue" /\ Head1(k) # TurnsOp
  BY <1>1 DEF StepInv, PhaseOfOp, PhaseOf, LaneInv, BusyHead
<1>3. HeadId(k) \in Used /\ HeadId(k) \in Id /\ Key(HeadId(k)) = k /\ Head1(k) \in Waiting(k)
  BY <1>1, <1>2, HeadOfKey, HeadWaits
<1>4. Waiting(k)' = Rest(k)
  BY <1>1, EndOpLanes
<1> QED BY <1>1, <1>2, <1>3, <1>4 DEF InsertIntent, HeadId, TypeOK, DurableTypeOK, MemoryTypeOK

\* What waits after a step from outside waited before it, or was just requested.
LEMMA OutsideQueue ==
    ASSUME TypeOK, LaneInv, Outside, NEW j \in Conv, NEW o \in Waiting(j)', o.op = "queue"
    PROVE  o \in Waiting(j) \/ (o = QueueOp(nextId + 1) /\ nextId + 1 \in Id \ Used)
<1>1. CASE \E x \in Target : RequestDeletion(x)
  <2>1. PICK x \in Target : RequestDeletion(x)
    BY <1>1
  <2>2. nextId + 1 \in Id /\ nextId + 1 \notin Used
    BY <2>1, BoundAssumption DEF RequestDeletion, TypeOK, DurableTypeOK, Id, LaneInv, IdsInOrder
  <2>3. QueueOp(nextId + 1) \in Op /\ KeyOf(x) \in Conv /\ Enqueue(KeyOf(x), QueueOp(nextId + 1))
    BY <2>1, <2>2, KeyOfTarget DEF QueueOp, Op, RequestDeletion
  <2> QED BY <2>2, <2>3, EnqueueLanes
<1>2. CASE ~\E x \in Target : RequestDeletion(x)
  <2>1. Waiting(j)' \subseteq Waiting(j) \cup PlainOp
    BY <1>2, PlainSteps DEF RequestConversationDeletion, RequestTurnDeletion, Target
  <2>2. o \notin PlainOp
    BY TurnsOpName DEF PlainOp
  <2> QED BY <2>1, <2>2
<1> QED BY <1>1, <1>2

\* What the loader makes known comes from the table, now or when it was read.
LEMMA OutsideSources ==
    ASSUME TypeOK, LaneInv, Outside
    PROVE  \A i \in Id :
              /\ \/ entry'[i] = entry[i]
                 \/ entry[i] = "none" /\ entry'[i] \in {row[i], loader.snapshot[i]}
              /\ loader'.snapshot[i] \in {"none", row[i], loader.snapshot[i]}
<1> USE DEF LoaderAt, IdleLoader, NoRows
<1>1. CASE SelectIntents
  <2>1. \A i \in Id : entry'[i] = entry[i] \/ (entry[i] = "none" /\ entry'[i] = row[i])
    BY <1>1 DEF SelectIntents, LoadRows
  <2>2. \A i \in Id : loader'.snapshot[i] \in {"none", row[i]}
    BY <1>1 DEF SelectIntents, LoadEnds
  <2> QED BY <2>1, <2>2
<1>2. CASE MarkUnreadable
  <2>1. \A i \in Id : entry'[i] = entry[i] \/ (entry[i] = "none" /\ entry'[i] = loader.snapshot[i])
    BY <1>2 DEF MarkUnreadable, LoadRows
  <2>2. \A i \in Id : loader'.snapshot[i] = "none"
    BY <1>2 DEF MarkUnreadable, LoadEnds
  <2> QED BY <2>1, <2>2
<1>3. CASE EnsureFenceLoaded \/ StartupSweep \/ SelectFails \/ SweepDue
  BY <1>3 DEF EnsureFenceLoaded, StartupSweep, SelectFails, SweepDue, StartLoad, memory
<1>4. CASE ~Load
  <2>1. UNCHANGED <<loader, entry>>
    BY <1>4 DEF Outside, RequestConversationDeletion, RequestTurnDeletion, RequestDeletion,
       RequestUndo, RequestFork, UndoWindowEnds, TimerFires, Send, BeginSend,
       PassPendingCheck, SendCaptures, ValidateScope, SendEnters, SendLeaves, SweepExpired,
       process, memory, vars
  <2> QED BY <2>1
<1> QED BY <1>1, <1>2, <1>3, <1>4 DEF Load

\* A lane makes known only what it inserts, which waits no longer,
LEMMA LaneQueueNew ==
    ASSUME TypeOK, LaneInv, StepInv, QueueInv, NEW k \in Conv, Lane(k)
    PROVE  QueueInv'
<1>1. QueueNew'
  <2> SUFFICES ASSUME NEW j \in Conv, NEW o \in Waiting(j)', o.op = "queue"
               PROVE  Unknown(o.id)'
    BY DEF QueueNew
  <2>1. o \in Waiting(j) /\ o # TurnsOp
    BY LaneQueue, TurnsOpName
  <2>2. o \in Op /\ o.id \in Id /\ o.id \in Used /\ Key(o.id) = j
    BY <2>1 DEF LaneInv, LaneOfKey, Used, Waiting, TypeOK, LaneTypeOK
  <2>3. Unknown(o.id)
    BY <2>1 DEF QueueInv, QueueNew
  <2>4. ASSUME InsertIntent(k), o.id = HeadId(k) PROVE FALSE
    <3>1. j = k /\ Head1(k) \in Op /\ Head1(k).op = "queue" /\ o \in Rest(k) /\ lane[k] # <<>>
      BY <2>2, <2>4, InsertHead, HeadIsOp DEF InsertIntent, Running
    <3>2. Head1(k) # TurnsOp
      BY <3>1, TurnsOpName
    <3>3. Head1(k) = o
      BY <2>1, <2>2, <2>4, <3>1, <3>2 DEF Op, HeadId
    <3>4. PICK n \in DOMAIN lane[k] \ {1} : lane[k][n] = lane[k][1]
      BY <3>1, <3>3 DEF Rest, Head1
    <3>5. 1 \in DOMAIN lane[k]
      BY <3>1, LenProperties, EmptySeq DEF TypeOK, LaneTypeOK
    <3> QED BY <3>1, <3>4, <3>5 DEF QueueInv, QueueOnce, Head1
  <2>5. row'[o.id] = "none"
    BY <2>2, <2>3, <2>4, LaneTable DEF Unknown
  <2>6. entry'[o.id] = "none"
    BY <2>2, <2>3, <2>4, LaneEntries DEF Unknown
  <2>7. loader' = loader
    BY LaneRows
  <2> QED BY <2>3, <2>5, <2>6, <2>7 DEF Unknown
<1> QED BY <1>1, LaneOnce DEF QueueInv

\* and the loader only what is in the table.
LEMMA OutsideQueueNew ==
    ASSUME TypeOK, LaneInv, QueueInv, Outside
    PROVE  QueueInv'
<1>1. \A i \in Id : Unknown(i) => row'[i] = "none" /\ entry'[i] = "none" /\ loader'.snapshot[i] = "none"
  BY OutsideRows, OutsideSources DEF Unknown
<1>2. ASSUME NEW j \in Conv, NEW o \in Waiting(j)', o.op = "queue"
      PROVE  Unknown(o.id) /\ o.id \in Id
  <2>1. CASE o \in Waiting(j)
    <3>1. o # TurnsOp
      BY <1>2, TurnsOpName
    <3> QED BY <1>2, <2>1, <3>1 DEF QueueInv, QueueNew, LaneInv, LaneOfKey, Used
  <2>2. CASE o = QueueOp(nextId + 1) /\ nextId + 1 \in Id \ Used
    <3>1. o.id = nextId + 1
      BY <2>2 DEF QueueOp
    <3> QED BY <2>2, <3>1 DEF LaneInv, OnlyUsed, Unknown
  <2> QED BY <1>2, <2>1, <2>2, OutsideQueue
<1>3. QueueNew'
  BY <1>1, <1>2 DEF QueueNew, Unknown
<1> QED BY <1>3, OutsideOnce DEF QueueInv

\* No deletion waits at the start or after a crash.
LEMMA InitCrashQueue == (Init => QueueInv) /\ (Crash => QueueInv')
<1>1. DOMAIN <<>> = {}
  OBVIOUS
<1>2. ASSUME Init PROVE QueueInv
  <2>1. \A k \in Conv : DOMAIN lane[k] = {} /\ Waiting(k) = {}
    BY <1>1, <1>2, InitCrashWaits DEF Init, NoLanes
  <2> QED BY <2>1 DEF QueueInv, QueueOnce, QueueNew
<1>3. ASSUME Crash PROVE QueueInv'
  <2>1. \A k \in Conv : DOMAIN lane'[k] = {} /\ Waiting(k)' = {}
    BY <1>1, <1>3, InitCrashWaits DEF Crash, NoLanes
  <2> QED BY <2>1 DEF QueueInv, QueueOnce, QueueNew
<1> QED BY <1>2, <1>3

\* So what waits to be recorded waits once, and nobody knows it yet.
LEMMA QueueCorrect == Spec => []QueueInv
<1>1. TypeOK /\ LaneInv /\ StepInv /\ QueueInv /\ [Next]_vars => QueueInv'
  BY NextCases, LaneQueueNew, OutsideQueueNew, InitCrashQueue
<1> QED BY <1>1, InitCrashQueue, TypeCorrect, StepsCorrect, PTL DEF Spec

-------------------------------------------------------------------------------
\* What the table knows survives a step of a lane.
LEMMA LaneRecord ==
    ASSUME TypeOK, LaneInv, StepInv, QueueInv, RecordInv, NEW k \in Conv, Lane(k)
    PROVE  RecordInv'
<1>1. loader'.phase # "unreadable"
  BY LaneRows DEF RecordInv
<1>2. EntryHasRow'
  <2> SUFFICES ASSUME NEW i \in Id, entry'[i] # "none" PROVE row'[i] # "none"
    BY DEF EntryHasRow
  <2>1. CASE InsertIntent(k) /\ i = HeadId(k)
    BY <2>1, InsertHead
  <2>2. CASE entry[i] # "none"
    BY <2>2, LaneTable DEF RecordInv, EntryHasRow
  <2> QED BY <2>1, <2>2, LaneEntries
<1>3. ASSUME UndoDone(k) PROVE HeadId(k) \in Used /\ row[HeadId(k)] # "none"
  <2>1. lane[k] # <<>> /\ pc[k] = "undoing"
    BY <1>3 DEF UndoDone, Running
  <2>2. HeadId(k) \in Used /\ HeadId(k) \in Id
    BY <2>1, HeadOfKey DEF LaneInv, BusyHead
  <2> QED BY <2>1, <2>2 DEF StepInv, PhaseOfOp, PhaseOf, RecordInv, EntryHasRow
<1>4. Used' = Used
  BY LaneTargets DEF Used
<1>5. UndoneIsOut'
  <2> SUFFICES ASSUME NEW i \in undone' PROVE i \in Used /\ row'[i] = "none"
    BY <1>4 DEF UndoneIsOut
  <2>1. CASE i \in undone
    <3>1. i \in Used /\ row[i] = "none" /\ i \in Id
      BY <2>1 DEF RecordInv, UndoneIsOut, Used
    <3>2. ~(InsertIntent(k) /\ i = HeadId(k))
      BY <2>1, InsertHead DEF RecordInv, QueueFresh, HeadId
    <3> QED BY <3>1, <3>2, LaneTable
  <2>2. CASE i \notin undone
    BY <1>3, <2>2, LaneTable, LaneTypes DEF LaneInv, TypeOK, ProcessTypeOK
  <2> QED BY <2>1, <2>2
<1>6. QueueFresh'
  <2> SUFFICES ASSUME NEW j \in Conv, NEW o \in Waiting(j)', o.op = "queue"
               PROVE  o.id \notin undone'
    BY DEF QueueFresh
  <2>1. o \in Waiting(j) /\ o # TurnsOp
    BY LaneQueue, TurnsOpName
  <2>2. o.id \in Id /\ row[o.id] = "none" /\ o.id \notin undone
    BY <2>1 DEF LaneInv, LaneOfKey, Used, QueueInv, QueueNew, Unknown, RecordInv, QueueFresh
  <2>3. ~(UndoDone(k) /\ o.id = HeadId(k))
    BY <1>3, <2>2
  <2> QED BY <2>2, <2>3, LaneTable
<1> QED BY <1>1, <1>2, <1>5, <1>6 DEF RecordInv

-------------------------------------------------------------------------------
\* Where every row can be decoded, what is loaded is a row.
LEMMA OutsideLoads ==
    ASSUME TypeOK, LaneInv, ~UnreadableRow, loader.phase # "unreadable", Outside
    PROVE  /\ loader'.phase # "unreadable" /\ undone' = undone
           /\ \A i \in Id : entry'[i] = entry[i] \/ (entry[i] = "none" /\ entry'[i] = row[i])
<1>1. CASE SelectIntents
  <2>1. PICK S \in SUBSET {i \in Id : row[i] # "none"} :
           LoadRows(S, row) /\ LoadEnds(Due(S, row))
    BY <1>1 DEF SelectIntents
  <2>2. loader'.phase # "unreadable"
    BY <2>1 DEF LoadEnds, LoaderAt, IdleLoader
  <2> QED BY <1>1, <2>1, <2>2 DEF SelectIntents, LoadRows
<1>2. CASE EnsureFenceLoaded \/ StartupSweep \/ SelectFails \/ SweepDue
  BY <1>2 DEF EnsureFenceLoaded, StartupSweep, SelectFails, SweepDue, StartLoad, LoaderAt,
     IdleLoader, memory
<1>3. CASE ~Load
  <2>1. UNCHANGED <<loader, undone, entry>>
    BY <1>3 DEF Outside, RequestConversationDeletion, RequestTurnDeletion, RequestDeletion,
       RequestUndo, RequestFork, UndoWindowEnds, TimerFires, Send, BeginSend,
       PassPendingCheck, SendCaptures, ValidateScope, SendEnters, SendLeaves, SweepExpired,
       process, memory, vars
  <2> QED BY <2>1
<1> QED BY <1>1, <1>2, <1>3 DEF Load, MarkUnreadable

\* What the table knows survives a step from outside,
LEMMA OutsideRecord ==
    ASSUME TypeOK, LaneInv, ~UnreadableRow, RecordInv, Outside
    PROVE  RecordInv'
<1>1. row' = row /\ undone' = undone /\ loader'.phase # "unreadable"
  BY OutsideRows, OutsideLoads DEF RecordInv
<1>2. EntryHasRow'
  BY <1>1, OutsideLoads DEF RecordInv, EntryHasRow
<1>3. UndoneIsOut'
  BY <1>1, OutsideTargets DEF RecordInv, UndoneIsOut
<1>4. QueueFresh'
  <2> SUFFICES ASSUME NEW j \in Conv, NEW o \in Waiting(j)', o.op = "queue"
               PROVE  o.id \notin undone
    BY <1>1 DEF QueueFresh
  <2>1. CASE o \in Waiting(j)
    BY <2>1 DEF RecordInv, QueueFresh
  <2>2. CASE o = QueueOp(nextId + 1) /\ nextId + 1 \in Id \ Used
    <3>1. o.id = nextId + 1
      BY <2>2 DEF QueueOp
    <3> QED BY <2>2, <3>1 DEF RecordInv, UndoneIsOut
  <2> QED BY <2>1, <2>2, OutsideQueue
<1> QED BY <1>1, <1>2, <1>3, <1>4 DEF RecordInv

\* a crash,
LEMMA CrashRecord ==
    ASSUME RecordInv, Crash
    PROVE  RecordInv'
<1>1. \A k \in Conv : Waiting(k)' = {}
  BY InitCrashWaits
<1>2. UNCHANGED <<row, undone, target>> /\ loader'.phase # "unreadable"
  BY DEF Crash, durable, BootLoader, LoaderAt
<1>3. EntryHasRow' /\ UndoneIsOut'
  BY <1>2 DEF Crash, RecordInv, EntryHasRow, UndoneIsOut, NoRows, Used
<1> QED BY <1>1, <1>2, <1>3 DEF RecordInv, QueueFresh

\* and holds at the start.
LEMMA InitRecord == Init => RecordInv
<1> SUFFICES ASSUME Init PROVE RecordInv
  OBVIOUS
<1>1. \A k \in Conv : Waiting(k) = {}
  BY InitCrashWaits
<1>2. EntryHasRow /\ UndoneIsOut /\ loader.phase # "unreadable"
  BY DEF Init, EntryHasRow, UndoneIsOut, NoRows, BootLoader, LoaderAt
<1> QED BY <1>1, <1>2 DEF RecordInv, QueueFresh

\* So the table and the store agree on every decision.
LEMMA RecordCorrect ==
    ASSUME ~UnreadableRow
    PROVE  Spec => []RecordInv
<1>1. TypeOK /\ LaneInv /\ StepInv /\ QueueInv /\ RecordInv /\ [Next]_vars => RecordInv'
  BY NextCases, LaneRecord, OutsideRecord, CrashRecord
<1> QED BY <1>1, InitRecord, QueueCorrect, TypeCorrect, StepsCorrect, PTL DEF Spec

-------------------------------------------------------------------------------
\* How the status of the decisions follows from the table.
LEMMA StatusIs ==
    ASSUME NEW i \in Id
    PROVE  DecisionStatus[i] = IF row[i] # "none" THEN "pending"
                               ELSE IF i \in undone THEN "restored" ELSE "absent"
BY DEF DecisionStatus

\* Where only decision d changes its row or is undone, only its status changes.
LEMMA StatusStep ==
    ASSUME NEW d \in Id,
           \A i \in Id \ {d} : /\ row'[i] = "none" <=> row[i] = "none"
                               /\ i \in undone' <=> i \in undone
    PROVE  DecisionStatus' = [DecisionStatus EXCEPT ![d] =
                                 IF row'[d] # "none" THEN "pending"
                                 ELSE IF d \in undone' THEN "restored" ELSE "absent"]
BY DEF DecisionStatus

\* Where none does, no status changes.
LEMMA StatusKept ==
    ASSUME \A i \in Id : /\ row'[i] = "none" <=> row[i] = "none"
                         /\ i \in undone' <=> i \in undone
    PROVE  DecisionStatus' = DecisionStatus
BY DEF DecisionStatus

\* Nothing is promised at the start.
LEMMA PromiseStarts == Init => Kept!PromiseInit
BY DEF Init, Kept!PromiseInit, DecisionStatus, NoRows

\* A step from outside decides something, or nothing the promise speaks of.
LEMMA OutsidePromise ==
    ASSUME TypeOK, LaneInv, ~UnreadableRow, RecordInv, Outside
    PROVE  [Kept!PromiseNext]_(Kept!Promised)
<1>1. DecisionStatus' = DecisionStatus /\ alive' = alive
  BY OutsideRows, OutsideLoads, OutsideTargets, StatusKept DEF RecordInv
<1>2. CASE \E x \in Target : RequestDeletion(x)
  <2>1. PICK x \in Target : RequestDeletion(x)
    BY <1>2
  <2>2. nextId + 1 \in Id /\ nextId + 1 \notin Used
    BY <2>1, BoundAssumption DEF RequestDeletion, TypeOK, DurableTypeOK, Id, LaneInv, IdsInOrder
  <2>3. \A d : d = nextId + 1 => Kept!Decide(d)
    <3>1. \A d : d = nextId + 1 => d \in Id /\ row[d] = "none" /\ d \notin undone
      BY <2>2 DEF LaneInv, OnlyUsed, RecordInv, UndoneIsOut
    <3>2. \A d : d = nextId + 1 => DecisionStatus[d] = "absent"
      BY <3>1, StatusIs
    <3>3. x \in alive /\ \A d : d = nextId + 1 => target' = [target EXCEPT ![d] = x]
      BY <2>1 DEF RequestDeletion
    <3> QED BY <1>1, <3>2, <3>3 DEF Kept!Decide
  <2> QED BY <2>2, <2>3 DEF Kept!PromiseNext
<1>3. CASE ~\E x \in Target : RequestDeletion(x)
  <2>1. target' = target
    BY <1>3, PlainSteps DEF RequestConversationDeletion, RequestTurnDeletion, Target
  <2> QED BY <1>1, <2>1 DEF Kept!Promised
<1> QED BY <1>2, <1>3

\* A lane inserts what was decided,
LEMMA InsertPromise ==
    ASSUME TypeOK, LaneInv, StepInv, QueueInv, RecordInv, NEW k \in Conv, InsertIntent(k)
    PROVE  Kept!PromiseNext
<1> DEFINE d == HeadId(k)
<1>1. d \in Id /\ row[d] = "none" /\ d \notin undone
  BY InsertHead DEF QueueInv, QueueNew, Unknown, RecordInv, QueueFresh, HeadId
<1>2. row'[d] = "undoable" /\ undone' = undone /\ UNCHANGED <<target, alive>>
      /\ \A i \in Id \ {d} : row'[i] = row[i]
  BY InsertHead
<1>3. DecisionStatus[d] = "absent"
  BY <1>1, StatusIs
<1>4. DecisionStatus' = [DecisionStatus EXCEPT ![d] = "pending"]
  BY <1>1, <1>2, StatusStep
<1>5. Kept!Record(d)
  BY <1>2, <1>3, <1>4 DEF Kept!Record
<1> QED BY <1>1, <1>5 DEF Kept!PromiseNext

\* restores what is undone,
LEMMA UndoPromise ==
    ASSUME TypeOK, LaneInv, StepInv, RecordInv, NEW k \in Conv, UndoDone(k)
    PROVE  Kept!PromiseNext
<1> DEFINE d == HeadId(k)
<1>1. lane[k] # <<>> /\ pc[k] = "undoing"
  BY DEF UndoDone, Running
<1>2. d \in Id /\ entry[d] # "none"
  BY <1>1, HeadOfKey DEF LaneInv, BusyHead, StepInv, PhaseOfOp, PhaseOf
<1>3. row[d] # "none"
  BY <1>2 DEF RecordInv, EntryHasRow
<1>4. /\ row'[d] = "none" /\ undone' = undone \cup {d} /\ UNCHANGED <<target, alive>>
      /\ \A i \in Id \ {d} : row'[i] = row[i]
  BY <1>2 DEF UndoDone, HeadId, TypeOK, DurableTypeOK
<1>5. DecisionStatus[d] = "pending"
  BY <1>2, <1>3, StatusIs
<1>6. DecisionStatus' = [DecisionStatus EXCEPT ![d] = "restored"]
  BY <1>2, <1>4, StatusStep
<1>7. Kept!Restore(d)
  BY <1>4, <1>5, <1>6 DEF Kept!Restore
<1> QED BY <1>2, <1>7 DEF Kept!PromiseNext

\* deletes on behalf of a pending decision all that it covers, and no more,
LEMMA DeletePromise ==
    ASSUME TypeOK, LaneInv, StepInv, RecordInv, NEW k \in Conv,
           DeleteConversation(k) \/ DeleteTurn(k)
    PROVE  Kept!PromiseNext
<1> DEFINE d == HeadId(k)
<1>1. lane[k] # <<>> /\ pc[k] \in {"delete", "deleteTurn"}
  BY DEF DeleteConversation, DeleteTurn, Running
<1>2. d \in Id /\ d \in Used /\ Key(d) = k /\ entry[d] # "none" /\ PhaseOf(k)
  BY <1>1, HeadOfKey DEF LaneInv, BusyHead, StepInv, PhaseOfOp, PhaseOf
<1>3. row[d] # "none"
  BY <1>2 DEF RecordInv, EntryHasRow
<1>4. UNCHANGED <<row, undone, target>>
  BY DEF DeleteConversation, DeleteTurn
<1>5. DecisionStatus[d] = "pending" /\ DecisionStatus' = DecisionStatus
  BY <1>2, <1>3, <1>4, StatusIs, StatusKept
<1>6. alive' = alive \ RowsOf(target[d])
  <2>1. CASE DeleteConversation(k)
    <3>1. target[d] = k
      BY <1>1, <1>2, <2>1 DEF DeleteConversation, Running, PhaseOf, ConversationPhase, IsConv,
         Key, KeyOf
    <3> QED BY <2>1, <3>1 DEF DeleteConversation
  <2>2. CASE DeleteTurn(k)
    <3>1. target[d] \in Turn
      BY <1>1, <1>2, <2>2 DEF DeleteTurn, Running, PhaseOf, TurnPhase, IsTurn
    <3>2. RowsOf(target[d]) = {target[d]}
      BY <3>1, TargetAssumption DEF RowsOf
    <3> QED BY <2>2, <3>2 DEF DeleteTurn, HeadId
  <2> QED BY <2>1, <2>2
<1>7. Kept!Destroy(d)
  BY <1>4, <1>5, <1>6 DEF Kept!Destroy
<1> QED BY <1>2, <1>7 DEF Kept!PromiseNext

\* and forgets a decision only when nothing is left of its target.
LEMMA ForgetPromise ==
    ASSUME TypeOK, LaneInv, StepInv, RecordInv, NEW k \in Conv, Withdraw(k) \/ PurgeTurn(k)
    PROVE  Kept!PromiseNext \/ (DecisionStatus' = DecisionStatus /\ UNCHANGED <<target, alive>>)
<1>1. Lane(k) /\ UNCHANGED <<undone, target, alive>>
  BY DEF Lane, Finalize, Withdraw, PurgeTurn
<1>2. PICK d \in Id : row'[d] = "none" /\ \A i \in Id \ {d} : row'[i] = row[i]
  <2>1. CASE Withdraw(k)
    <3>1. HeadId(k) \in Id
      BY <2>1, HeadOfKey DEF Withdraw, Running, LaneInv, BusyHead
    <3> QED BY <2>1, <3>1 DEF Withdraw, HeadId, TypeOK, DurableTypeOK
  <2>2. CASE PurgeTurn(k)
    BY <2>2 DEF PurgeTurn, TypeOK, DurableTypeOK, LaneTypeOK
  <2> QED BY <2>1, <2>2
<1>3. CASE row[d] = "none"
  <2>1. DecisionStatus' = DecisionStatus
    BY <1>1, <1>2, <1>3, StatusKept
  <2> QED BY <1>1, <2>1
<1>4. CASE row[d] # "none"
  <2>1. d \notin undone
    BY <1>4 DEF RecordInv, UndoneIsOut
  <2>2. target[d] \notin alive
    BY <1>1, <1>2, <1>4, <2>1, LaneWithdraws
  <2>3. DecisionStatus[d] = "pending"
    BY <1>4, StatusIs
  <2>4. DecisionStatus' = [DecisionStatus EXCEPT ![d] = "absent"]
    BY <1>1, <1>2, <2>1, StatusStep
  <2>5. Kept!Discharge(d)
    BY <1>1, <2>2, <2>3, <2>4 DEF Kept!Discharge
  <2> QED BY <2>5 DEF Kept!PromiseNext
<1> QED BY <1>3, <1>4

\* Its other steps change nothing the promise speaks of.
LEMMA LanePromise ==
    ASSUME TypeOK, LaneInv, StepInv, QueueInv, RecordInv, NEW k \in Conv, Lane(k)
    PROVE  [Kept!PromiseNext]_(Kept!Promised)
<1>1. CASE InsertIntent(k) \/ UndoDone(k) \/ DeleteConversation(k) \/ DeleteTurn(k)
  BY <1>1, InsertPromise, UndoPromise, DeletePromise
<1>2. CASE Withdraw(k) \/ PurgeTurn(k)
  BY <1>2, ForgetPromise DEF Kept!Promised
<1>3. CASE /\ ~InsertIntent(k) /\ ~UndoDone(k) /\ ~DeleteConversation(k) /\ ~DeleteTurn(k)
           /\ ~Withdraw(k) /\ ~PurgeTurn(k)
  <2>1. UNCHANGED <<alive, target>>
    BY <1>3 DEF durable, Lane, Finalize, StartQueue, InsertFails, StartUndo, UndoFails,
       StartTurns, StartFinalize, MarkConversation, MarkTurn, MarkTurnFails, VerifyFresh,
       VerifyStale, VerifyFails, Quarantine, DeleteConversationFails, CleanUpConversation,
       CleanUpFails, PurgeFails, PurgeDone, ScrubManifest, ScrubFails, DeleteTurnFails,
       CleanUpTurn, CleanUpTurnFails, MarkCleanUpPending, WithdrawFails, FinalizeFails
  <2>2. \A i \in Id : /\ row'[i] = "none" <=> row[i] = "none"
                      /\ i \in undone' <=> i \in undone
    BY <1>3, LaneTable
  <2> QED BY <2>1, <2>2, StatusKept DEF Kept!Promised
<1> QED BY <1>1, <1>2, <1>3

\* A crash changes nothing of it either.
LEMMA CrashPromise == Crash => UNCHANGED Kept!Promised
BY StatusKept DEF Crash, durable, Kept!Promised

\* The store implements the promise: a decision is recorded once, taken back for
\* good, or forgotten when its target is gone, and nothing goes on behalf of a
\* decision that is not pending, whatever crashes, fails or is reordered.
THEOREM PromiseKept == ~UnreadableRow => (Spec => KeepsPromise)
<1> SUFFICES ASSUME ~UnreadableRow PROVE Spec => KeepsPromise
  OBVIOUS
<1>1. TypeOK /\ LaneInv /\ StepInv /\ QueueInv /\ RecordInv /\ [Next]_vars
        => [Kept!PromiseNext]_(Kept!Promised)
  BY NextCases, LanePromise, OutsidePromise, CrashPromise
<1> QED BY <1>1, PromiseStarts, QueueCorrect, RecordCorrect, TypeCorrect, StepsCorrect, PTL
        DEF Spec, KeepsPromise, Kept!Promise

-------------------------------------------------------------------------------
USE DEF Lane, Finalize, StartQueue, InsertIntent, InsertFails, StartUndo, UndoDone, UndoFails,
    StartTurns, StartFinalize, MarkConversation, MarkTurn, MarkTurnFails, VerifyFresh,
    VerifyStale, VerifyFails, Quarantine, DeleteConversation, DeleteConversationFails,
    CleanUpConversation, CleanUpFails, PurgeTurn, PurgeFails, PurgeDone, ScrubManifest,
    ScrubFails, DeleteTurn, DeleteTurnFails, CleanUpTurn, CleanUpTurnFails,
    MarkCleanUpPending, Withdraw, WithdrawFails, FinalizeFails

\* A step of a lane touches the intent at its head, or purges another one.
LEMMA LaneTouches ==
    ASSUME TypeOK, LaneInv, StepInv, NEW k \in Conv, Lane(k), NEW j \in Id
    PROVE  \/ row'[j] = row[j] /\ entry'[j] = entry[j]
           \/ row'[j] = "none" /\ entry'[j] = "none" /\ Key(j) = k
           \/ j = HeadId(k) /\ ~StartTurns(k) /\ Key(j) = k
<1> HIDE DEF StartTurns
<1>1. CASE StartTurns(k)
  BY <1>1 DEF StartTurns, durable, memory
<1>2. CASE ~StartTurns(k)
  <2>1. HeadId(k) \in Id /\ Key(HeadId(k)) = k
    BY <1>2, LaneHead, HeadOfKey DEF LaneInv
  <2>2. CASE PurgeTurn(k)
    BY <1>2, <2>1, <2>2 DEF RemoveEntry, TypeOK, DurableTypeOK, MemoryTypeOK, LaneTypeOK,
       LaneInv, TodoOfKey
  <2>3. CASE ~PurgeTurn(k) /\ j # HeadId(k)
    <3>1. row'[j] = row[j]
      BY <1>2, <2>1, <2>3 DEF durable, TryUpdate, Updated, HeadId, TypeOK, DurableTypeOK
    <3>2. entry'[j] = entry[j]
      BY <1>2, <2>1, <2>3 DEF memory, RemoveEntry, HeadId, TypeOK, MemoryTypeOK
    <3> QED BY <3>1, <3>2
  <2> QED BY <1>2, <2>1, <2>2, <2>3
<1> QED BY <1>1, <1>2

\* What it makes of the intent at its head, where the marker can be written.
LEMMA HeadMarker ==
    ASSUME TypeOK, LaneInv, StepInv, MarkInv, "mark" \notin Faults, NEW k \in Conv, Lane(k),
           ~StartTurns(k)
    PROVE  /\ entry'[HeadId(k)] \notin {"none", "undoable"} /\ row'[HeadId(k)] = "undoable"
                 => pc'[k] = "mark"
           /\ pc'[k] = "undoing" => entry'[HeadId(k)] = "undoable"
           /\ pc'[k] \in FinalizePhase => entry'[HeadId(k)] # "undoable"
           /\ pc'[k] \in FinalizePhase \ {"mark"} => row'[HeadId(k)] # "undoable"
<1> HIDE DEF StartTurns
<1> DEFINE i == HeadId(k)
<1>1. /\ i \in Id /\ Key(i) = k /\ PhaseOf(k) /\ MarkerOf(k) /\ k \in DOMAIN pc
      /\ entry[i] \notin {"none", "undoable"} /\ row[i] = "undoable" => pc[k] = "mark"
  BY LaneHead, HeadOfKey DEF StepInv, PhaseOfOp, LaneInv, MarkInv, TableFollows, TypeOK, LaneTypeOK
<1>2. row \in [Id -> IntentState] /\ entry \in [Id -> IntentState]
  BY DEF TypeOK, DurableTypeOK, MemoryTypeOK
<1> USE <1>1, <1>2 DEF Running, HeadId, FinalizePhase, ConversationPhase, TurnPhase, GoTo, EndOp
<1>3. CASE StartQueue(k) \/ InsertIntent(k) \/ InsertFails(k)
  BY <1>3 DEF durable, memory
<1>4. CASE StartUndo(k) \/ UndoDone(k) \/ UndoFails(k)
  <2>1. CASE StartUndo(k)
    BY <2>1 DEF durable, memory
  <2>2. CASE UndoDone(k)
    BY <2>2 DEF RemoveEntry
  <2>3. CASE UndoFails(k)
    BY <2>3 DEF durable, memory
  <2> QED BY <1>4, <2>1, <2>2, <2>3
<1>5. CASE StartFinalize(k)
  BY <1>5 DEF durable
<1>6. CASE MarkConversation(k) \/ MarkTurn(k) \/ MarkTurnFails(k)
  BY <1>6 DEF memory, TryUpdate, Updated, MarkerOf
<1>7. CASE \/ VerifyFresh(k) \/ VerifyStale(k) \/ VerifyFails(k) \/ DeleteConversation(k)
           \/ DeleteConversationFails(k) \/ CleanUpConversation(k) \/ CleanUpFails(k)
           \/ PurgeFails(k) \/ ScrubFails(k) \/ DeleteTurn(k) \/ DeleteTurnFails(k)
  BY <1>7 DEF durable, memory, MarkerOf
<1>8. CASE Quarantine(k) \/ MarkCleanUpPending(k) \/ FinalizeFails(k)
  BY <1>8 DEF memory, TryUpdate, Updated, MarkerOf
<1>9. CASE PurgeTurn(k)
  <2>1. IsConv(i) /\ ~IsTurn(i)
    BY <1>9, TargetAssumption DEF PhaseOf, IsConv, IsTurn
  <2>2. i \notin todo[k]
    BY <2>1 DEF LaneInv, TodoOfKey
  <2>3. row'[i] = row[i] /\ entry'[i] = entry[i]
    BY <1>9, <2>2 DEF RemoveEntry
  <2> QED BY <1>9, <2>3 DEF MarkerOf
<1>10. CASE PurgeDone(k) \/ CleanUpTurn(k) \/ CleanUpTurnFails(k)
  BY <1>10 DEF durable, MarkerOf
<1>11. CASE ScrubManifest(k)
  BY <1>11 DEF memory, Updated, MarkerOf
<1>12. CASE Withdraw(k) \/ WithdrawFails(k)
  BY <1>12 DEF durable, RemoveEntry, MarkerOf
<1> QED BY <1>3, <1>4, <1>5, <1>6, <1>7, <1>8, <1>9, <1>10, <1>11, <1>12

\* A finalization has taken the Undo of the intent at its head away, whatever
\* becomes of the marker.
LEMMA HeadDecided ==
    ASSUME TypeOK, LaneInv, StepInv, DecidedInv, NEW k \in Conv, Lane(k), ~StartTurns(k),
           pc'[k] \in FinalizePhase
    PROVE  entry'[HeadId(k)] # "undoable"
<1> HIDE DEF StartTurns
<1> DEFINE i == HeadId(k)
<1>1. /\ i \in Id /\ Key(i) = k /\ PhaseOf(k) /\ k \in DOMAIN pc
      /\ pc[k] \in FinalizePhase => entry[i] # "undoable"
  BY LaneHead, HeadOfKey DEF StepInv, PhaseOfOp, LaneInv, DecidedInv, TypeOK, LaneTypeOK
<1>2. entry \in [Id -> IntentState]
  BY DEF TypeOK, MemoryTypeOK
<1> USE <1>1, <1>2 DEF Running, HeadId, FinalizePhase, ConversationPhase, TurnPhase, GoTo, EndOp
<1>3. CASE \/ StartQueue(k) \/ InsertIntent(k) \/ InsertFails(k)
           \/ StartUndo(k) \/ UndoDone(k) \/ UndoFails(k)
  BY <1>3
<1>4. CASE StartFinalize(k)
  BY <1>4
<1>5. CASE \/ MarkConversation(k) \/ MarkTurn(k) \/ MarkTurnFails(k)
           \/ VerifyFresh(k) \/ VerifyStale(k) \/ VerifyFails(k) \/ DeleteConversation(k)
           \/ DeleteConversationFails(k) \/ CleanUpConversation(k) \/ CleanUpFails(k)
           \/ PurgeFails(k) \/ ScrubManifest(k) \/ ScrubFails(k) \/ DeleteTurn(k)
           \/ DeleteTurnFails(k) \/ CleanUpTurn(k) \/ MarkCleanUpPending(k) \/ WithdrawFails(k)
  BY <1>5 DEF memory
<1>6. CASE Quarantine(k) \/ FinalizeFails(k) \/ PurgeDone(k) \/ CleanUpTurnFails(k)
  BY <1>6
<1>7. CASE PurgeTurn(k)
  <2>1. IsConv(i) /\ ~IsTurn(i)
    BY <1>7, TargetAssumption DEF PhaseOf, IsConv, IsTurn
  <2>2. i \notin todo[k]
    BY <2>1 DEF LaneInv, TodoOfKey
  <2> QED BY <1>7, <2>2 DEF RemoveEntry
<1>8. CASE Withdraw(k)
  BY <1>8 DEF RemoveEntry
<1> QED BY <1>3, <1>4, <1>5, <1>6, <1>7, <1>8

\* What a lane deletes, the intent at its head covers.
LEMMA LaneDestroys ==
    ASSUME TypeOK, LaneInv, StepInv, NEW k \in Conv, Lane(k), NEW x \in alive \ alive'
    PROVE  /\ pc[k] \in {"delete", "deleteTurn"} /\ HeadId(k) \in Used
           /\ x \in RowsOf(target[HeadId(k)])
<1>1. ~StartTurns(k)
  BY DEF StartTurns, durable
<1> HIDE DEF StartTurns
<1>2. HeadId(k) \in Used /\ Key(HeadId(k)) = k /\ PhaseOf(k)
  BY <1>1, LaneHead, HeadOfKey DEF StepInv, PhaseOfOp, LaneInv
<1>3. CASE DeleteConversation(k)
  <2>1. pc[k] = "delete" /\ target[HeadId(k)] \in Conv
    BY <1>2, <1>3 DEF DeleteConversation, Running, PhaseOf, ConversationPhase, IsConv
  <2>2. target[HeadId(k)] = k
    BY <1>2, <2>1 DEF Key, KeyOf
  <2> QED BY <1>2, <1>3, <2>1, <2>2 DEF DeleteConversation
<1>4. CASE DeleteTurn(k)
  <2>1. pc[k] = "deleteTurn" /\ target[HeadId(k)] \in Turn
    BY <1>2, <1>4 DEF DeleteTurn, Running, PhaseOf, TurnPhase, IsTurn
  <2>2. RowsOf(target[HeadId(k)]) = {target[HeadId(k)]}
    BY <2>1, TargetAssumption DEF RowsOf
  <2> QED BY <1>2, <1>4, <2>1, <2>2 DEF DeleteTurn, HeadId
<1> QED BY <1>1, <1>3, <1>4 DEF durable

\* No lane makes the row of an intent undoable except by inserting it.
LEMMA UndoableRow ==
    ASSUME TypeOK, LaneInv, StepInv, MarkInv, NEW k \in Conv, Lane(k), NEW i \in Id,
           row'[i] = "undoable"
    PROVE  row[i] = "undoable" \/ (InsertIntent(k) /\ i = HeadId(k))
<1> HIDE DEF StartTurns
<1>1. row \in [Id -> IntentState]
  BY DEF TypeOK, DurableTypeOK
<1>2. CASE StartTurns(k)
  BY <1>2 DEF StartTurns, durable
<1>3. CASE ~StartTurns(k)
  <2>1. HeadId(k) \in Id
    BY <1>3, LaneHead DEF LaneInv
  <2>2. ScrubManifest(k) => entry[HeadId(k)] # "undoable"
    BY DEF Running, MarkInv, MarkerOf, FinalizePhase, ConversationPhase
  <2> QED BY <1>1, <1>3, <2>1, <2>2 DEF durable, TryUpdate, Updated, HeadId
<1> QED BY <1>2, <1>3

HIDE DEF Lane, Finalize, StartQueue, InsertIntent, InsertFails, StartUndo, UndoDone, UndoFails,
    StartTurns, StartFinalize, MarkConversation, MarkTurn, MarkTurnFails, VerifyFresh,
    VerifyStale, VerifyFails, Quarantine, DeleteConversation, DeleteConversationFails,
    CleanUpConversation, CleanUpFails, PurgeTurn, PurgeFails, PurgeDone, ScrubManifest,
    ScrubFails, DeleteTurn, DeleteTurnFails, CleanUpTurn, CleanUpTurnFails,
    MarkCleanUpPending, Withdraw, WithdrawFails, FinalizeFails

\* A lane keeps the marker ahead of what it does to a turn,
LEMMA LaneMark ==
    ASSUME TypeOK, LaneInv, StepInv, QueueInv, MarkInv, "mark" \notin Faults, NEW k \in Conv, Lane(k)
    PROVE  MarkInv'
<1>1. \A j \in Id : Key(j)' = Key(j)
  BY LaneTargets DEF Key
<1>2. ASSUME NEW j \in Conv PROVE MarkerOf(j)'
  <2>1. CASE j # k /\ pc'[j] # "start"
    <3>1. pc'[j] = pc[j] /\ pc[j] # "start"
      BY <2>1, OtherLanes
    <3>2. HeadId(j)' = HeadId(j) /\ entry'[HeadId(j)] = entry[HeadId(j)]
      BY <2>1, <3>1, OtherHeads
    <3>3. HeadId(j) \in Id /\ Key(HeadId(j)) = j
      BY <3>1, HeadOfKey DEF LaneInv, BusyHead
    <3>4. row'[HeadId(j)] = row[HeadId(j)] \/ row'[HeadId(j)] = "none"
      BY <2>1, <3>3, LaneTouches
    <3> QED BY <3>1, <3>2, <3>4 DEF MarkInv, MarkerOf
  <2>2. CASE j = k /\ pc'[k] # "start" /\ ~StartTurns(k)
    BY <2>2, OwnHead, HeadMarker DEF MarkerOf
  <2>3. CASE pc'[j] = "start"
    BY <2>3 DEF MarkerOf, FinalizePhase, ConversationPhase, TurnPhase
  <2>4. CASE StartTurns(k)
    <3>1. pc'[k] = "start"
      BY <2>4, StartTurnsLanes
    <3> QED BY <2>1, <2>3, <3>1
  <2> QED BY <2>1, <2>2, <2>3, <2>4
<1>3. ASSUME NEW i \in Id, entry'[i] \notin {"none", "undoable"}, row'[i] = "undoable"
      PROVE  pc'[Key(i)] = "mark" /\ \A j : j = Key(i) => HeadId(j)' = i
  <2>1. CASE i = HeadId(k) /\ ~StartTurns(k)
    <3>1. pc'[k] = "mark"
      BY <1>3, <2>1, HeadMarker
    <3>2. Key(i) = k
      BY <2>1, LaneHead, HeadOfKey DEF LaneInv
    <3> QED BY <2>1, <3>1, <3>2, OwnHead
  <2>2. CASE row'[i] = row[i] /\ entry'[i] = entry[i] /\ ~(i = HeadId(k) /\ ~StartTurns(k))
    <3>1. pc[Key(i)] = "mark" /\ HeadId(Key(i)) = i /\ Key(i) \in Conv
      BY <1>3, <2>2, EntryOfKey, KeyOfUsed DEF MarkInv, TableFollows
    <3>2. Key(i) # k
      BY <2>2, <3>1, StartTurnsLanes
    <3> QED BY <3>1, <3>2, OtherHeads
  <2> QED BY <1>3, <2>1, <2>2, LaneTouches
<1>4. TableFollows'
  BY <1>1, <1>3 DEF TableFollows
<1>5. SnapshotBehind'
  <2> SUFFICES ASSUME NEW i \in Id, loader'.snapshot[i] \notin {"none", "undoable"},
                      row'[i] = "undoable"
               PROVE  FALSE
    BY DEF SnapshotBehind
  <2>1. loader' = loader
    BY LaneRows
  <2>2. row[i] # "undoable"
    BY <2>1 DEF MarkInv, SnapshotBehind
  <2>3. InsertIntent(k) /\ i = HeadId(k)
    BY <2>2, UndoableRow
  <2>4. loader.snapshot[i] = "none"
    BY <2>3, InsertHead DEF QueueInv, QueueNew, Unknown, HeadId
  <2> QED BY <2>1, <2>4
<1> QED BY <1>2, <1>4, <1>5 DEF MarkInv

\* no step from outside disturbs it,
LEMMA OutsideMark ==
    ASSUME TypeOK, LaneInv, StepInv, MarkInv, Outside
    PROVE  MarkInv'
<1>1. /\ UNCHANGED <<pc, alive>> /\ \A i \in Used : target'[i] = target[i]
      /\ \A j \in Conv : lane[j] # <<>> => Head1(j)' = Head1(j)
  BY PlainSteps, RequestSteps DEF RequestConversationDeletion, RequestTurnDeletion, Target
<1>2. /\ row' = row
      /\ \A i \in Id : \/ entry'[i] = entry[i]
                       \/ entry[i] = "none" /\ entry'[i] \in {row[i], loader.snapshot[i]}
      /\ \A i \in Id : loader'.snapshot[i] \in {"none", row[i], loader.snapshot[i]}
  BY OutsideRows, OutsideSources
<1>3. ASSUME NEW k \in Conv, pc[k] # "start"
      PROVE  /\ HeadId(k)' = HeadId(k) /\ HeadId(k) \in Id
             /\ entry[HeadId(k)] # "none" => entry'[HeadId(k)] = entry[HeadId(k)]
             /\ pc[k] # "insert" => entry[HeadId(k)] # "none"
  BY <1>1, <1>2, <1>3, HeadOfKey DEF LaneInv, BusyHead, HeadId, StepInv, PhaseOfOp, PhaseOf
<1>4. ASSUME NEW k \in Conv PROVE MarkerOf(k)'
  BY <1>1, <1>2, <1>3 DEF MarkerOf, MarkInv, FinalizePhase, ConversationPhase, TurnPhase
<1>5. ASSUME NEW i \in Id, entry'[i] \notin {"none", "undoable"}, row'[i] = "undoable"
      PROVE  pc'[Key(i)'] = "mark" /\ \A j : j = Key(i)' => HeadId(j)' = i
  <2>1. entry'[i] = entry[i]
    BY <1>2, <1>5 DEF MarkInv, SnapshotBehind
  <2>2. i \in Used /\ Key(i) \in Conv /\ Key(i)' = Key(i)
    BY <1>1, <1>5, <2>1, EntryOfKey, KeyOfUsed DEF Key
  <2>3. pc[Key(i)] = "mark" /\ HeadId(Key(i)) = i
    BY <1>2, <1>5, <2>1 DEF MarkInv, TableFollows
  <2> QED BY <1>1, <1>3, <2>2, <2>3
<1>6. TableFollows'
  BY <1>5 DEF TableFollows
<1>7. SnapshotBehind'
  BY <1>2 DEF MarkInv, SnapshotBehind
<1> QED BY <1>4, <1>6, <1>7 DEF MarkInv

\* nor takes it back,
LEMMA OutsideDecided ==
    ASSUME TypeOK, LaneInv, StepInv, DecidedInv, Outside
    PROVE  DecidedInv'
<1>1. /\ UNCHANGED <<pc, alive>> /\ \A i \in Used : target'[i] = target[i]
      /\ \A j \in Conv : lane[j] # <<>> => Head1(j)' = Head1(j)
  BY PlainSteps, RequestSteps DEF RequestConversationDeletion, RequestTurnDeletion, Target
<1>2. \A i \in Id : entry'[i] = entry[i] \/ entry[i] = "none"
  BY OutsideSources
<1>3. ASSUME NEW k \in Conv, pc[k] \in FinalizePhase
      PROVE  HeadId(k)' = HeadId(k) /\ entry'[HeadId(k)] = entry[HeadId(k)]
  <2>1. pc[k] \notin {"start", "insert"}
    BY <1>3 DEF FinalizePhase, ConversationPhase, TurnPhase
  <2> QED BY <1>1, <1>2, <2>1, HeadOfKey DEF LaneInv, BusyHead, HeadId, StepInv, PhaseOfOp, PhaseOf
<1> QED BY <1>1, <1>3 DEF DecidedInv

\* a crash forgets what is not in the table, and at the start nothing is.
LEMMA InitCrashMark == (Init => MarkInv) /\ (Crash => MarkInv')
<1> USE DEF MarkInv, TableFollows, SnapshotBehind, MarkerOf
<1>1. ASSUME Init PROVE MarkInv
  <2>1. \A i \in Id : entry[i] = "none" /\ loader.snapshot[i] = "none"
    BY <1>1 DEF Init, NoRows, BootLoader, LoaderAt
  <2>2. \A k \in Conv : pc[k] \notin FinalizePhase /\ pc[k] # "undoing"
    BY <1>1 DEF Init, AtStart, FinalizePhase, ConversationPhase, TurnPhase
  <2> QED BY <2>1, <2>2
<1>2. ASSUME Crash PROVE MarkInv'
  <2>1. \A i \in Id : entry'[i] = "none" /\ loader'.snapshot[i] = "none"
    BY <1>2 DEF Crash, NoRows, BootLoader, LoaderAt
  <2>2. \A k \in Conv : pc'[k] \notin FinalizePhase /\ pc'[k] # "undoing"
    BY <1>2 DEF Crash, AtStart, FinalizePhase, ConversationPhase, TurnPhase
  <2> QED BY <2>1, <2>2
<1> QED BY <1>1, <1>2

\* So the marker is ahead.
LEMMA MarkCorrect ==
    ASSUME "mark" \notin Faults
    PROVE  Spec => []MarkInv
<1>1. TypeOK /\ LaneInv /\ StepInv /\ QueueInv /\ MarkInv /\ [Next]_vars => MarkInv'
  BY NextCases, LaneMark, OutsideMark, InitCrashMark
<1> QED BY <1>1, InitCrashMark, QueueCorrect, TypeCorrect, StepsCorrect, PTL DEF Spec

\* A finalization is of an intent whose Undo is over, whatever fails.
LEMMA DecidedCorrect == Spec => []DecidedInv
<1>1. Init => DecidedInv
  BY DEF Init, AtStart, DecidedInv, FinalizePhase, ConversationPhase, TurnPhase
<1>2. ASSUME Crash PROVE DecidedInv'
  BY <1>2 DEF Crash, AtStart, DecidedInv, FinalizePhase, ConversationPhase, TurnPhase
<1>3. ASSUME TypeOK, LaneInv, StepInv, DecidedInv, NEW k \in Conv, Lane(k),
             NEW j \in Conv, pc'[j] \in FinalizePhase
      PROVE  entry'[HeadId(j)'] # "undoable"
  <2>1. pc'[j] # "start"
    BY <1>3 DEF FinalizePhase, ConversationPhase, TurnPhase
  <2>2. CASE j # k
    <3>1. pc'[j] = pc[j]
      BY <1>3, <2>1, <2>2, OtherLanes
    <3>2. HeadId(j)' = HeadId(j) /\ entry'[HeadId(j)] = entry[HeadId(j)]
      BY <1>3, <2>1, <2>2, <3>1, OtherHeads
    <3> QED BY <1>3, <3>1, <3>2 DEF DecidedInv
  <2>3. CASE j = k /\ ~StartTurns(k)
    BY <1>3, <2>1, <2>3, OwnHead, HeadDecided
  <2>4. ~StartTurns(k) \/ j # k
    BY <1>3, <2>1, StartTurnsLanes
  <2> QED BY <2>2, <2>3, <2>4
<1>4. TypeOK /\ LaneInv /\ StepInv /\ DecidedInv /\ [Next]_vars => DecidedInv'
  <2> SUFFICES ASSUME TypeOK, LaneInv, StepInv, DecidedInv, [Next]_vars PROVE DecidedInv'
    OBVIOUS
  <2>1. CASE \E k \in Conv : Lane(k)
    BY <1>3, <2>1 DEF DecidedInv
  <2> QED BY <1>2, <2>1, NextCases, OutsideDecided
<1> QED BY <1>1, <1>4, TypeCorrect, StepsCorrect, PTL DEF Spec

\* What is deleted goes on behalf of an intent that covers it, that was not
\* undone and whose Undo is over: an Undo that reported "restored" is final, and
\* none is possible any more when the rows go.
THEOREM UndoneStays == ~UnreadableRow => (Spec => UndoIsFinal)
<1> SUFFICES ASSUME ~UnreadableRow PROVE Spec => UndoIsFinal
  OBVIOUS
<1>1. TypeOK /\ LaneInv /\ StepInv /\ RecordInv /\ DecidedInv /\ [Next]_vars =>
        [\A x \in alive \ alive' : \E i \in Used \ undone :
            x \in RowsOf(target[i]) /\ entry[i] \notin {"none", "undoable"}]_vars
  <2> SUFFICES ASSUME TypeOK, LaneInv, StepInv, RecordInv, DecidedInv, [Next]_vars,
                      NEW x \in alive \ alive'
               PROVE  \E i \in Used \ undone :
                         x \in RowsOf(target[i]) /\ entry[i] \notin {"none", "undoable"}
    OBVIOUS
  <2>1. ~Outside
    BY OutsideTargets
  <2>2. ~Crash
    BY DEF Crash, durable
  <2>3. PICK k \in Conv : Lane(k)
    BY <2>1, <2>2, NextCases
  <2>4. /\ HeadId(k) \in Used /\ x \in RowsOf(target[HeadId(k)])
        /\ pc[k] \in FinalizePhase \ {"start", "insert"}
    BY <2>3, LaneDestroys DEF FinalizePhase, ConversationPhase, TurnPhase
  <2>5. entry[HeadId(k)] \notin {"none", "undoable"}
    BY <2>4 DEF DecidedInv, StepInv, PhaseOfOp, PhaseOf, FinalizePhase, ConversationPhase,
       TurnPhase
  <2>6. HeadId(k) \notin undone
    BY <2>4, <2>5 DEF RecordInv, EntryHasRow, UndoneIsOut, Used
  <2> QED BY <2>4, <2>5, <2>6
<1> QED BY <1>1, RecordCorrect, DecidedCorrect, TypeCorrect, StepsCorrect, PTL
        DEF Spec, UndoIsFinal

\* The rows of a turn go only after the intent that deletes them is durably past
\* "undoable", where the marker can be written.
THEOREM MarkersPrecedeRows == "mark" \notin Faults => (Spec => MarkerPrecedesRows)
<1> SUFFICES ASSUME "mark" \notin Faults PROVE Spec => MarkerPrecedesRows
  OBVIOUS
<1>1. TypeOK /\ LaneInv /\ StepInv /\ MarkInv /\ [Next]_vars =>
        [\A k \in Conv : IsTurnAtHead(k) /\ target[Head1(k).id] \in alive \ alive'
            => row[Head1(k).id] # "undoable"]_vars
  <2> SUFFICES ASSUME TypeOK, LaneInv, StepInv, MarkInv, [Next]_vars, NEW k \in Conv,
                      IsTurnAtHead(k), target[HeadId(k)] \in alive, target[HeadId(k)] \notin alive'
               PROVE  row[HeadId(k)] # "undoable"
    BY DEF HeadId
  <2>1. PICK j \in Conv : Lane(j)
    <3>1. ~Outside
      BY OutsideTargets
    <3>2. ~Crash
      BY DEF Crash, durable
    <3> QED BY <3>1, <3>2, NextCases
  <2>2. /\ lane[k] # <<>> /\ Head1(k) # TurnsOp /\ target[HeadId(k)] \in Turn
        /\ Key(HeadId(k)) = k /\ HeadId(k) \in Id
    <3>1. lane[k] # <<>> /\ Head1(k) # TurnsOp
      BY TurnsOpName DEF IsTurnAtHead
    <3> QED BY <3>1, HeadOfKey DEF IsTurnAtHead, IsTurn, HeadId
  <2>3. DeleteConversation(j) \/ DeleteTurn(j)
    BY <2>1 DEF durable, Lane, Finalize, StartQueue, InsertIntent, InsertFails, StartUndo, UndoDone,
       UndoFails, StartTurns, StartFinalize, MarkConversation, MarkTurn, MarkTurnFails, VerifyFresh,
       VerifyStale, VerifyFails, Quarantine, DeleteConversationFails, CleanUpConversation,
       CleanUpFails, PurgeTurn, PurgeFails, PurgeDone, ScrubManifest, ScrubFails,
       DeleteTurnFails, CleanUpTurn, CleanUpTurnFails, MarkCleanUpPending, Withdraw,
       WithdrawFails, FinalizeFails
  <2>4. PhaseOf(j) /\ lane[j] # <<>> /\ Head1(j) # TurnsOp /\ pc[j] \in {"delete", "deleteTurn"}
    BY <2>3 DEF StepInv, PhaseOfOp, DeleteConversation, DeleteTurn, Running, LaneInv, BusyHead
  <2>5. Key(HeadId(j)) = j
    BY <2>4, HeadOfKey
  <2>6. j = k
    <3>1. CASE DeleteConversation(j)
      BY <2>2, <3>1, TargetAssumption DEF DeleteConversation, RowsOf, Key, KeyOf
    <3>2. CASE DeleteTurn(j)
      BY <2>2, <2>5, <3>2 DEF DeleteTurn, HeadId, Key
    <3> QED BY <2>3, <3>1, <3>2
  <2>7. pc[k] = "deleteTurn"
    BY <2>2, <2>4, <2>6, TargetAssumption DEF PhaseOf, ConversationPhase, IsConv
  <2> QED BY <2>7 DEF MarkInv, MarkerOf, FinalizePhase, TurnPhase
<1> QED BY <1>1, MarkCorrect, TypeCorrect, StepsCorrect, PTL DEF Spec, MarkerPrecedesRows

-------------------------------------------------------------------------------
USE DEF Lane, Finalize, StartQueue, InsertIntent, InsertFails, StartUndo, UndoDone, UndoFails,
    StartTurns, StartFinalize, MarkConversation, MarkTurn, MarkTurnFails, VerifyFresh,
    VerifyStale, VerifyFails, Quarantine, DeleteConversation, DeleteConversationFails,
    CleanUpConversation, CleanUpFails, PurgeTurn, PurgeFails, PurgeDone, ScrubManifest,
    ScrubFails, DeleteTurn, DeleteTurnFails, CleanUpTurn, CleanUpTurnFails,
    MarkCleanUpPending, Withdraw, WithdrawFails, FinalizeFails

\* Nothing in a lane becomes undoable except what it inserts.
LEMMA LaneUndoable ==
    ASSUME TypeOK, LaneInv, StepInv, NEW k \in Conv, Lane(k), NEW i \in Id,
           row'[i] = "undoable" \/ entry'[i] = "undoable"
    PROVE  row[i] = "undoable" \/ entry[i] = "undoable" \/ (InsertIntent(k) /\ i = HeadId(k))
<1> HIDE DEF StartTurns
<1>1. row \in [Id -> IntentState] /\ entry \in [Id -> IntentState]
  BY DEF TypeOK, DurableTypeOK, MemoryTypeOK
<1>2. CASE StartTurns(k)
  BY <1>2 DEF StartTurns, durable, memory
<1>3. CASE ~StartTurns(k)
  <2>1. HeadId(k) \in Id
    BY <1>3, LaneHead DEF LaneInv
  <2>2. CASE row'[i] = "undoable"
    BY <1>1, <1>3, <2>1, <2>2 DEF durable, TryUpdate, Updated, HeadId
  <2>3. CASE entry'[i] = "undoable"
    BY <1>1, <1>3, <2>1, <2>3 DEF memory, RemoveEntry, HeadId
  <2> QED BY <2>2, <2>3
<1> QED BY <1>2, <1>3

\* What a lane deletes is covered by the intent at its head, which is neither
\* waiting to be recorded nor undoable any more.
LEMMA LaneCovers ==
    ASSUME TypeOK, LaneInv, StepInv, RecordInv, MarkInv, NEW k \in Conv, Lane(k),
           NEW x \in alive, x \notin alive'
    PROVE  \E d \in Used :
              /\ d \in Id /\ x \in RowsOf(target[d])
              /\ row[d] \notin {"none", "undoable"} /\ entry[d] # "undoable"
              /\ UNCHANGED <<row, entry>>
<1> DEFINE d == HeadId(k)
<1>1. DeleteConversation(k) \/ DeleteTurn(k)
  BY DEF durable
<1>2. PhaseOf(k) /\ lane[k] # <<>> /\ Head1(k) # TurnsOp /\ pc[k] \in {"delete", "deleteTurn"}
  BY <1>1 DEF StepInv, PhaseOfOp, Running, LaneInv, BusyHead
<1>3. d \in Used /\ d \in Id /\ Key(d) = k /\ entry[d] # "none"
  BY <1>2, HeadOfKey DEF PhaseOf
<1>4. row[d] \notin {"none", "undoable"} /\ entry[d] # "undoable"
  BY <1>2, <1>3 DEF MarkInv, MarkerOf, FinalizePhase, ConversationPhase, TurnPhase, RecordInv,
     EntryHasRow
<1>5. x \in RowsOf(target[d])
  <2>1. CASE DeleteConversation(k)
    <3>1. target[d] = k
      BY <1>2, <1>3, <2>1 DEF Running, PhaseOf, ConversationPhase, IsConv, Key, KeyOf
    <3> QED BY <2>1, <3>1
  <2>2. CASE DeleteTurn(k)
    BY <2>2 DEF RowsOf, HeadId
  <2> QED BY <1>1, <2>1, <2>2
<1> QED BY <1>1, <1>3, <1>4, <1>5 DEF memory

HIDE DEF Lane, Finalize, StartQueue, InsertIntent, InsertFails, StartUndo, UndoDone, UndoFails,
    StartTurns, StartFinalize, MarkConversation, MarkTurn, MarkTurnFails, VerifyFresh,
    VerifyStale, VerifyFails, Quarantine, DeleteConversation, DeleteConversationFails,
    CleanUpConversation, CleanUpFails, PurgeTurn, PurgeFails, PurgeDone, ScrubManifest,
    ScrubFails, DeleteTurn, DeleteTurnFails, CleanUpTurn, CleanUpTurnFails,
    MarkCleanUpPending, Withdraw, WithdrawFails, FinalizeFails

\* What only one decision speaks of outlives every step of a lane that leaves the
\* decision undoable,
LEMMA LaneLone ==
    ASSUME TypeOK, LaneInv, StepInv, QueueInv, RecordInv, MarkInv, LoneInv, NEW k \in Conv, Lane(k)
    PROVE  LoneInv'
<1>1. target' = target /\ Used' = Used
  BY LaneTargets DEF Used
<1>2. ASSUME NEW i \in Used, OnlyDecision(i),
             row'[i] = "undoable" \/ entry'[i] = "undoable" \/ QueueOp(i) \in Waiting(Key(i))'
      PROVE  target[i] \in alive'
  <2>1. i \in Id /\ Key(i) \in Conv /\ QueueOp(i).op = "queue" /\ QueueOp(i).id = i
    BY KeyOfUsed DEF Used, QueueOp
  <2>2. ASSUME InsertIntent(k), i = HeadId(k) PROVE QueueOp(i) \in Waiting(Key(i))
    <3>1. Head1(k).op = "queue" /\ Head1(k) \in Waiting(k) /\ Key(i) = k /\ Head1(k) # TurnsOp
      BY <2>2, InsertHead, TurnsOpName
    <3>2. Head1(k) \in Op
      BY <3>1 DEF Waiting, TypeOK, LaneTypeOK
    <3>3. Head1(k) = QueueOp(i)
      BY <2>2, <3>1, <3>2 DEF Op, QueueOp, HeadId
    <3> QED BY <3>1, <3>3
  <2>3. row[i] = "undoable" \/ entry[i] = "undoable" \/ QueueOp(i) \in Waiting(Key(i))
    <3>1. \A o \in Waiting(Key(i))' : o.op = "queue" => o \in Waiting(Key(i))
      <4>1. \A j \in Conv : j = Key(i) => \A o \in Waiting(j)' : o.op = "queue" => o \in Waiting(j)
        BY LaneQueue
      <4> QED BY <1>1, <2>1, <4>1 DEF Key, Waiting
    <3> QED BY <1>2, <2>1, <2>2, <3>1, LaneUndoable
  <2>4. target[i] \in alive
    BY <1>2, <2>3 DEF LoneInv
  <2>5. ASSUME target[i] \notin alive' PROVE FALSE
    <3>1. PICK d \in Used : /\ d \in Id /\ target[i] \in RowsOf(target[d])
                            /\ row[d] \notin {"none", "undoable"} /\ entry[d] # "undoable"
                            /\ UNCHANGED <<row, entry>>
      BY <2>4, <2>5, LaneCovers
    <3>2. d = i
      <4>1. target[d] \in {target[i], Key(i)}
        BY <3>1, TargetAssumption, KeyOfUsed DEF RowsOf, Key, KeyOf, Target
      <4> QED BY <1>2, <4>1 DEF OnlyDecision
    <3>3. QueueOp(i) \notin Waiting(Key(i))
      BY <2>1, <3>1, <3>2 DEF QueueInv, QueueNew, Unknown
    <3> QED BY <2>3, <3>1, <3>2, <3>3
  <2> QED BY <2>5
<1> QED BY <1>1, <1>2 DEF LoneInv, OnlyDecision, Key

\* every step from outside,
LEMMA OutsideLone ==
    ASSUME TypeOK, LaneInv, ~UnreadableRow, RecordInv, LoneInv, Outside
    PROVE  LoneInv'
<1>1. /\ row' = row /\ alive' = alive
      /\ \A i \in Used : i \in Used' /\ target'[i] = target[i] /\ Key(i)' = Key(i)
      /\ \A i \in Id : entry'[i] = entry[i] \/ (entry[i] = "none" /\ entry'[i] = row[i])
  BY OutsideRows, OutsideTargets, OutsideLoads DEF RecordInv, Key
<1>2. ASSUME NEW i \in Used', i \notin Used PROVE target'[i] \in alive
  <2>1. CASE \E x \in Target : RequestDeletion(x)
    <3>1. PICK x \in Target : RequestDeletion(x)
      BY <2>1
    <3>2. target' = [target EXCEPT ![nextId + 1] = x] /\ x \in alive
      BY <3>1 DEF RequestDeletion
    <3> QED BY <1>2, <3>2 DEF Used, TypeOK, DurableTypeOK
  <2>2. CASE ~\E x \in Target : RequestDeletion(x)
    <3>1. target' = target
      BY <2>2, PlainSteps DEF RequestConversationDeletion, RequestTurnDeletion, Target
    <3> QED BY <1>2, <3>1 DEF Used
  <2> QED BY <2>1, <2>2
<1>3. ASSUME NEW i \in Used, OnlyDecision(i)',
             row'[i] = "undoable" \/ entry'[i] = "undoable" \/ QueueOp(i) \in Waiting(Key(i))'
      PROVE  target[i] \in alive
  <2>1. i \in Id /\ Key(i) \in Conv /\ QueueOp(i).op = "queue"
    BY KeyOfUsed DEF Used, QueueOp
  <2>2. OnlyDecision(i)
    BY <1>1, <1>3 DEF OnlyDecision
  <2>3. QueueOp(i) \in Waiting(Key(i))' => QueueOp(i) \in Waiting(Key(i))
    <3>1. \A j \in Conv : j = Key(i) =>
            \A o \in Waiting(j)' : o.op = "queue" =>
                o \in Waiting(j) \/ (o = QueueOp(nextId + 1) /\ nextId + 1 \in Id \ Used)
      BY OutsideQueue
    <3>2. ASSUME QueueOp(i) = QueueOp(nextId + 1) PROVE i = nextId + 1
      BY <3>2 DEF QueueOp
    <3>3. Key(i)' = Key(i)
      BY <1>1
    <3> QED BY <2>1, <3>1, <3>2, <3>3 DEF Waiting
  <2> QED BY <1>1, <1>3, <2>1, <2>2, <2>3 DEF LoneInv
<1>4. ASSUME NEW i \in Used', OnlyDecision(i)',
             row'[i] = "undoable" \/ entry'[i] = "undoable" \/ QueueOp(i) \in Waiting(Key(i))'
      PROVE  target'[i] \in alive'
  BY <1>1, <1>2, <1>3, <1>4
<1> QED BY <1>4 DEF LoneInv

\* a crash, and exists at the start.
LEMMA InitCrashLone == (Init => LoneInv) /\ (TypeOK /\ LoneInv /\ Crash => LoneInv')
<1>1. Init => LoneInv
  BY DEF Init, LoneInv, Used
<1>2. ASSUME TypeOK, LoneInv, Crash PROVE LoneInv'
  <2>1. UNCHANGED <<row, target, alive>> /\ \A i \in Id : entry'[i] = "none"
    BY <1>2 DEF Crash, durable, NoRows
  <2>2. Used' = Used /\ \A i : Key(i)' = Key(i) /\ (OnlyDecision(i)' <=> OnlyDecision(i))
    BY <2>1 DEF Used, Key, OnlyDecision
  <2>3. ASSUME NEW i \in Used, OnlyDecision(i),
               row'[i] = "undoable" \/ entry'[i] = "undoable" \/ QueueOp(i) \in Waiting(Key(i))'
        PROVE  target[i] \in alive
    <3>1. i \in Id /\ Key(i) \in Conv
      BY <1>2, KeyOfUsed DEF Used
    <3>2. \A j \in Conv : j = Key(i) => Waiting(j)' = {}
      BY <1>2, InitCrashWaits
    <3>3. Key(i)' = Key(i)
      BY <2>2
    <3>4. QueueOp(i) \notin Waiting(Key(i))'
      BY <3>1, <3>2, <3>3 DEF Waiting
    <3> QED BY <1>2, <2>1, <2>3, <3>1, <3>4 DEF LoneInv
  <2> QED BY <2>1, <2>2, <2>3 DEF LoneInv
<1> QED BY <1>1, <1>2

\* So it exists for as long as its only decision can be undone.
LEMMA LoneCorrect ==
    ASSUME ~UnreadableRow, "mark" \notin Faults
    PROVE  Spec => []LoneInv
<1>1. TypeOK /\ LaneInv /\ StepInv /\ QueueInv /\ RecordInv /\ MarkInv /\ LoneInv /\ [Next]_vars
        => LoneInv'
  BY NextCases, LaneLone, OutsideLone, InitCrashLone
<1> QED BY <1>1, InitCrashLone, QueueCorrect, RecordCorrect, MarkCorrect, TypeCorrect,
           StepsCorrect, PTL DEF Spec

\* An Undo that reports "restored" tells the truth where no other deletion of the
\* same rows was ever asked for, the marker can be written and every row decoded:
\* no crash and no failure of the finalizer makes it a lie.
THEOREM LoneUndoIsTrue ==
    ~UnreadableRow /\ "mark" \notin Faults => (Spec => LoneUndoRestoresRows)
<1> SUFFICES ASSUME ~UnreadableRow, "mark" \notin Faults PROVE Spec => LoneUndoRestoresRows
  OBVIOUS
<1>1. TypeOK /\ LaneInv /\ StepInv /\ RecordInv /\ MarkInv /\ LoneInv /\ [Next]_vars =>
        [\A i \in undone' \ undone : OnlyDecision(i) => target[i] \in alive]_vars
  <2> SUFFICES ASSUME TypeOK, LaneInv, StepInv, RecordInv, MarkInv, LoneInv, [Next]_vars,
                      NEW i \in undone', i \notin undone, OnlyDecision(i)
               PROVE  target[i] \in alive
    OBVIOUS
  <2>1. PICK k \in Conv : Lane(k)
    <3>1. ~Outside
      BY OutsideLoads DEF RecordInv
    <3>2. ~Crash
      BY DEF Crash
    <3> QED BY <3>1, <3>2, NextCases
  <2>2. i \in Id
    BY <2>1, LaneTypes DEF LaneInv, TypeOK, ProcessTypeOK
  <2>3. UndoDone(k) /\ i = HeadId(k)
    BY <2>1, <2>2, LaneTable
  <2>4. lane[k] # <<>> /\ pc[k] = "undoing" /\ i \in Used
    BY <2>3, HeadOfKey DEF UndoDone, Running, LaneInv, BusyHead
  <2>5. entry[i] = "undoable"
    BY <2>3, <2>4 DEF MarkInv, MarkerOf
  <2> QED BY <2>4, <2>5 DEF LoneInv
<1> QED BY <1>1, LoneCorrect, RecordCorrect, MarkCorrect, TypeCorrect, StepsCorrect, PTL
        DEF Spec, LoneUndoRestoresRows

-------------------------------------------------------------------------------
USE DEF Lane, Finalize, StartQueue, InsertIntent, InsertFails, StartUndo, UndoDone, UndoFails,
    StartTurns, StartFinalize, MarkConversation, MarkTurn, MarkTurnFails, VerifyFresh,
    VerifyStale, VerifyFails, Quarantine, DeleteConversation, DeleteConversationFails,
    CleanUpConversation, CleanUpFails, PurgeTurn, PurgeFails, PurgeDone, ScrubManifest,
    ScrubFails, DeleteTurn, DeleteTurnFails, CleanUpTurn, CleanUpTurnFails,
    MarkCleanUpPending, Withdraw, WithdrawFails, FinalizeFails

\* How a step of a lane leaves the intent at its head: still being finalized, with
\* a timer, out of the store, or with nothing of it touched but an undo.
LEMMA HeadHeart ==
    ASSUME TypeOK, LaneInv, StepInv, QueueInv, NEW k \in Conv, Lane(k), ~StartTurns(k)
    PROVE  \/ pc'[k] \in FinalizePhase
           \/ timer'[HeadId(k)] # "off"
           \/ entry'[HeadId(k)] = "none"
           \/ Head1(k).op = "undo" /\ timer' = timer /\ entry' = entry
<1> HIDE DEF StartTurns
<1> DEFINE i == HeadId(k)
<1>1. i \in Id /\ PhaseOf(k) /\ k \in DOMAIN pc /\ Head1(k) \in Waiting(k) /\ lane[k] # <<>>
  BY LaneHead, HeadWaits DEF StepInv, PhaseOfOp, LaneInv, TypeOK, LaneTypeOK
<1>2. entry \in [Id -> IntentState] /\ timer \in [Id -> {"off", "expiry", "retry"}]
  BY DEF TypeOK, MemoryTypeOK
<1>3. Head1(k).op = "queue" => entry[i] = "none"
  BY <1>1 DEF QueueInv, QueueNew, Unknown, HeadId
<1> USE <1>1, <1>2 DEF Running, HeadId, FinalizePhase, ConversationPhase, TurnPhase, GoTo, EndOp,
    Arm, memory
<1>4. CASE StartQueue(k) \/ InsertFails(k)
  BY <1>3, <1>4 DEF PhaseOf
<1>5. CASE InsertIntent(k)
  BY <1>5
<1>6. CASE UndoDone(k) \/ Withdraw(k)
  BY <1>6 DEF RemoveEntry
<1>7. CASE StartUndo(k) \/ UndoFails(k)
  BY <1>7 DEF PhaseOf
<1>8. CASE StartFinalize(k) \/ MarkTurnFails(k) \/ Quarantine(k) \/ WithdrawFails(k) \/ FinalizeFails(k)
  BY <1>8
<1>9. CASE \/ MarkConversation(k) \/ MarkTurn(k)
           \/ VerifyFresh(k) \/ VerifyStale(k) \/ VerifyFails(k) \/ DeleteConversation(k)
           \/ DeleteConversationFails(k) \/ CleanUpConversation(k) \/ CleanUpFails(k)
           \/ PurgeFails(k) \/ ScrubFails(k) \/ DeleteTurn(k) \/ DeleteTurnFails(k)
           \/ MarkCleanUpPending(k) \/ PurgeTurn(k) \/ PurgeDone(k) \/ CleanUpTurn(k)
           \/ CleanUpTurnFails(k) \/ ScrubManifest(k)
  BY <1>9
<1> QED BY <1>4, <1>5, <1>6, <1>7, <1>8, <1>9

\* It touches no other timer, except of what it purges.
LEMMA LaneTimers ==
    ASSUME TypeOK, LaneInv, NEW k \in Conv, Lane(k)
    PROVE  /\ UNCHANGED process
           /\ \A i \in Id : timer'[i] = timer[i] \/ entry'[i] = "none" \/ (i = HeadId(k) /\ ~StartTurns(k))
<1> HIDE DEF StartTurns
<1>1. UNCHANGED process
  BY DEF StartTurns
<1>2. CASE StartTurns(k)
  BY <1>1, <1>2 DEF StartTurns, memory
<1>3. CASE ~StartTurns(k)
  <2>1. HeadId(k) \in Id
    BY <1>3, LaneHead DEF LaneInv
  <2> QED BY <1>1, <1>3, <2>1 DEF memory, RemoveEntry, Arm, HeadId, TypeOK, MemoryTypeOK
<1> QED BY <1>2, <1>3

\* What a conversation's delete still has to purge is loaded.
LEMMA LaneTodo ==
    ASSUME TypeOK, LaneInv, TodoLoaded, NEW k \in Conv, Lane(k)
    PROVE  TodoLoaded'
<1>1. ASSUME NEW j \in Conv \ {k}
      PROVE  pc'[j] = pc[j] /\ todo'[j] = todo[j] /\ \A i \in todo[j] : entry'[i] = entry[i]
  <2>1. pc'[j] = pc[j] /\ todo'[j] = todo[j]
    BY OtherLanes
  <2>2. \A i \in todo[j] : i \in Id /\ Key(i) # k
    BY DEF LaneInv, TodoOfKey, Used
  <2> QED BY <2>1, <2>2, OtherEntries
<1>2. (pc'[k] # "purge" => todo'[k] = {}) /\ \A i \in todo'[k] : entry'[i] # "none"
  <2> HIDE DEF StartTurns
  <2>1. CASE CleanUpConversation(k)
    <3>1. entry' = entry /\ todo'[k] = TurnEntries(k) /\ pc'[k] = "purge"
      BY <2>1 DEF memory, GoTo, TypeOK, LaneTypeOK
    <3> QED BY <3>1 DEF TurnEntries
  <2>2. CASE PurgeTurn(k)
    <3>1. PICK j \in todo[k] : RemoveEntry(j) /\ todo' = [todo EXCEPT ![k] = @ \ {j}]
      BY <2>2
    <3>2. pc' = pc /\ pc[k] = "purge" /\ todo'[k] = todo[k] \ {j}
      BY <2>2, <3>1 DEF Running, TypeOK, LaneTypeOK
    <3>3. \A i \in todo[k] \ {j} : i \in Id /\ entry'[i] = entry[i]
      BY <3>1 DEF RemoveEntry, TypeOK, MemoryTypeOK, LaneTypeOK
    <3> QED BY <3>2, <3>3 DEF TodoLoaded
  <2>3. CASE PurgeFails(k)
    BY <2>3 DEF TypeOK, LaneTypeOK
  <2>4. CASE PurgeDone(k)
    BY <2>4
  <2>5. CASE ~CleanUpConversation(k) /\ ~PurgeTurn(k) /\ ~PurgeFails(k) /\ ~PurgeDone(k)
    <3>1. todo' = todo /\ pc[k] # "purge"
      BY <2>5 DEF Running, StartTurns
    <3> QED BY <3>1 DEF TodoLoaded
  <2> QED BY <2>1, <2>2, <2>3, <2>4, <2>5
<1> QED BY <1>1, <1>2 DEF TodoLoaded

\* No row goes whose intent is not loaded.
LEMMA LaneDrops ==
    ASSUME TypeOK, LaneInv, StepInv, TodoLoaded, NEW k \in Conv, Lane(k),
           NEW i \in Id, row[i] # "none", row'[i] = "none"
    PROVE  entry[i] # "none"
<1> HIDE DEF StartTurns
<1>1. UndoDone(k) \/ Withdraw(k) \/ PurgeTurn(k)
  BY LaneTable
<1>2. CASE PurgeTurn(k)
  BY <1>2 DEF TodoLoaded, TypeOK, DurableTypeOK
<1>3. CASE UndoDone(k) \/ Withdraw(k)
  <2>1. i = HeadId(k)
    BY <1>3 DEF HeadId, TypeOK, DurableTypeOK
  <2> QED BY <1>3, <2>1 DEF Running, StepInv, PhaseOfOp, PhaseOf
<1> QED BY <1>1, <1>2, <1>3

HIDE DEF Lane, Finalize, StartQueue, InsertIntent, InsertFails, StartUndo, UndoDone, UndoFails,
    StartTurns, StartFinalize, MarkConversation, MarkTurn, MarkTurnFails, VerifyFresh,
    VerifyStale, VerifyFails, Quarantine, DeleteConversation, DeleteConversationFails,
    CleanUpConversation, CleanUpFails, PurgeTurn, PurgeFails, PurgeDone, ScrubManifest,
    ScrubFails, DeleteTurn, DeleteTurnFails, CleanUpTurn, CleanUpTurnFails,
    MarkCleanUpPending, Withdraw, WithdrawFails, FinalizeFails

\* What a step of a lane leaves in the store has a next attempt if it had one.
LEMMA LaneHeart ==
    ASSUME TypeOK, LaneInv, StepInv, QueueInv, NEW k \in Conv, Lane(k),
           NEW i \in Used, entry'[i] # "none"
    PROVE  /\ entry[i] = "none" => Hearted(i)'
           /\ Hearted(i) => Hearted(i)'
<1>1. i \in Id /\ Key(i) \in Conv /\ Key(i)' = Key(i)
  BY KeyOfUsed, LaneTargets DEF Used, Key
<1>2. ASSUME NEW o, o \in Waiting(Key(i))', o.op \in Attempts, o.id = i PROVE Hearted(i)'
  BY <1>2 DEF Hearted
<1>3. ASSUME NEW o, o \in Waiting(Key(i)), Key(i) # k \/ o # Head1(k) PROVE o \in Waiting(Key(i))'
  <2>1. \A j \in Conv : j = Key(i) /\ j # k => Waiting(j)' = Waiting(j)
    BY LaneKeepsRest
  <2>2. \A j \in Conv : j = Key(i) /\ j = k => (o \in Waiting(j) /\ o # Head1(j) => o \in Waiting(j)')
    BY LaneKeepsRest
  <2> QED BY <1>1, <1>3, <2>1, <2>2 DEF Waiting
<1>4. CASE i = HeadId(k) /\ ~StartTurns(k)
  <2>1. Key(i) = k
    BY <1>4, LaneHead, HeadOfKey DEF LaneInv
  <2>2. CASE pc'[k] \in FinalizePhase
    <3>1. Head1(k)' = Head1(k) /\ lane'[k] = lane[k] /\ PhaseOf(k)' /\ Head1(k) \in Waiting(k)
      BY <2>2, OwnHead, LanePhase, LaneHead, HeadWaits
         DEF StepInv, PhaseOfOp, FinalizePhase, ConversationPhase, TurnPhase, LaneInv
    <3>2. Head1(k).op \in Attempts /\ pc'[k] # "start"
      BY <2>2, <3>1 DEF PhaseOf, Attempts, FinalizePhase, ConversationPhase, TurnPhase
    <3>3. Head1(k) \in Waiting(Key(i))'
      BY <1>1, <2>1, <3>1 DEF Waiting
    <3> QED BY <1>2, <1>4, <3>2, <3>3 DEF HeadId
  <2>3. CASE timer'[i] # "off"
    BY <2>3 DEF Hearted
  <2>4. CASE Head1(k).op = "undo" /\ timer' = timer /\ entry' = entry
    BY <1>2, <1>3, <2>4 DEF Hearted, Attempts
  <2> QED BY <1>4, <2>2, <2>3, <2>4, HeadHeart
<1>5. CASE ~(i = HeadId(k) /\ ~StartTurns(k))
  <2>1. timer'[i] = timer[i]
    BY <1>1, <1>5, LaneTimers
  <2>2. entry[i] # "none"
    BY <1>1, <1>5, LaneEntries, InsertHead, TurnsOpName DEF StartTurns
  <2>3. ASSUME NEW o, o \in Waiting(Key(i)), o.op \in Attempts, o.id = i
        PROVE  Key(i) # k \/ o # Head1(k)
    <3>1. StartTurns(k) => Head1(k).op = "turns"
      BY TurnsOpName DEF StartTurns
    <3> QED BY <1>5, <2>3, <3>1 DEF Attempts, HeadId
  <2> QED BY <1>2, <1>3, <2>1, <2>2, <2>3 DEF Hearted
<1> QED BY <1>4, <1>5

-------------------------------------------------------------------------------
\* Nothing but the loader and the startup task changes how far the start has come.
LEMMA OutsideProcess ==
    ASSUME Outside, ~Load
    PROVE  UNCHANGED process
BY DEF Outside, RequestConversationDeletion, RequestTurnDeletion, RequestDeletion,
   RequestUndo, RequestFork, UndoWindowEnds, TimerFires, Send, BeginSend,
   PassPendingCheck, SendCaptures, ValidateScope, SendEnters, SendLeaves, SweepExpired, vars

\* Before panels mount, nothing joins a lane but the finalizations of timers.
LEMMA BeforePanels ==
    ASSUME TypeOK, Outside, ~Load, ~ui, \A i \in Id : entry[i] = "none"
    PROVE  UNCHANGED lane
BY DEF Outside, RequestConversationDeletion, RequestTurnDeletion, RequestDeletion,
   RequestUndo, RequestFork, UndoWindowEnds, TimerFires, Send, BeginSend,
   PassPendingCheck, SendCaptures, ValidateScope, SendEnters, SendLeaves, SweepExpired,
   lanes, vars

\* What a load that does not fail does to it.
LEMMA LoadBoots ==
    ASSUME TypeOK, BootInv, "select" \notin Faults, Load
    PROVE  BootInv'
<1> USE DEF BootInv, Loading, process, LoaderAt, IdleLoader
<1>1. CASE EnsureFenceLoaded \/ StartupSweep
  BY <1>1 DEF EnsureFenceLoaded, StartupSweep, StartLoad
<1>2. CASE SelectIntents
  <2>1. \/ loader'.phase = "unreadable" /\ loader'.sweep = loader.sweep /\ UNCHANGED <<ui, fenceLoaded>>
        \/ \E due : LoadEnds(due) /\ ui' = TRUE
    BY <1>2 DEF SelectIntents
  <2>2. loader.phase = "select" /\ swept' = swept
    BY <1>2 DEF SelectIntents
  <2> QED BY <2>1, <2>2 DEF LoadEnds
<1>3. CASE MarkUnreadable
  <2>1. \E due : LoadEnds(due)
    BY <1>3 DEF MarkUnreadable
  <2>2. loader.phase = "unreadable" /\ swept' = swept /\ ui' = TRUE
    BY <1>3 DEF MarkUnreadable
  <2> QED BY <2>1, <2>2 DEF LoadEnds
<1>4. CASE SweepDue
  BY <1>4 DEF SweepDue
<1> QED BY <1>1, <1>2, <1>3, <1>4 DEF Load, SelectFails

\* So the start proceeds in its order: the first load, panels, the sweep.
LEMMA BootStays ==
    ASSUME TypeOK, LaneInv, BootInv, "select" \notin Faults, [Next]_vars
    PROVE  BootInv'
<1>1. CASE \E k \in Conv : Lane(k)
  <2>1. UNCHANGED process
    BY <1>1, LaneTimers
  <2> QED BY <2>1 DEF process, BootInv, Loading
<1>2. CASE Outside /\ ~Load
  <2>1. UNCHANGED process
    BY <1>2, OutsideProcess
  <2> QED BY <2>1 DEF process, BootInv, Loading
<1>3. CASE Load
  BY <1>3, LoadBoots
<1>4. CASE Crash
  BY <1>4 DEF Crash, BootInv, Loading, BootLoader, LoaderAt
<1> QED BY <1>1, <1>2, <1>3, <1>4, NextCases

\* A lane loads what it inserts, which no load has read, and drops only rows whose
\* intent is loaded.
LEMMA LaneLoad ==
    ASSUME TypeOK, LaneInv, StepInv, QueueInv, LoadInv, NEW k \in Conv, Lane(k)
    PROVE  LoadInv'
<1>1. UNCHANGED <<ui, swept, loader>>
  BY LaneTimers DEF process
<1>2. FirstLoad'
  <2>1. Head1(k) \in Waiting(k)
    BY LaneHead, HeadWaits DEF LaneInv
  <2>2. ui \/ loader.phase # "select"
    BY <2>1 DEF LoadInv, FirstLoad
  <2> QED BY <1>1, <2>2 DEF FirstLoad
<1>3. ASSUME EntryHasRow PROVE EntryHasRow'
  <2> SUFFICES ASSUME NEW i \in Id, entry'[i] # "none" PROVE row'[i] # "none"
    BY DEF EntryHasRow
  <2>1. CASE InsertIntent(k) /\ i = HeadId(k)
    BY <2>1, InsertHead
  <2>2. CASE entry[i] # "none"
    BY <1>3, <2>2, LaneTable DEF EntryHasRow
  <2> QED BY <2>1, <2>2, LaneEntries
<1>4. ASSUME NEW i \in Id, ~swept, loader.snapshot[i] # "none"
      PROVE  entry'[i] = "none" /\ row'[i] # "none"
  <2>1. entry[i] = "none" /\ row[i] # "none"
    BY <1>4 DEF LoadInv, UntilSweep
  <2>2. entry'[i] = "none"
    <3>1. ~(InsertIntent(k) /\ i = HeadId(k))
      BY <1>4, InsertHead DEF QueueInv, QueueNew, Unknown, HeadId
    <3> QED BY <2>1, <3>1, LaneEntries
  <2>3. row'[i] # "none"
    BY <2>1, LaneDrops DEF LoadInv
  <2> QED BY <2>2, <2>3
<1>5. UntilSweep'
  BY <1>1, <1>3, <1>4 DEF LoadInv, UntilSweep
<1> QED BY <1>2, <1>5, LaneTodo DEF LoadInv

\* What it does when it reads the table,
LEMMA SelectShape ==
    ASSUME SelectIntents
    PROVE  /\ loader.phase = "select" /\ UNCHANGED <<durable, lanes, swept>>
           /\ \E S \in SUBSET {i \in Id : row[i] # "none"} :
                 /\ \A i \in Id : entry'[i] = IF i \in S /\ entry[i] = "none" THEN row[i] ELSE entry[i]
                 /\ \A i \in S : timer'[i] = "expiry" \/ i \in Due(S, row)
                 /\ \/ /\ loader'.phase = "unreadable" /\ loader'.due = Due(S, row)
                       /\ \A i \in Id : loader'.snapshot[i] = IF i \in S THEN "none" ELSE row[i]
                    \/ /\ loader'.phase = (IF loader.sweep THEN "sweeping" ELSE "idle")
                       /\ S = {i \in Id : row[i] # "none"}
                       /\ loader.sweep => loader'.due = Due(S, row)
                       /\ \A i \in Id : loader'.snapshot[i] = "none"
<1> DEFINE all == {i \in Id : row[i] # "none"}
<1>1. PICK S \in SUBSET all :
        /\ UnreadableRow \/ S = all
        /\ LoadRows(S, row)
        /\ IF UnreadableRow
           THEN loader' = [phase |-> "unreadable", sweep |-> loader.sweep,
                           snapshot |-> [i \in Id |-> IF i \in S THEN "none" ELSE row[i]],
                           due |-> Due(S, row)]
           ELSE LoadEnds(Due(S, row))
  BY DEF SelectIntents
<1>2. /\ \A i \in Id : entry'[i] = IF i \in S /\ entry[i] = "none" THEN row[i] ELSE entry[i]
      /\ \A i \in S : timer'[i] = "expiry" \/ i \in Due(S, row)
  BY <1>1 DEF LoadRows, Due
<1>3. CASE UnreadableRow
  <2>1. loader'.phase = "unreadable" /\ loader'.due = Due(S, row)
        /\ \A i \in Id : loader'.snapshot[i] = IF i \in S THEN "none" ELSE row[i]
    BY <1>1, <1>3
  <2> QED BY <1>2, <2>1 DEF SelectIntents
<1>4. CASE ~UnreadableRow
  <2>1. /\ loader'.phase = (IF loader.sweep THEN "sweeping" ELSE "idle") /\ S = all
        /\ loader.sweep => loader'.due = Due(S, row)
        /\ \A i \in Id : loader'.snapshot[i] = "none"
    BY <1>1, <1>4 DEF LoadEnds, IdleLoader, LoaderAt, NoRows
  <2> QED BY <1>2, <2>1 DEF SelectIntents
<1> QED BY <1>3, <1>4

\* and when it goes on behind a row it could not decode.
LEMMA UnreadableShape ==
    ASSUME MarkUnreadable
    PROVE  /\ loader.phase = "unreadable" /\ ui' = TRUE /\ UNCHANGED <<durable, lanes, swept>>
           /\ \A i \in Id : entry'[i] = IF loader.snapshot[i] # "none" /\ entry[i] = "none"
                                       THEN loader.snapshot[i] ELSE entry[i]
           /\ loader'.phase = (IF loader.sweep THEN "sweeping" ELSE "idle")
           /\ loader.sweep =>
                 /\ loader.due \subseteq loader'.due
                 /\ \A i \in Id : loader.snapshot[i] # "none" => timer'[i] = "expiry" \/ i \in loader'.due
           /\ \A i \in Id : loader'.snapshot[i] = "none"
<1> DEFINE S == {i \in Id : loader.snapshot[i] # "none"}
<1>1. LoadRows(S, loader.snapshot) /\ LoadEnds(loader.due \cup Due(S, loader.snapshot))
  BY DEF MarkUnreadable
<1>2. /\ \A i \in Id : entry'[i] = IF loader.snapshot[i] # "none" /\ entry[i] = "none"
                                  THEN loader.snapshot[i] ELSE entry[i]
      /\ \A i \in S : timer'[i] = "expiry" \/ i \in Due(S, loader.snapshot)
  BY <1>1 DEF LoadRows, Due
<1>3. /\ loader'.phase = (IF loader.sweep THEN "sweeping" ELSE "idle")
      /\ loader.sweep => loader'.due = loader.due \cup Due(S, loader.snapshot)
      /\ \A i \in Id : loader'.snapshot[i] = "none"
  BY <1>1 DEF LoadEnds, IdleLoader, LoaderAt, NoRows
<1> QED BY <1>2, <1>3 DEF MarkUnreadable

\* The loader loads what is in the table, or was until now.
LEMMA LoadLoads ==
    ASSUME TypeOK, BootInv, LoadInv, "select" \notin Faults, Load
    PROVE  FirstLoad' /\ UntilSweep'
<1>1. CASE EnsureFenceLoaded
  BY <1>1 DEF EnsureFenceLoaded, BootInv, Loading, StartLoad
<1>2. CASE StartupSweep
  <2>1. UNCHANGED <<row, entry, ui>> /\ swept' /\ ui /\ ~swept
    BY <1>2 DEF StartupSweep, durable, memory
  <2> QED BY <2>1 DEF LoadInv, FirstLoad, UntilSweep, EntryHasRow
<1>3. CASE SelectIntents
  <2>1. row' = row /\ swept' = swept /\ loader.phase = "select"
    BY <1>3, SelectShape DEF durable
  <2>2. loader'.phase # "select"
    BY <1>3, SelectShape
  <2>3. \A i \in Id : entry'[i] = entry[i] \/ entry'[i] = row[i]
    BY <1>3, SelectShape
  <2>4. EntryHasRow'
    BY <2>1, <2>3 DEF LoadInv, UntilSweep, EntryHasRow
  <2>5. ASSUME ~swept, NEW i \in Id, loader'.snapshot[i] # "none"
        PROVE  entry'[i] = "none" /\ row[i] # "none"
    <3>1. entry[i] = "none"
      BY <2>1, <2>5 DEF BootInv, Loading, LoadInv, FirstLoad
    <3> QED BY <1>3, <2>5, <3>1, SelectShape
  <2> QED BY <2>1, <2>2, <2>4, <2>5 DEF FirstLoad, UntilSweep
<1>4. CASE MarkUnreadable
  <2>1. row' = row /\ swept' = swept /\ ui'
    BY <1>4, UnreadableShape DEF durable
  <2>2. loader'.phase # "select" /\ \A i \in Id : loader'.snapshot[i] = "none"
    BY <1>4, UnreadableShape
  <2>3. \A i \in Id : entry'[i] = entry[i] \/ loader.snapshot[i] # "none"
    BY <1>4, UnreadableShape
  <2>4. ~swept => EntryHasRow'
    BY <2>1, <2>3 DEF LoadInv, UntilSweep, EntryHasRow
  <2> QED BY <2>1, <2>2, <2>4 DEF FirstLoad, UntilSweep
<1>5. CASE SweepDue
  <2>1. swept /\ swept' = swept
    BY <1>5 DEF SweepDue, BootInv
  <2>2. loader'.phase # "select"
    BY <1>5 DEF SweepDue, IdleLoader, LoaderAt
  <2> QED BY <2>1, <2>2 DEF FirstLoad, UntilSweep
<1> QED BY <1>1, <1>2, <1>3, <1>4, <1>5 DEF Load, SelectFails

\* So does the rest of what happens outside the lanes.
LEMMA LoadStays ==
    ASSUME TypeOK, LaneInv, StepInv, QueueInv, BootInv, LoadInv, "select" \notin Faults, [Next]_vars
    PROVE  LoadInv'
<1>1. CASE \E k \in Conv : Lane(k)
  BY <1>1, LaneLoad
<1>2. CASE Outside
  <2>1. TodoLoaded'
    <3>1. UNCHANGED <<pc, todo>>
      BY <1>2 DEF Outside, RequestConversationDeletion, RequestTurnDeletion, RequestDeletion,
         RequestUndo, RequestFork, UndoWindowEnds, TimerFires, Send, BeginSend,
         PassPendingCheck, SendCaptures, ValidateScope, SendEnters, SendLeaves, SweepExpired,
         Load, EnsureFenceLoaded, StartupSweep, SelectIntents, MarkUnreadable, SelectFails,
         SweepDue, lanes, vars
    <3>2. \A k \in Conv : \A i \in todo[k] : i \in Id
      BY DEF TypeOK, LaneTypeOK
    <3> QED BY <1>2, <3>1, <3>2, LoadedEntries DEF LoadInv, TodoLoaded
  <2>2. CASE ~Load
    <3>1. UNCHANGED process /\ entry' = entry /\ row' = row
      BY <1>2, <2>2, OutsideProcess, OutsideRows DEF Outside, RequestConversationDeletion,
         RequestTurnDeletion, RequestDeletion, RequestUndo, RequestFork, UndoWindowEnds,
         TimerFires, Send, BeginSend, PassPendingCheck, SendCaptures, ValidateScope, SendEnters,
         SendLeaves, SweepExpired, memory, vars
    <3>2. ~ui /\ loader.phase = "select" => lane' = lane
      BY <1>2, <2>2, BeforePanels DEF LoadInv, FirstLoad
    <3>3. FirstLoad'
      BY <3>1, <3>2 DEF process, LoadInv, FirstLoad, Waiting
    <3>4. UntilSweep'
      BY <3>1 DEF process, LoadInv, UntilSweep, EntryHasRow
    <3> QED BY <2>1, <3>3, <3>4 DEF LoadInv
  <2> QED BY <2>1, <2>2, LoadLoads DEF LoadInv
<1>3. CASE Crash
  <2>1. \A k \in Conv : Waiting(k)' = {} /\ todo'[k] = {}
    BY <1>3, InitCrashWaits DEF Crash, NoTodo
  <2>2. \A i \in Id : entry'[i] = "none" /\ loader'.snapshot[i] = "none"
    BY <1>3 DEF Crash, NoRows, BootLoader, LoaderAt
  <2> QED BY <2>1, <2>2 DEF LoadInv, FirstLoad, UntilSweep, EntryHasRow, TodoLoaded
<1> QED BY <1>1, <1>2, <1>3, NextCases

\* What has a next attempt keeps it, or it begins: a timer fires into the lane.
LEMMA OutsideHeart ==
    ASSUME TypeOK, LaneInv, Outside, NEW i \in Used, entry[i] # "none", Hearted(i)
    PROVE  Hearted(i)'
<1>1. i \in Id /\ Key(i) \in Conv /\ Key(i)' = Key(i)
  BY KeyOfUsed, OutsideTargets DEF Used, Key
<1>2. Waiting(Key(i)) \subseteq Waiting(Key(i))'
  <2>1. \A j \in Conv : j = Key(i) => Waiting(j) \subseteq Waiting(j)'
    BY OutsideWaits
  <2> QED BY <1>1, <2>1 DEF Waiting
<1>3. CASE \E o \in Waiting(Key(i)) : o.op \in Attempts /\ o.id = i
  BY <1>2, <1>3 DEF Hearted
<1>4. CASE timer[i] # "off" /\ TimerFires(i)
  <2>1. FinalizeOp(i).op \in Attempts /\ FinalizeOp(i).id = i /\ FinalizeOp(i) \in Op
    BY <1>1 DEF FinalizeOp, Attempts, Op
  <2>2. CASE Scheduled(i)
    BY <1>3, <2>1, <2>2 DEF Scheduled
  <2>3. CASE ~Scheduled(i)
    <3>1. Enqueue(Key(i), FinalizeOp(i))
      BY <1>4, <2>3 DEF TimerFires
    <3>2. \A j \in Conv : j = Key(i) => FinalizeOp(i) \in Waiting(j)'
      BY <2>1, <3>1, EnqueueLanes
    <3>3. FinalizeOp(i) \in Waiting(Key(i))'
      BY <1>1, <3>2 DEF Waiting
    <3> QED BY <2>1, <3>3 DEF Hearted
  <2> QED BY <2>2, <2>3
<1>5. CASE timer[i] # "off" /\ ~TimerFires(i)
  <2>1. timer'[i] # "off"
    <3>1. CASE Load
      BY <1>1, <1>5, <3>1 DEF Load, EnsureFenceLoaded, StartupSweep, SelectIntents,
         MarkUnreadable, SelectFails, SweepDue, LoadRows, memory
    <3>2. CASE \E j \in Id : TimerFires(j)
      BY <1>1, <1>5, <3>2 DEF TimerFires, Arm, TypeOK, MemoryTypeOK
    <3>3. CASE ~Load /\ ~\E j \in Id : TimerFires(j)
      <4>1. timer' = timer
        BY <3>3 DEF Outside, RequestConversationDeletion, RequestTurnDeletion,
           RequestDeletion, RequestUndo, RequestFork, UndoWindowEnds, Send, BeginSend,
           PassPendingCheck, SendCaptures, ValidateScope, SendEnters, SendLeaves,
           SweepExpired, memory, vars
      <4> QED BY <1>5, <4>1
    <3> QED BY <3>1, <3>2, <3>3
  <2> QED BY <2>1 DEF Hearted
<1> QED BY <1>3, <1>4, <1>5 DEF Hearted

\* The sweep finalizes whatever it found due.
LEMMA SweepHearts ==
    ASSUME TypeOK, LaneInv, SweepDue, NEW i \in Used, entry[i] # "none", i \in loader.due
    PROVE  Hearted(i)'
<1> DEFINE S == {j \in loader.due : entry[j] # "none"}
<1>1. S \in SUBSET Id /\ FinalizeAll(S) /\ i \in S
  BY DEF SweepDue, TypeOK, ProcessTypeOK, LoaderRecord
<1>2. Key(i) \in Conv /\ Key(i)' = Key(i)
  BY KeyOfUsed DEF SweepDue, durable, Key
<1>3. \A j \in Conv : Key(i) = j => FinalizeOp(i) \in Waiting(j)'
  BY <1>1, FinalizeAllShape
<1>4. FinalizeOp(i) \in Waiting(Key(i))'
  BY <1>2, <1>3 DEF Waiting
<1>5. FinalizeOp(i).op \in Attempts /\ FinalizeOp(i).id = i
  BY DEF FinalizeOp, Attempts
<1> QED BY <1>4, <1>5 DEF Hearted

\* What the sweep's load has brought in has a timer, or is due.
LEMMA LoadHearts ==
    ASSUME TypeOK, LaneInv, BootInv, LoadInv, SweptInv, swept, SelectIntents \/ MarkUnreadable,
           NEW i \in Used, entry'[i] # "none"
    PROVE  loader'.phase \in {"unreadable", "sweeping"} /\ (Hearted(i)' \/ Coming(i)')
<1>1. i \in Id /\ Outside /\ loader.sweep
  BY DEF Used, Outside, Load, SelectIntents, MarkUnreadable, BootInv, Loading
<1>2. CASE SelectIntents
  <2>1. row[i] # "none"
    <3>1. entry'[i] = entry[i] \/ entry'[i] = row[i]
      BY <1>1, <1>2, SelectShape
    <3> QED BY <1>1, <1>2, <3>1, SelectShape DEF LoadInv, UntilSweep, EntryHasRow
  <2>2. \/ loader'.phase = "unreadable" /\ loader'.snapshot[i] # "none"
        \/ timer'[i] = "expiry"
        \/ loader'.phase \in {"unreadable", "sweeping"} /\ i \in loader'.due
    BY <1>1, <1>2, <2>1, SelectShape
  <2>3. loader'.phase \in {"unreadable", "sweeping"}
    BY <1>1, <1>2, SelectShape
  <2> QED BY <2>2, <2>3 DEF Hearted, Coming
<1>3. CASE MarkUnreadable
  <2>1. loader'.phase = "sweeping" /\ loader.due \subseteq loader'.due
    BY <1>1, <1>3, UnreadableShape
  <2>2. CASE loader.snapshot[i] # "none"
    <3>1. timer'[i] = "expiry" \/ i \in loader'.due
      BY <1>1, <1>3, <2>2, UnreadableShape
    <3> QED BY <2>1, <3>1 DEF Hearted, Coming
  <2>3. CASE loader.snapshot[i] = "none"
    <3>1. entry[i] # "none" /\ loader.phase = "unreadable"
      BY <1>1, <1>3, <2>3, UnreadableShape
    <3>2. Hearted(i) \/ i \in loader.due
      BY <2>3, <3>1 DEF SweptInv, Coming
    <3>3. Hearted(i) => Hearted(i)'
      BY <1>1, <3>1, OutsideHeart
    <3> QED BY <2>1, <3>2, <3>3 DEF Coming
  <2> QED BY <2>2, <2>3
<1> QED BY <1>2, <1>3

\* From the sweep on, every step leaves every loaded intent a next attempt.
LEMMA SweptStays ==
    ASSUME TypeOK, LaneInv, StepInv, QueueInv, BootInv, LoadInv, SweptInv,
           "select" \notin Faults, [Next]_vars
    PROVE  SweptInv'
<1> SUFFICES ASSUME swept', loader'.phase # "select", NEW i \in Used', entry'[i] # "none"
             PROVE  Hearted(i)' \/ Coming(i)'
  BY DEF SweptInv
<1>1. CASE \E k \in Conv : Lane(k)
  <2>1. PICK k \in Conv : Lane(k)
    BY <1>1
  <2>2. UNCHANGED process /\ Used' = Used
    BY <2>1, LaneTimers, LaneTargets DEF Used
  <2>3. CASE entry[i] = "none"
    BY <2>1, <2>2, <2>3, LaneHeart
  <2>4. CASE entry[i] # "none"
    <3>1. Hearted(i) \/ Coming(i)
      BY <2>2, <2>4 DEF process, SweptInv
    <3>2. Coming(i) => Coming(i)'
      BY <2>2 DEF process, Coming
    <3> QED BY <2>1, <2>2, <3>1, <3>2, LaneHeart
  <2> QED BY <2>3, <2>4
<1>2. CASE Outside /\ ~Load
  <2>1. UNCHANGED process /\ entry' = entry
    BY <1>2, OutsideProcess DEF Outside, RequestConversationDeletion, RequestTurnDeletion,
       RequestDeletion, RequestUndo, RequestFork, UndoWindowEnds, TimerFires, Send, BeginSend,
       PassPendingCheck, SendCaptures, ValidateScope, SendEnters, SendLeaves, SweepExpired,
       memory, vars
  <2>2. i \in Used /\ entry[i] # "none"
    BY <2>1 DEF LaneInv, OnlyUsed, Used
  <2>3. Hearted(i) \/ Coming(i)
    BY <2>1, <2>2 DEF process, SweptInv
  <2>4. Coming(i) => Coming(i)'
    BY <2>1 DEF process, Coming
  <2> QED BY <1>2, <2>2, <2>3, <2>4, OutsideHeart
<1>3. CASE Load
  <2>1. Used' = Used
    BY <1>3 DEF Load, EnsureFenceLoaded, StartupSweep, SelectIntents, MarkUnreadable,
       SelectFails, SweepDue, durable, Used
  <2>2. CASE SelectIntents \/ MarkUnreadable
    <3>1. swept
      BY <2>2, SelectShape, UnreadableShape
    <3> QED BY <2>1, <2>2, <3>1, LoadHearts
  <2>3. CASE SweepDue
    <3>1. swept' = swept /\ entry' = entry /\ loader.phase = "sweeping"
      BY <2>3 DEF SweepDue, memory
    <3>2. Hearted(i) \/ i \in loader.due
      BY <2>1, <3>1 DEF SweptInv, Coming
    <3> QED BY <1>3, <2>1, <2>3, <3>1, <3>2, OutsideHeart, SweepHearts DEF Outside
  <2>4. CASE EnsureFenceLoaded \/ StartupSweep
    <3>1. loader'.phase = "select"
      <4>1. loader' = LoaderAt("select", FALSE, {}) \/ loader' = LoaderAt("select", TRUE, {})
        BY <2>4 DEF EnsureFenceLoaded, StartupSweep, StartLoad
      <4> QED BY <4>1 DEF LoaderAt
    <3> QED BY <3>1
  <2> QED BY <1>3, <2>2, <2>3, <2>4 DEF Load, SelectFails
<1>4. CASE Crash
  BY <1>4 DEF Crash
<1> QED BY <1>1, <1>2, <1>3, <1>4, NextCases

\* At the start nothing is loaded and nothing waits.
LEMMA InitHeart == Init => HeartInv
<1> SUFFICES ASSUME Init PROVE HeartInv
  OBVIOUS
<1>1. BootInv /\ SweptInv
  BY DEF Init, BootInv, Loading, SweptInv, BootLoader, LoaderAt
<1>2. /\ \A k \in Conv : Waiting(k) = {} /\ todo[k] = {}
      /\ \A i \in Id : entry[i] = "none" /\ loader.snapshot[i] = "none"
  BY InitCrashWaits DEF Init, NoTodo, NoRows, BootLoader, LoaderAt
<1> QED BY <1>1, <1>2 DEF HeartInv, LoadInv, FirstLoad, UntilSweep, EntryHasRow, TodoLoaded

\* From the end of the startup sweep on, an intent in the store always has its
\* next attempt ahead of it, where the intents can be read back: nothing that
\* fails afterwards, no row that cannot be decoded and no order of the steps
\* strands a deletion.
THEOREM NoneStranded == "select" \notin Faults => (Spec => []Heartbeat)
<1> SUFFICES ASSUME "select" \notin Faults PROVE Spec => []Heartbeat
  OBVIOUS
<1>1. TypeOK /\ LaneInv /\ StepInv /\ QueueInv /\ HeartInv /\ [Next]_vars => HeartInv'
  BY BootStays, LoadStays, SweptStays DEF HeartInv
<1>2. TypeOK /\ HeartInv => Heartbeat
  <2> SUFFICES ASSUME TypeOK, SweptInv, swept, loader.phase = "idle", NEW i \in Used,
                      entry[i] # "none", timer[i] = "off"
               PROVE  \E o \in Waiting(Key(i)) : o # TurnsOp /\ o.id = i
    BY DEF HeartInv, Heartbeat
  <2>1. PICK o \in Waiting(Key(i)) : o.op \in Attempts /\ o.id = i
    BY DEF SweptInv, Hearted, Coming
  <2> QED BY <2>1, TurnsOpName DEF Attempts
<1> QED BY <1>1, <1>2, InitHeart, QueueCorrect, TypeCorrect, StepsCorrect, PTL DEF Spec
===============================================================================
