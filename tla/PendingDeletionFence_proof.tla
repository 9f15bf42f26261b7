---------------------- MODULE PendingDeletionFence_proof ----------------------
(***************************************************************************)
(* The write fence of PendingDeletion and the requests that meet it: a     *)
(* fence is given back when nothing is pending, nobody writes into what is *)
(* deleted or being deleted, and, where every intent can be recorded, no   *)
(* request writes across a decision.                                       *)
(***************************************************************************)
EXTENDS PendingDeletionSafety_proof

\* An intent that is loaded is one of its conversation's entries.
LEMMA EntryOfKey ==
    ASSUME TypeOK, LaneInv
    PROVE  /\ \A i \in Id : entry[i] # "none" => i \in Used
           /\ \A i \in Used : entry[i] # "none" => i \in EntriesOf(Key(i))
           /\ \A k : \A i \in EntriesOf(k) : i \in Used /\ i \in Id /\ entry[i] # "none" /\ Key(i) = k
<1>1. \A i \in Used : IsConv(i) \/ IsTurn(i)
  BY KeyOfUsed DEF IsConv, IsTurn, Target
<1> QED BY <1>1 DEF LaneInv, OnlyUsed, EntriesOf, ConvEntries, TurnEntries, Used

-------------------------------------------------------------------------------
USE DEF Lane, Finalize, StartQueue, InsertIntent, InsertFails, StartUndo, UndoDone, UndoFails,
    StartTurns, StartFinalize, MarkConversation, MarkTurn, MarkTurnFails, VerifyFresh,
    VerifyStale, VerifyFails, Quarantine, DeleteConversation, DeleteConversationFails,
    CleanUpConversation, CleanUpFails, PurgeTurn, PurgeFails, PurgeDone, ScrubManifest,
    ScrubFails, DeleteTurn, DeleteTurnFails, CleanUpTurn, CleanUpTurnFails,
    MarkCleanUpPending, Withdraw, WithdrawFails, FinalizeFails

\* The fence of k is thawed with a new generation, and only when k is gone or
\* nothing of it is left; or by a deletion that could not be recorded.
LEMMA LaneThaws ==
    ASSUME TypeOK, LaneInv, StepInv, NEW k \in Conv, Lane(k)
    PROVE  \/ frozen' = frozen /\ writer' \in {writer, Bump(k)}
           \/ /\ frozen' = frozen \ {k} /\ writer' = Bump(k)
              /\ \/ k \notin alive
                 \/ /\ ~HasQueueIntent(Waiting(k))'
                    /\ \A i \in EntriesOf(k) : entry'[i] = "none"
           \/ /\ frozen' = frozen \ {k} /\ writer' = writer /\ "insert" \in Faults
              /\ ~Deleting(k)' /\ entry' = entry
<1>1. CASE VerifyStale(k)
  BY <1>1 DEF VerifyStale
<1>2. /\ EndOp(k) => Waiting(k)' = Rest(k)
      /\ UNCHANGED <<target, nextId>>
      /\ HasConvQueueIntent(Rest(k)) => HasQueueIntent(Rest(k))
      /\ ConvEntries(k) \subseteq EntriesOf(k)
  BY LaneHead, EndOpLanes, LaneTargets DEF LaneInv, HasConvQueueIntent, HasQueueIntent, EntriesOf
<1>3. CASE StartQueue(k)
  <2>1. CASE frozen' = frozen
    BY <1>3, <2>1 DEF StartQueue
  <2>2. CASE frozen' # frozen
    <3>1. PICK i \in EntriesOf(k) : target[i] = target[Head1(k).id]
      BY <1>3, <2>2 DEF StartQueue
    <3>2. IsConv(Head1(k).id) => i \in ConvEntries(k)
      BY <3>1, TargetAssumption DEF EntriesOf, ConvEntries, TurnEntries, IsConv, IsTurn
    <3>3. AbandonQueue(k)
      BY <1>3, <2>2 DEF StartQueue
    <3> QED BY <2>2, <3>1, <3>2, <3>3 DEF AbandonQueue
  <2> QED BY <2>1, <2>2
<1>4. CASE InsertFails(k)
  <2>1. CASE frozen' = frozen
    BY <1>4, <2>1 DEF InsertFails
  <2>2. CASE frozen' # frozen
    <3>1. EndOp(k) /\ AbandonQueue(k) /\ entry' = entry /\ writer' = writer /\ "insert" \in Faults
      BY <1>4, <2>2 DEF InsertFails, memory
    <3>2. frozen' = frozen \ {k} /\ ~HasConvQueueIntent(Rest(k)) /\ ConvEntries(k) = {}
      BY <1>2, <2>2, <3>1 DEF AbandonQueue
    <3>3. ConvEntries(k)' = ConvEntries(k) /\ HasConvQueueIntent(Waiting(k))' = HasConvQueueIntent(Rest(k))
      BY <1>2, <3>1, SameTargets DEF ConvEntries, HasConvQueueIntent, IsConv
    <3> QED BY <3>1, <3>2, <3>3 DEF Deleting
  <2> QED BY <2>1, <2>2
<1>5. CASE UndoDone(k) \/ Withdraw(k)
  <2>1. CASE frozen' = frozen
    BY <1>5, <2>1 DEF UndoDone, Withdraw
  <2>2. CASE frozen' # frozen
    <3>1. /\ EndOp(k) /\ RemoveEntry(HeadId(k)) /\ frozen' = frozen \ {k} /\ writer' = Bump(k)
          /\ ~HasQueueIntent(Rest(k)) /\ EntriesOf(k) \ {HeadId(k)} = {}
      BY <1>5, <2>2 DEF UndoDone, Withdraw, HeadId
    <3>2. \A i \in EntriesOf(k) : i = HeadId(k) /\ i \in Id
      BY <3>1, EntryOfKey
    <3>3. \A i \in EntriesOf(k) : entry'[i] = "none"
      BY <3>1, <3>2 DEF RemoveEntry, TypeOK, MemoryTypeOK
    <3>4. ~HasQueueIntent(Waiting(k))'
      BY <1>2, <3>1 DEF HasQueueIntent
    <3> QED BY <3>1, <3>3, <3>4
  <2> QED BY <2>1, <2>2
<1>6. CASE UNCHANGED fence
  BY <1>6 DEF fence
<1> QED BY <1>1, <1>3, <1>4, <1>5, <1>6

\* Rows of conversations go in one step of a lane, inside the write lock, and
\* then the fence does not move.
LEMMA LaneDeletes ==
    ASSUME TypeOK, LaneInv, StepInv, NEW k \in Conv, Lane(k), NEW j \in Conv, j \in alive, j \notin alive'
    PROVE  /\ j = k /\ DeleteConversation(k) /\ NoWriterInside(k) /\ UNCHANGED fence
           /\ pc[k] = "delete" /\ target[HeadId(k)] = k /\ HeadId(k) \in Used
           /\ entry[HeadId(k)] # "none" /\ IsConv(HeadId(k))
<1>1. ~StartTurns(k)
  BY DEF StartTurns, durable
<1>2. HeadId(k) \in Used /\ Key(HeadId(k)) = k /\ PhaseOf(k)
  BY <1>1, LaneHead, HeadOfKey DEF StepInv, PhaseOfOp, LaneInv
<1>3. CASE DeleteConversation(k)
  <2>1. j = k
    BY <1>3, TargetAssumption DEF DeleteConversation, RowsOf
  <2>2. pc[k] = "delete"
    BY <1>3 DEF DeleteConversation, Running
  <2>3. IsConv(HeadId(k)) /\ entry[HeadId(k)] # "none"
    BY <1>2, <2>2 DEF PhaseOf, ConversationPhase
  <2> QED BY <1>2, <1>3, <2>1, <2>2, <2>3 DEF DeleteConversation, LockFree, Key, KeyOf, IsConv
<1>4. CASE DeleteTurn(k)
  <2>1. target[HeadId(k)] \in Turn
    BY <1>2, <1>4 DEF PhaseOf, TurnPhase, IsTurn, DeleteTurn, Running
  <2> QED BY <1>4, <2>1, TargetAssumption DEF DeleteTurn, HeadId
<1> QED BY <1>3, <1>4 DEF durable

HIDE DEF Lane, Finalize, StartQueue, InsertIntent, InsertFails, StartUndo, UndoDone, UndoFails,
    StartTurns, StartFinalize, MarkConversation, MarkTurn, MarkTurnFails, VerifyFresh,
    VerifyStale, VerifyFails, Quarantine, DeleteConversation, DeleteConversationFails,
    CleanUpConversation, CleanUpFails, PurgeTurn, PurgeFails, PurgeDone, ScrubManifest,
    ScrubFails, DeleteTurn, DeleteTurnFails, CleanUpTurn, CleanUpTurnFails,
    MarkCleanUpPending, Withdraw, WithdrawFails, FinalizeFails

-------------------------------------------------------------------------------
\* Steps from outside take no operation out of a lane.
LEMMA OutsideWaits ==
    ASSUME TypeOK, LaneInv, Outside
    PROVE  \A j \in Conv : Waiting(j) \subseteq Waiting(j)'
<1>1. CASE UNCHANGED lane
  BY <1>1 DEF Waiting
<1>2. CASE \E k : \E o \in Op : Enqueue(k, o)
  <2>1. PICK k : \E o \in Op : Enqueue(k, o)
    BY <1>2
  <2>2. PICK o \in Op : Enqueue(k, o)
    BY <2>1
  <2>3. CASE k \in Conv
    BY <2>2, <2>3, EnqueueLanes
  <2>4. CASE k \notin Conv
    BY <1>1, <2>2, <2>4 DEF Enqueue, TypeOK, LaneTypeOK
  <2> QED BY <2>3, <2>4
<1>3. CASE \E S \in SUBSET Id : FinalizeAll(S)
  BY <1>3, FinalizeAllLanes
<1>4. \A i \in Id : UndoOp(i) \in Op /\ FinalizeOp(i) \in Op /\ QueueOp(i) \in Op
  BY DEF UndoOp, FinalizeOp, QueueOp, Op
<1>5. CASE \E x \in Target : RequestDeletion(x)
  <2>1. nextId + 1 \in Id
    BY <1>5, BoundAssumption DEF RequestDeletion, TypeOK, DurableTypeOK, Id
  <2> QED BY <1>2, <1>4, <1>5, <2>1 DEF RequestDeletion
<1>6. CASE \/ \E k \in Conv : RequestConversationDeletion(k)
           \/ \E x \in Turn : RequestTurnDeletion(x)
  BY <1>5, <1>6 DEF RequestConversationDeletion, RequestTurnDeletion, Target
<1>7. CASE \E i \in Id : RequestUndo(i) \/ RequestFork(i) \/ UndoWindowEnds(i) \/ TimerFires(i)
  BY <1>1, <1>2, <1>4, <1>7 DEF RequestUndo, RequestFork, UndoWindowEnds, TimerFires, lanes
<1>8. CASE \E w \in Writer : Send(w)
  <2>1. TurnsOp \in Op
    BY DEF Op
  <2> QED BY <1>1, <1>2, <1>8, <2>1 DEF Send, BeginSend, PassPendingCheck, SendCaptures,
         ValidateScope, SendEnters, SendLeaves, lanes
<1>9. CASE SweepExpired \/ Load \/ UNCHANGED vars
  BY <1>1, <1>3, <1>9 DEF SweepExpired, Load, EnsureFenceLoaded, StartupSweep,
     SelectIntents, MarkUnreadable, SelectFails, SweepDue, lanes, vars, Used, TypeOK,
     ProcessTypeOK, LoaderRecord
<1> QED BY <1>6, <1>7, <1>8, <1>9 DEF Outside

\* What they freeze has a deletion that waits or is loaded.
LEMMA OutsideFreezes ==
    ASSUME TypeOK, LaneInv, Outside
    PROVE  /\ frozen \subseteq frozen'
           /\ \A j \in Conv : j \in frozen' \ frozen =>
                 EntriesOf(j)' # {} \/ HasQueueIntent(Waiting(j))'
<1>1. CASE \E x \in Target : RequestDeletion(x)
  <2>1. PICK x \in Target : RequestDeletion(x)
    BY <1>1
  <2>2. nextId + 1 \in Id /\ KeyOf(x) \in Conv
    BY <2>1, KeyOfTarget, BoundAssumption DEF RequestDeletion, TypeOK, DurableTypeOK, Id
  <2>3. QueueOp(nextId + 1) \in Op /\ Enqueue(KeyOf(x), QueueOp(nextId + 1))
        /\ frozen' = frozen \cup {KeyOf(x)}
    BY <2>1, <2>2 DEF RequestDeletion, QueueOp, Op
  <2>4. QueueOp(nextId + 1) \in Waiting(KeyOf(x))'
    BY <2>2, <2>3, EnqueueLanes
  <2> QED BY <2>3, <2>4 DEF HasQueueIntent, QueueOp
<1>2. CASE \/ \E k \in Conv : RequestConversationDeletion(k)
           \/ \E x \in Turn : RequestTurnDeletion(x)
  BY <1>1, <1>2 DEF RequestConversationDeletion, RequestTurnDeletion, Target
<1>3. CASE \E S \in SUBSET Id, snapshot \in [Id -> IntentState] :
              /\ LoadRows(S, snapshot) /\ \A i \in S : snapshot[i] # "none" /\ i \in Used
              /\ UNCHANGED <<target, nextId>>
  <2>1. PICK S \in SUBSET Id, snapshot \in [Id -> IntentState] :
              /\ LoadRows(S, snapshot) /\ \A i \in S : snapshot[i] # "none" /\ i \in Used
              /\ UNCHANGED <<target, nextId>>
    BY <1>3
  <2>2. \A i \in S : entry[i] = "none" => entry'[i] # "none"
    BY <2>1 DEF LoadRows
  <2>3. ASSUME NEW i \in S, entry[i] = "none"
        PROVE  \A j : j = Key(i) => EntriesOf(j)' # {}
    <3>1. IsConv(i) \/ IsTurn(i)
      BY <2>1, KeyOfUsed DEF IsConv, IsTurn, Target
    <3>2. i \in Used' /\ Key(i)' = Key(i) /\ IsConv(i)' = IsConv(i) /\ IsTurn(i)' = IsTurn(i)
      BY <2>1, SameTargets
    <3>3. \A j : j = Key(i) => i \in EntriesOf(j)'
      BY <2>2, <2>3, <3>1, <3>2 DEF EntriesOf, ConvEntries, TurnEntries
    <3> QED BY <3>3
  <2>4. frozen' = frozen \cup {Key(i) : i \in {m \in S : entry[m] = "none"}}
    BY <2>1 DEF LoadRows
  <2> QED BY <2>3, <2>4
<1>4. CASE SelectIntents
  <2>1. PICK S \in SUBSET {i \in Id : row[i] # "none"} : LoadRows(S, row)
    BY <1>4 DEF SelectIntents
  <2>2. \A i \in S : i \in Id /\ i \in Used /\ row[i] # "none"
    BY <2>1 DEF LaneInv, OnlyUsed
  <2> QED BY <1>3, <1>4, <2>1, <2>2 DEF SelectIntents, durable, TypeOK, DurableTypeOK
<1>5. CASE MarkUnreadable
  <2> DEFINE S == {i \in Id : loader.snapshot[i] # "none"}
  <2>1. LoadRows(S, loader.snapshot) /\ \A i \in S : i \in Used
    BY <1>5 DEF MarkUnreadable, LaneInv, OnlyUsed
  <2> QED BY <1>3, <1>5, <2>1 DEF MarkUnreadable, durable, TypeOK, ProcessTypeOK, LoaderRecord
<1>6. CASE frozen' = frozen
  BY <1>6
<1> QED BY <1>2, <1>4, <1>5, <1>6 DEF Outside, RequestUndo, RequestFork, UndoWindowEnds,
       TimerFires, Send, BeginSend, PassPendingCheck, SendCaptures, ValidateScope,
       SendEnters, SendLeaves, CaptureGeneration, EnterWrite, LeaveWrite, SweepExpired,
       Load, EnsureFenceLoaded, StartupSweep, SelectFails, SweepDue, fence, vars

-------------------------------------------------------------------------------
USE DEF Lane, Finalize, StartQueue, InsertIntent, InsertFails, StartUndo, UndoDone, UndoFails,
    StartTurns, StartFinalize, MarkConversation, MarkTurn, MarkTurnFails, VerifyFresh,
    VerifyStale, VerifyFails, Quarantine, DeleteConversation, DeleteConversationFails,
    CleanUpConversation, CleanUpFails, PurgeTurn, PurgeFails, PurgeDone, ScrubManifest,
    ScrubFails, DeleteTurn, DeleteTurnFails, CleanUpTurn, CleanUpTurnFails,
    MarkCleanUpPending, Withdraw, WithdrawFails, FinalizeFails

\* Behind the head of a lane everything waits on.
LEMMA LaneKeepsRest ==
    ASSUME TypeOK, LaneInv, NEW k \in Conv, Lane(k)
    PROVE  /\ \A j \in Conv \ {k} : Waiting(j)' = Waiting(j)
           /\ Rest(k) \subseteq Waiting(k)'
           /\ \A o \in Waiting(k) : o = Head1(k) \/ o \in Rest(k)
<1> HIDE DEF StartTurns
<1>1. \A j \in Conv \ {k} : Waiting(j)' = Waiting(j)
  BY OtherLanes, ZenonT(60) DEF Waiting
<1>2. lane[k] # <<>> /\ (EndOp(k) => Waiting(k)' = Rest(k)) /\ Rest(k) \subseteq Waiting(k)
  BY LaneHead, EndOpLanes DEF LaneInv, Rest, Waiting
<1>3. Rest(k) \subseteq Waiting(k)'
  <2>1. CASE StartTurns(k)
    BY <2>1, StartTurnsLanes
  <2>2. CASE ~StartTurns(k)
    BY <1>2, <2>2 DEF GoTo, Waiting
  <2> QED BY <2>1, <2>2
<1> QED BY <1>1, <1>3 DEF Waiting, Rest, Head1

\* While the head of a lane is not a deletion waiting to be recorded, no such
\* deletion leaves the lane; and entries leave in three steps only.
LEMMA LaneKeeps ==
    ASSUME TypeOK, LaneInv, StepInv, NEW k \in Conv, Lane(k)
    PROVE  /\ HasQueueIntent(Waiting(k)) /\ ~StartQueue(k) /\ ~InsertIntent(k) /\ ~InsertFails(k)
                 => HasQueueIntent(Waiting(k))'
           /\ ~UndoDone(k) /\ ~Withdraw(k) /\ ~PurgeTurn(k) =>
                 \A i \in Id : entry[i] # "none" => entry'[i] # "none"
<1> HIDE DEF StartTurns
<1>1. lane[k] # <<>> /\ (~StartTurns(k) => PhaseOf(k) /\ HeadId(k) \in Id)
  BY LaneHead DEF StepInv, PhaseOfOp, LaneInv
<1>2. ASSUME HasQueueIntent(Waiting(k)), ~StartQueue(k), ~InsertIntent(k), ~InsertFails(k)
      PROVE  HasQueueIntent(Waiting(k))'
  <2>1. lane' = lane \/ Head1(k).op # "queue"
    <3>1. CASE StartTurns(k)
      BY <3>1, TurnsOpName DEF StartTurns
    <3>2. CASE ~StartTurns(k)
      BY <1>1, <1>2, <3>2 DEF GoTo, PhaseOf, Running, FinalizePhase, ConversationPhase, TurnPhase
    <3> QED BY <3>1, <3>2
  <2> QED BY <1>2, <2>1, LaneKeepsRest DEF HasQueueIntent, Waiting
<1>3. ASSUME ~UndoDone(k), ~Withdraw(k), ~PurgeTurn(k)
      PROVE  \A i \in Id : entry[i] # "none" => entry'[i] # "none"
  <2>1. CASE StartTurns(k)
    BY <2>1 DEF StartTurns, memory
  <2>2. CASE ~StartTurns(k)
    BY <1>1, <1>3, <2>2, ZenonT(60) DEF memory, TypeOK, MemoryTypeOK, HeadId
  <2> QED BY <2>1, <2>2
<1> HIDE DEF StartQueue, InsertIntent, InsertFails, UndoDone, Withdraw, PurgeTurn
<1> QED BY <1>2, <1>3

\* A step of lane k that leaves k frozen and existing leaves something pending.
LEMMA LaneLeak ==
    ASSUME TypeOK, LaneInv, StepInv, NoFrozenLeak, NEW k \in Conv, Lane(k)
    PROVE  NoFrozenLeak'
<1>1. /\ frozen' \subseteq frozen /\ alive' \subseteq alive /\ UNCHANGED <<target, nextId>>
      /\ Used' = Used
      /\ \A i : Key(i)' = Key(i) /\ IsTurn(i)' = IsTurn(i) /\ IsConv(i)' = IsConv(i)
  BY LaneThaws, LaneTargets, SameTargets
<1>2. ASSUME NEW j \in Conv \ {k}, EntriesOf(j) # {} \/ HasQueueIntent(Waiting(j))
      PROVE  EntriesOf(j)' # {} \/ HasQueueIntent(Waiting(j))'
  <2>1. HasQueueIntent(Waiting(j)) => HasQueueIntent(Waiting(j))'
    BY LaneKeepsRest DEF HasQueueIntent
  <2>2. \A i \in EntriesOf(j) : i \in EntriesOf(j)'
    BY <1>1, OtherEntries DEF EntriesOf, ConvEntries, TurnEntries, Used
  <2> QED BY <1>2, <2>1, <2>2
<1>3. ASSUME NEW i \in EntriesOf(k), entry'[i] # "none" PROVE EntriesOf(k)' # {}
  BY <1>1, <1>3 DEF EntriesOf, ConvEntries, TurnEntries
<1>4. ASSUME k \in frozen', k \in alive'
      PROVE  EntriesOf(k)' # {} \/ HasQueueIntent(Waiting(k))'
  <2>1. EntriesOf(k) # {} \/ HasQueueIntent(Waiting(k))
    BY <1>1, <1>4 DEF NoFrozenLeak
  <2>2. ~StartTurns(k) => /\ HeadId(k) \in Used /\ HeadId(k) \in Id /\ Key(HeadId(k)) = k
                          /\ PhaseOf(k) /\ GoneBy(k)
    BY LaneHead, HeadOfKey DEF StepInv, PhaseOfOp, GoneByThen, LaneInv
  <2>3. EndOp(k) => Waiting(k)' = Rest(k)
    BY LaneHead, EndOpLanes DEF LaneInv
  <2>4. CASE StartQueue(k)
    <3>1. CASE EntriesOf(k) # {}
      BY <1>3, <2>4, <3>1, EntryOfKey DEF StartQueue, memory
    <3>2. CASE EntriesOf(k) = {}
      BY <2>1, <2>4, <3>2 DEF StartQueue, GoTo, HasQueueIntent, Waiting
    <3> QED BY <3>1, <3>2
  <2>5. CASE InsertIntent(k)
    <3>1. entry'[HeadId(k)] # "none"
      BY <2>2, <2>5 DEF InsertIntent, HeadId, TypeOK, MemoryTypeOK, StartTurns, Running
    <3>2. HeadId(k) \in EntriesOf(k)'
      <4>1. HeadId(k) \in Used /\ Key(HeadId(k)) = k
        BY HeadOfKey, <2>5 DEF InsertIntent, Running, LaneInv, BusyHead
      <4>2. IsConv(HeadId(k)) \/ IsTurn(HeadId(k))
        BY <4>1, KeyOfUsed DEF IsConv, IsTurn, Target
      <4> QED BY <1>1, <3>1, <4>1, <4>2 DEF EntriesOf, ConvEntries, TurnEntries
    <3> QED BY <3>2
  <2>6. CASE InsertFails(k)
    <3>1. frozen' # frozen \ {k}
      BY <1>4
    <3>2. EndOp(k) /\ AbandonQueue(k) /\ entry' = entry
      BY <2>6 DEF InsertFails, memory
    <3>3. HasQueueIntent(Rest(k)) \/ EntriesOf(k) # {}
      BY <3>1, <3>2 DEF AbandonQueue, HasQueueIntent, HasConvQueueIntent, EntriesOf
    <3> QED BY <1>3, <2>3, <3>2, <3>3, EntryOfKey DEF HasQueueIntent
  <2>7. CASE UndoDone(k) \/ Withdraw(k)
    <3>1. ~StartTurns(k)
      BY <2>7 DEF StartTurns, UndoDone, Withdraw, Running, durable
    <3>2. CASE HasQueueIntent(Rest(k))
      BY <2>3, <2>7, <3>2 DEF UndoDone, Withdraw, HasQueueIntent
    <3>3. CASE EntriesOf(k) \ {HeadId(k)} # {}
      <4>1. PICK i \in EntriesOf(k) : i # HeadId(k)
        BY <3>3
      <4>2. entry[i] # "none" /\ i \in Id
        BY <4>1, EntryOfKey
      <4>3. entry'[i] = entry[i]
        BY <2>7, <4>1, <4>2 DEF UndoDone, Withdraw, RemoveEntry, HeadId, TypeOK, MemoryTypeOK
      <4> QED BY <1>3, <4>1, <4>2, <4>3
    <3>4. CASE ~HasQueueIntent(Rest(k)) /\ EntriesOf(k) \ {HeadId(k)} = {}
      <4>1. UndoDone(k) => k \notin frozen'
        BY <3>4 DEF UndoDone, HeadId
      <4>2. Withdraw(k) /\ IsTurn(HeadId(k)) => k \notin frozen'
        BY <3>4 DEF Withdraw, HeadId
      <4>3. Withdraw(k) /\ ~IsTurn(HeadId(k)) => target[HeadId(k)] = k /\ target[HeadId(k)] \notin alive
        <5>1. IsConv(HeadId(k)) \/ IsTurn(HeadId(k))
          BY <2>2, <3>1, KeyOfUsed DEF IsConv, IsTurn, Target
        <5> QED BY <2>2, <3>1, <5>1 DEF Withdraw, Running, GoneBy, IsConv, Key, KeyOf
      <4> QED BY <1>1, <1>4, <2>7, <4>1, <4>2, <4>3
    <3> QED BY <3>2, <3>3, <3>4
  <2>8. CASE PurgeTurn(k)
    <3>1. HeadId(k) \in Used /\ Key(HeadId(k)) = k /\ IsConv(HeadId(k)) /\ GoneBy(k) /\ pc[k] = "purge"
      BY <2>8, HeadOfKey DEF PurgeTurn, Running, LaneInv, BusyHead, StepInv, PhaseOfOp, PhaseOf,
         GoneByThen, ConversationPhase
    <3>2. target[HeadId(k)] = k /\ k \notin alive
      BY <3>1 DEF GoneBy, IsConv, Key, KeyOf
    <3> QED BY <1>1, <1>4, <3>2
  <2>9. CASE /\ ~StartQueue(k) /\ ~InsertIntent(k) /\ ~InsertFails(k)
             /\ ~UndoDone(k) /\ ~Withdraw(k) /\ ~PurgeTurn(k)
    <3> HIDE DEF StartQueue, InsertIntent, InsertFails, UndoDone, Withdraw, PurgeTurn
    <3> QED BY <1>3, <2>1, <2>9, LaneKeeps, EntryOfKey
  <2> QED BY <2>4, <2>5, <2>6, <2>7, <2>8, <2>9
<1> QED BY <1>1, <1>2, <1>4 DEF NoFrozenLeak, TypeOK, FenceTypeOK

HIDE DEF Lane, Finalize, StartQueue, InsertIntent, InsertFails, StartUndo, UndoDone, UndoFails,
    StartTurns, StartFinalize, MarkConversation, MarkTurn, MarkTurnFails, VerifyFresh,
    VerifyStale, VerifyFails, Quarantine, DeleteConversation, DeleteConversationFails,
    CleanUpConversation, CleanUpFails, PurgeTurn, PurgeFails, PurgeDone, ScrubManifest,
    ScrubFails, DeleteTurn, DeleteTurnFails, CleanUpTurn, CleanUpTurnFails,
    MarkCleanUpPending, Withdraw, WithdrawFails, FinalizeFails

\* Steps from outside destroy nothing and rename nothing.
LEMMA OutsideTargets ==
    ASSUME TypeOK, LaneInv, Outside
    PROVE  /\ alive' = alive /\ \A i \in Used : target'[i] = target[i] /\ i \in Used'
           /\ \A j : \A i \in EntriesOf(j) : i \in EntriesOf(j)'
           /\ \A j : \A i \in ConvEntries(j) : i \in ConvEntries(j)'
<1>1. alive' = alive /\ \A i \in Used : target'[i] = target[i]
  BY PlainSteps, RequestSteps DEF RequestConversationDeletion, RequestTurnDeletion, Target
<1>2. \A i \in Used : i \in Used'
  BY <1>1 DEF Used
<1> QED BY <1>1, <1>2, LoadedEntries DEF EntriesOf, ConvEntries, TurnEntries, IsConv, IsTurn, Key, Used

\* Steps from outside freeze only what is pending.
LEMMA OutsideLeak ==
    ASSUME TypeOK, TypeOK', LaneInv, NoFrozenLeak, Outside
    PROVE  NoFrozenLeak'
<1>1. ASSUME NEW j \in Conv, HasQueueIntent(Waiting(j))
      PROVE  HasQueueIntent(Waiting(j))'
  BY <1>1, OutsideWaits DEF HasQueueIntent
<1>2. ASSUME NEW j \in Conv, EntriesOf(j) # {}
      PROVE  EntriesOf(j)' # {}
  BY <1>2, OutsideTargets
<1>3. \A j \in alive \cap frozen' : j \in Conv /\ j \in frozen' \ frozen
           => EntriesOf(j)' # {} \/ HasQueueIntent(Waiting(j))'
  BY OutsideFreezes
<1>4. \A j \in alive \cap frozen' : j \in Conv
  BY DEF TypeOK, FenceTypeOK
<1> QED BY <1>1, <1>2, <1>3, <1>4, OutsideTargets DEF NoFrozenLeak

\* Fences are given back: an existing conversation is frozen only while a
\* deletion of it, or of a turn of it, waits or is loaded, whatever fails.
THEOREM FencesComeBack == Spec => []NoFrozenLeak
<1>1. Init => NoFrozenLeak
  BY DEF Init, NoFrozenLeak
<1>2. TypeOK /\ TypeOK' /\ LaneInv /\ StepInv /\ NoFrozenLeak /\ [Next]_vars => NoFrozenLeak'
  <2>1. Crash => NoFrozenLeak'
    BY DEF Crash, NoFrozenLeak
  <2> QED BY <2>1, NextCases, LaneLeak, OutsideLeak
<1> QED BY <1>1, <1>2, TypeCorrect, StepsCorrect, PTL DEF Spec

-------------------------------------------------------------------------------
\* Where every intent can be recorded, a step of a lane keeps the whole fence.
LEMMA LaneAnyFence ==
    ASSUME TypeOK, LaneInv, StepInv, AnyFence, "insert" \notin Faults, NEW k \in Conv, Lane(k)
    PROVE  AnyFence'
<1>1. /\ alive' \subseteq alive /\ Used' = Used /\ \A i : Key(i)' = Key(i)
      /\ \A i \in Used : i \in Id /\ Key(i) \in Conv
  BY LaneTargets, SameTargets, KeyOfUsed DEF Used
<1>2. /\ \A j \in Conv \ {k} : j \in frozen => j \in frozen'
      /\ k \in frozen /\ k \in alive /\ k \notin frozen' =>
            /\ ~HasQueueIntent(Waiting(k))'
            /\ \A i \in EntriesOf(k) : entry'[i] = "none"
  BY LaneThaws
<1>3. ASSUME NEW j \in Conv, HasQueueIntent(Waiting(j))', j \in alive'
      PROVE  j \in frozen'
  <2>1. HasQueueIntent(Waiting(j))
    BY <1>3, LaneQueue DEF HasQueueIntent
  <2>2. j \in frozen /\ j \in alive
    BY <1>1, <1>3, <2>1 DEF AnyFence
  <2> QED BY <1>2, <1>3, <2>2
<1>4. ASSUME NEW i \in Used, entry'[i] # "none", Key(i) \in alive'
      PROVE  \A j : j = Key(i) => j \in frozen'
  <2>1. CASE entry[i] # "none"
    <3>1. Key(i) \in frozen /\ i \in EntriesOf(Key(i))
      BY <1>1, <1>4, <2>1, EntryOfKey DEF AnyFence
    <3> QED BY <1>1, <1>2, <1>4, <3>1
  <2>2. CASE entry[i] = "none"
    <3>1. InsertIntent(k) /\ i = HeadId(k)
      BY <1>1, <1>4, <2>2, LaneEntries
    <3>2. Head1(k).op = "queue" /\ Head1(k) # TurnsOp /\ lane[k] # <<>>
      BY <3>1 DEF InsertIntent, Running, StepInv, PhaseOfOp, PhaseOf, LaneInv, BusyHead
    <3>3. HasQueueIntent(Waiting(k)) /\ Key(i) = k
      BY <3>1, <3>2, HeadWaits, HeadOfKey DEF HasQueueIntent
    <3> QED BY <1>1, <1>4, <3>1, <3>3 DEF AnyFence, InsertIntent, fence
  <2> QED BY <2>1, <2>2
<1> QED BY <1>1, <1>3, <1>4 DEF AnyFence

\* A request freezes what it is about; a load what it loads.
LEMMA OutsideAnyFence ==
    ASSUME TypeOK, LaneInv, AnyFence, Outside
    PROVE  AnyFence'
<1>1. CASE \E x \in Target : RequestDeletion(x)
  <2>1. PICK x \in Target : RequestDeletion(x)
    BY <1>1
  <2>2. /\ UNCHANGED <<alive, entry>> /\ \A i \in Used : target'[i] = target[i]
        /\ frozen' = frozen \cup {KeyOf(x)}
        /\ \A j \in Conv \ {KeyOf(x)} : Waiting(j)' = Waiting(j)
    BY <2>1, RequestSteps
  <2>3. \A i \in Id : entry'[i] # "none" => i \in Used
    BY <2>2 DEF LaneInv, OnlyUsed
  <2> QED BY <2>2, <2>3 DEF AnyFence, HasQueueIntent, Used, Key
<1>2. CASE \/ \E k \in Conv : RequestConversationDeletion(k)
           \/ \E x \in Turn : RequestTurnDeletion(x)
  BY <1>1, <1>2 DEF RequestConversationDeletion, RequestTurnDeletion, Target
<1>3. CASE /\ ~\E k \in Conv : RequestConversationDeletion(k)
           /\ ~\E x \in Turn : RequestTurnDeletion(x)
  <2>1. /\ UNCHANGED <<target, alive>>
        /\ \A j \in Conv : Waiting(j)' \subseteq Waiting(j) \cup PlainOp
    BY <1>3, PlainSteps
  <2>2. \A o \in PlainOp : o.op # "queue"
    BY TurnsOpName DEF PlainOp
  <2>3. frozen \subseteq frozen'
    BY OutsideFreezes
  <2>4. \A j \in Conv : HasQueueIntent(Waiting(j))' => HasQueueIntent(Waiting(j))
    BY <2>1, <2>2 DEF HasQueueIntent
  <2>5. \A i \in Id : entry'[i] # "none" => entry[i] # "none" \/ Key(i) \in frozen'
    BY <1>3 DEF Outside, RequestUndo, RequestFork, UndoWindowEnds, TimerFires, Send, BeginSend,
       PassPendingCheck, SendCaptures, ValidateScope, SendEnters, SendLeaves, SweepExpired,
       Load, EnsureFenceLoaded, StartupSweep, SelectIntents, MarkUnreadable, SelectFails,
       SweepDue, LoadRows, memory, vars
  <2> QED BY <2>1, <2>3, <2>4, <2>5 DEF AnyFence, Used, Key
<1> QED BY <1>2, <1>3

\* No operation waits at the start, nor after a crash.
LEMMA InitCrashWaits ==
    /\ Init => \A k \in Conv : Waiting(k) = {}
    /\ Crash => \A k \in Conv : Waiting(k)' = {}
<1>1. DOMAIN <<>> = {}
  OBVIOUS
<1> QED BY <1>1 DEF Init, Crash, NoLanes, Waiting

\* Nothing is loaded or queued at the start and after a crash.
LEMMA InitCrashAnyFence == (Init => AnyFence) /\ (Crash => AnyFence')
<1>1. Init => AnyFence
  BY InitCrashWaits DEF Init, AnyFence, HasQueueIntent, NoRows, Used
<1>2. Crash => AnyFence'
  BY InitCrashWaits DEF Crash, AnyFence, HasQueueIntent, NoRows, Used
<1> QED BY <1>1, <1>2

\* Where every intent can be recorded, anything pending keeps its conversation
\* frozen.
LEMMA AnyFenceCorrect ==
    ASSUME "insert" \notin Faults
    PROVE  Spec => []AnyFence
<1>1. TypeOK /\ LaneInv /\ StepInv /\ AnyFence /\ [Next]_vars => AnyFence'
  BY NextCases, LaneAnyFence, OutsideAnyFence, InitCrashAnyFence
<1> QED BY <1>1, InitCrashAnyFence, TypeCorrect, StepsCorrect, PTL DEF Spec

\* So a pending turn deletion freezes its conversation until it is carried out,
\* undone, or its conversation is gone, whatever other deletions come and go.
THEOREM TurnsFenced == "insert" \notin Faults => (Spec => []TurnFence)
<1> SUFFICES ASSUME "insert" \notin Faults PROVE Spec => []TurnFence
  OBVIOUS
<1>1. AnyFence => TurnFence
  BY DEF AnyFence, TurnFence
<1> QED BY <1>1, AnyFenceCorrect, PTL

-------------------------------------------------------------------------------
\* What a lane does to requests: it only ages generations; and it thaws the key
\* of one that is not aged only when a deletion could not be recorded.
LEMMA LaneWriters ==
    ASSUME TypeOK, LaneInv, StepInv, NEW k \in Conv, Lane(k), NEW w \in Writer
    PROVE  /\ writer'[w].phase = writer[w].phase /\ writer'[w].key = writer[w].key
           /\ writer'[w].crossed = writer[w].crossed
           /\ writer'[w].current => writer[w].current
           /\ writer'[w].current /\ writer[w].key \in frozen /\ writer[w].key \notin frozen'
                => "insert" \in Faults /\ writer[w].key = k /\ ~Deleting(k)'
<1>1. writer[w] \in WriterRecord
  BY DEF TypeOK, FenceTypeOK
<1>2. CASE writer' = writer
  <2>1. frozen' = frozen \/ (writer' = Bump(k) /\ frozen' = frozen \ {k})
        \/ ("insert" \in Faults /\ frozen' = frozen \ {k} /\ ~Deleting(k)')
    BY LaneThaws
  <2> QED BY <1>1, <1>2, <2>1 DEF Bump, BumpAll, WriterRecord
<1>3. CASE writer' = Bump(k)
  <2>1. frozen' = frozen \/ frozen' = frozen \ {k}
    BY LaneThaws
  <2> QED BY <1>1, <1>3, <2>1 DEF Bump, BumpAll, WriterRecord
<1> QED BY <1>2, <1>3, LaneThaws

\* The step a request takes by itself.
OwnStep(w) ==
    /\ frozen' = frozen
    /\ \/ writer'[w].phase \in {"idle", "waiting", "preparing"}
       \/ writer'[w].phase = "captured" /\ ~writer'[w].crossed
       \/ /\ writer'[w].key = writer[w].key /\ writer'[w].current = writer[w].current
          /\ writer'[w].crossed = writer[w].crossed
          /\ \/ /\ writer[w].phase = "captured" /\ writer'[w].phase = "ready"
                /\ writer[w].key \in alive
             \/ /\ writer[w].phase = "ready" /\ writer'[w].phase = "writing"
                /\ writer[w].current /\ writer[w].key \notin frozen
             \/ writer[w].phase = "writing" /\ writer'[w].phase = "ready"

\* What others from outside do to it: they age it, or cross it and freeze.
AgedBy(w) ==
    /\ writer'[w].phase = writer[w].phase /\ writer'[w].key = writer[w].key
    /\ writer'[w].current => writer[w].current
    /\ writer'[w].crossed = writer[w].crossed \/ writer[w].key \in frozen'

\* A step of a request changes that request only, and a request starts only once
\* the intents are loaded.
LEMMA SendWriters ==
    ASSUME TypeOK, NEW v \in Writer, Send(v), NEW w \in Writer
    PROVE  /\ AgedBy(w) \/ OwnStep(w)
           /\ writer'[w].phase # "idle" => writer[w].phase # "idle" \/ fenceLoaded
<1>1. writer \in [Writer -> WriterRecord]
  BY DEF TypeOK, FenceTypeOK
<1>2. CASE v # w
  <2>1. writer'[w] = writer[w]
    BY <1>1, <1>2 DEF Send, BeginSend, PassPendingCheck, SendCaptures, ValidateScope,
       SendEnters, SendLeaves, CaptureGeneration, EnterWrite, LeaveWrite, Finish, MoveTo
  <2> QED BY <2>1 DEF AgedBy
<1>3. CASE v = w
  <2>1. CASE \E k \in Conv : BeginSend(w, k)
    <3>1. writer'[w].phase = "waiting" /\ frozen' = frozen /\ fenceLoaded
      BY <1>1, <2>1 DEF BeginSend
    <3> QED BY <3>1 DEF OwnStep
  <2>2. CASE PassPendingCheck(w)
    <3>1. /\ writer'[w].phase \in {"idle", "preparing"} /\ frozen' = frozen
          /\ writer[w].phase = "waiting"
      BY <1>1, <2>2 DEF PassPendingCheck, Finish, AtRest, MoveTo, WriterRecord
    <3> QED BY <3>1 DEF OwnStep
  <2>3. CASE SendCaptures(w)
    <3>1. /\ writer'[w].phase = "captured" /\ ~writer'[w].crossed
          /\ frozen' = frozen /\ writer[w].phase = "preparing"
      BY <1>1, <2>3 DEF SendCaptures, CaptureGeneration
    <3> QED BY <3>1 DEF OwnStep
  <2>4. CASE ValidateScope(w)
    BY <1>1, <2>4 DEF ValidateScope, Finish, AtRest, MoveTo, OwnStep, WriterRecord
  <2>5. CASE SendEnters(w)
    BY <1>1, <2>5 DEF SendEnters, EnterWrite, Finish, AtRest, MoveTo, OwnStep, WriterRecord
  <2>6. CASE SendLeaves(w)
    BY <1>1, <2>6 DEF SendLeaves, LeaveWrite, Finish, AtRest, MoveTo, OwnStep, WriterRecord
  <2> QED BY <1>3, <2>1, <2>2, <2>3, <2>4, <2>5, <2>6 DEF Send
<1> QED BY <1>2, <1>3

\* Every step from outside does the one or the other, and nobody begins before
\* the fence is loaded.
LEMMA OutsideWriters ==
    ASSUME TypeOK, LaneInv, Outside, NEW w \in Writer
    PROVE  /\ AgedBy(w) \/ OwnStep(w)
           /\ writer'[w].phase # "idle" => writer[w].phase # "idle" \/ fenceLoaded
<1>1. writer \in [Writer -> WriterRecord]
  BY DEF TypeOK, FenceTypeOK
<1>2. CASE \E v \in Writer : Send(v)
  BY <1>2, SendWriters
<1>3. CASE \E keys : writer' = BumpAll(keys)
  <2>1. PICK keys : writer' = BumpAll(keys)
    BY <1>3
  <2> QED BY <1>1, <2>1 DEF BumpAll, AgedBy, WriterRecord
<1>4. CASE writer' = writer
  BY <1>4 DEF AgedBy
<1>5. CASE \E x \in Target : RequestDeletion(x) /\ \E b : writer' = Cross(KeyOf(x), b)
  <2>1. PICK x \in Target : RequestDeletion(x) /\ \E b : writer' = Cross(KeyOf(x), b)
    BY <1>5
  <2>2. PICK b : writer' = Cross(KeyOf(x), b)
    BY <2>1
  <2>3. frozen' = frozen \cup {KeyOf(x)}
    BY <2>1 DEF RequestDeletion
  <2> QED BY <1>1, <2>2, <2>3 DEF Cross, AgedBy, WriterRecord
<1>6. CASE \E k \in Conv : RequestConversationDeletion(k)
  <2>1. PICK k \in Conv : RequestConversationDeletion(k)
    BY <1>6
  <2> QED BY <1>5, <2>1 DEF RequestConversationDeletion, Target, KeyOf
<1>7. CASE \E x \in Turn : RequestTurnDeletion(x)
  BY <1>5, <1>7, TargetAssumption DEF RequestTurnDeletion, Target, KeyOf
<1>8. CASE Load
  BY <1>3, <1>4, <1>8 DEF Load, EnsureFenceLoaded, StartupSweep, SelectIntents, LoadRows,
     MarkUnreadable, SelectFails, SweepDue, fence
<1>9. CASE SweepExpired \/ UNCHANGED vars
           \/ \E i \in Id : RequestUndo(i) \/ RequestFork(i) \/ UndoWindowEnds(i) \/ TimerFires(i)
  BY <1>4, <1>9 DEF SweepExpired, RequestUndo, RequestFork, UndoWindowEnds, TimerFires, fence, vars
<1> QED BY <1>2, <1>6, <1>7, <1>8, <1>9 DEF Outside

-------------------------------------------------------------------------------
\* Where every intent can be recorded, a request crossed by a deletion stays
\* stopped.
LEMMA CrossedStays ==
    ASSUME TypeOK, LaneInv, StepInv, CrossedStopped, "insert" \notin Faults, [Next]_vars
    PROVE  CrossedStopped'
<1>1. CASE \E k \in Conv : Lane(k)
  BY <1>1, LaneWriters DEF CrossedStopped, Captured
<1>2. CASE Outside
  <2> SUFFICES ASSUME NEW w \in Writer, Captured(w)', writer'[w].crossed, writer'[w].current
               PROVE  writer'[w].key \in frozen'
    BY DEF CrossedStopped
  <2>1. frozen \subseteq frozen'
    BY <1>2, OutsideFreezes
  <2>2. CASE AgedBy(w)
    BY <2>1, <2>2 DEF AgedBy, CrossedStopped, Captured
  <2>3. CASE OwnStep(w)
    BY <2>3 DEF OwnStep, CrossedStopped, Captured
  <2> QED BY <1>2, <2>2, <2>3, OutsideWriters
<1>3. CASE Crash
  BY <1>3 DEF Crash, CrossedStopped, Captured, AtRest
<1> QED BY <1>1, <1>2, <1>3, NextCases

\* Where every intent can be recorded, who writes has something to write into.
LEMMA WritersStayAlive ==
    ASSUME TypeOK, LaneInv, StepInv, FenceInv, WritersAlive, "insert" \notin Faults, [Next]_vars
    PROVE  WritersAlive'
<1> SUFFICES ASSUME NEW w \in Writer, MayWrite(w)' \/ writer'[w].phase = "writing"
             PROVE  writer'[w].key \in alive'
  BY DEF WritersAlive
<1>1. writer[w].key \in Conv
  BY DEF TypeOK, FenceTypeOK, WriterRecord
<1>2. CASE \E k \in Conv : Lane(k)
  <2>1. PICK k \in Conv : Lane(k)
    BY <1>2
  <2>2. MayWrite(w) \/ writer[w].phase = "writing"
    BY <2>1, LaneWriters DEF MayWrite
  <2>3. writer'[w].key = writer[w].key /\ writer[w].key \in alive
    BY <2>1, <2>2, LaneWriters DEF WritersAlive
  <2>4. CASE writer[w].key \notin alive'
    <3>1. /\ writer[w].key = k /\ NoWriterInside(k) /\ UNCHANGED fence
          /\ target[HeadId(k)] = k /\ HeadId(k) \in Used
          /\ entry[HeadId(k)] # "none" /\ IsConv(HeadId(k))
      BY <1>1, <2>1, <2>3, <2>4, LaneDeletes
    <3>2. k \in frozen
      BY <2>3, <3>1 DEF FenceInv, ConversationFence
    <3> QED BY <2>2, <3>1, <3>2 DEF MayWrite, NoWriterInside
  <2> QED BY <2>3, <2>4
<1>3. CASE Outside
  <2>1. frozen \subseteq frozen' /\ alive' = alive
    BY <1>3, OutsideFreezes, OutsideTargets
  <2>2. CASE AgedBy(w)
    BY <2>1, <2>2 DEF AgedBy, WritersAlive, MayWrite
  <2>3. CASE OwnStep(w)
    BY <2>1, <2>3 DEF OwnStep, WritersAlive, MayWrite
  <2> QED BY <1>3, <2>2, <2>3, OutsideWriters
<1>4. CASE Crash
  BY <1>4 DEF Crash, MayWrite, AtRest
<1> QED BY <1>2, <1>3, <1>4, NextCases

\* Requests enter their critical section by their own step only.
LEMMA EnteringMayWrite ==
    ASSUME TypeOK, LaneInv, StepInv, [Next]_vars, NEW w \in Writer, Entering(w)
    PROVE  MayWrite(w)
<1>1. CASE \E k \in Conv : Lane(k)
  BY <1>1, LaneWriters DEF Entering
<1>2. CASE Outside
  <2>1. AgedBy(w) \/ OwnStep(w)
    BY <1>2, OutsideWriters
  <2> QED BY <2>1 DEF Entering, AgedBy, OwnStep, MayWrite
<1>3. CASE Crash
  BY <1>3 DEF Crash, Entering, AtRest
<1> QED BY <1>1, <1>2, <1>3, NextCases

\* No request is under way at the start.
LEMMA InitWriters == Init => CrossedStopped /\ WritersAlive
BY DEF Init, CrossedStopped, WritersAlive, Captured, MayWrite

\* No request writes into a conversation that is gone, whatever the order of
\* its checks, of the deletion and of the lanes.
THEOREM WritesIntoExisting == "insert" \notin Faults => (Spec => []NoWriteAfterDelete)
<1> SUFFICES ASSUME "insert" \notin Faults PROVE Spec => []NoWriteAfterDelete
  OBVIOUS
<1>1. TypeOK /\ LaneInv /\ StepInv /\ FenceInv /\ WritersAlive /\ [Next]_vars => WritersAlive'
  BY WritersStayAlive
<1>2. IInv => TypeOK /\ LaneInv /\ StepInv /\ FenceInv
  BY DEF IInv
<1>3. WritersAlive => NoWriteAfterDelete
  BY DEF WritersAlive, NoWriteAfterDelete
<1> QED BY <1>1, <1>2, <1>3, InitWriters, Inductive, PTL DEF Spec

\* No request writes across a decision: one that captured its generation before
\* a deletion was asked for never enters its critical section again, not even
\* when the deletion was undone.
THEOREM NoneCross == "insert" \notin Faults => (Spec => NoWriteAcrossDecision)
<1> SUFFICES ASSUME "insert" \notin Faults PROVE Spec => NoWriteAcrossDecision
  OBVIOUS
<1>1. TypeOK /\ LaneInv /\ StepInv /\ CrossedStopped /\ [Next]_vars => CrossedStopped'
  BY CrossedStays
<1>2. TypeOK /\ LaneInv /\ StepInv /\ CrossedStopped /\ [Next]_vars =>
        [\A w \in Writer : Entering(w) => ~writer[w].crossed]_vars
  <2> SUFFICES ASSUME TypeOK, LaneInv, StepInv, CrossedStopped, [Next]_vars,
                      NEW w \in Writer, Entering(w), writer[w].crossed
               PROVE  FALSE
    OBVIOUS
  <2> QED BY EnteringMayWrite DEF CrossedStopped, Captured, MayWrite
<1> QED BY <1>1, <1>2, InitWriters, TypeCorrect, StepsCorrect, PTL DEF Spec, NoWriteAcrossDecision

-------------------------------------------------------------------------------
USE DEF Lane, Finalize, StartQueue, InsertIntent, InsertFails, StartUndo, UndoDone, UndoFails,
    StartTurns, StartFinalize, MarkConversation, MarkTurn, MarkTurnFails, VerifyFresh,
    VerifyStale, VerifyFails, Quarantine, DeleteConversation, DeleteConversationFails,
    CleanUpConversation, CleanUpFails, PurgeTurn, PurgeFails, PurgeDone, ScrubManifest,
    ScrubFails, DeleteTurn, DeleteTurnFails, CleanUpTurn, CleanUpTurnFails,
    MarkCleanUpPending, Withdraw, WithdrawFails, FinalizeFails

\* Rows and entries come together and go together.
LEMMA LaneRows ==
    ASSUME TypeOK, LaneInv, StepInv, NEW k \in Conv, Lane(k)
    PROVE  /\ UNCHANGED <<fenceLoaded, loader>>
           /\ \A i \in Id : row'[i] # "none" => row[i] # "none" \/ entry'[i] # "none"
           /\ \A i \in Id : entry[i] # "none" /\ entry'[i] = "none" => row'[i] = "none"
<1> HIDE DEF StartTurns
<1>1. UNCHANGED <<fenceLoaded, loader>>
  BY DEF StartTurns, process
<1>2. CASE StartTurns(k)
  BY <1>1, <1>2 DEF StartTurns, durable, memory
<1>3. CASE ~StartTurns(k)
  <2>1. HeadId(k) \in Id /\ PhaseOf(k) /\ \A i \in todo[k] : i \in Id
    BY <1>3, LaneHead DEF StepInv, PhaseOfOp, LaneInv, TodoOfKey, Used
  <2>2. \A i \in Id : row'[i] # "none" => row[i] # "none" \/ entry'[i] # "none"
    <3>1. CASE InsertIntent(k)
      BY <2>1, <3>1 DEF InsertIntent, HeadId, TypeOK, DurableTypeOK, MemoryTypeOK
    <3>2. CASE UndoDone(k) \/ Withdraw(k) \/ PurgeTurn(k)
      BY <2>1, <3>2 DEF UndoDone, Withdraw, PurgeTurn, HeadId, TypeOK, DurableTypeOK
    <3>3. CASE ~InsertIntent(k) /\ ~UndoDone(k) /\ ~Withdraw(k) /\ ~PurgeTurn(k)
      BY <1>3, <2>1, <3>3 DEF durable, TryUpdate, Updated, HeadId, TypeOK, DurableTypeOK
    <3> QED BY <3>1, <3>2, <3>3
  <2>3. \A i \in Id : entry[i] # "none" /\ entry'[i] = "none" => row'[i] = "none"
    <3>1. CASE UndoDone(k) \/ Withdraw(k) \/ PurgeTurn(k)
      BY <2>1, <3>1 DEF UndoDone, Withdraw, PurgeTurn, RemoveEntry, HeadId, TypeOK,
         DurableTypeOK, MemoryTypeOK
    <3>2. CASE ~UndoDone(k) /\ ~Withdraw(k) /\ ~PurgeTurn(k)
      <4> HIDE DEF Lane, Finalize, UndoDone, Withdraw, PurgeTurn
      <4> QED BY <3>2, LaneKeeps
    <3> QED BY <3>1, <3>2
  <2> QED BY <1>1, <2>2, <2>3
<1> QED BY <1>2, <1>3

HIDE DEF Lane, Finalize, StartQueue, InsertIntent, InsertFails, StartUndo, UndoDone, UndoFails,
    StartTurns, StartFinalize, MarkConversation, MarkTurn, MarkTurnFails, VerifyFresh,
    VerifyStale, VerifyFails, Quarantine, DeleteConversation, DeleteConversationFails,
    CleanUpConversation, CleanUpFails, PurgeTurn, PurgeFails, PurgeDone, ScrubManifest,
    ScrubFails, DeleteTurn, DeleteTurnFails, CleanUpTurn, CleanUpTurnFails,
    MarkCleanUpPending, Withdraw, WithdrawFails, FinalizeFails

\* A lane begins no deletion of a conversation.
LEMMA LaneDeleting ==
    ASSUME TypeOK, LaneInv, StepInv, NEW k \in Conv, Lane(k), NEW j \in Conv, Deleting(j)'
    PROVE  Deleting(j)
<1>1. /\ Used' = Used /\ \A i : Key(i)' = Key(i) /\ IsConv(i)' = IsConv(i)
  BY LaneTargets, SameTargets
<1>2. CASE HasConvQueueIntent(Waiting(j))'
  BY <1>1, <1>2, LaneQueue DEF HasConvQueueIntent, Deleting
<1>3. CASE ConvEntries(j)' # {}
  <2>1. PICK i \in Used : entry'[i] # "none" /\ IsConv(i) /\ Key(i) = j
    BY <1>1, <1>3 DEF ConvEntries
  <2>2. CASE entry[i] # "none"
    BY <2>1, <2>2 DEF ConvEntries, Deleting
  <2>3. CASE entry[i] = "none"
    <3>1. InsertIntent(k) /\ i = HeadId(k)
      BY <2>1, <2>3, LaneEntries DEF Used
    <3>2. Head1(k).op = "queue" /\ Head1(k) # TurnsOp /\ lane[k] # <<>>
      BY <3>1 DEF InsertIntent, Running, StepInv, PhaseOfOp, PhaseOf, LaneInv, BusyHead
    <3>3. Key(i) = k /\ Head1(k) \in Waiting(k)
      BY <3>1, <3>2, HeadWaits, HeadOfKey
    <3> QED BY <2>1, <3>1, <3>2, <3>3 DEF HasConvQueueIntent, Deleting, HeadId
  <2> QED BY <2>2, <2>3
<1> QED BY <1>2, <1>3 DEF Deleting

\* Outside, a deletion begins behind a fence.
LEMMA OutsideDeleting ==
    ASSUME TypeOK, LaneInv, Outside, NEW j \in Conv, Deleting(j)'
    PROVE  Deleting(j) \/ j \in frozen'
<1>1. CASE \E x \in Target : RequestDeletion(x)
  <2>1. PICK x \in Target : RequestDeletion(x)
    BY <1>1
  <2>2. /\ UNCHANGED <<alive, entry>> /\ \A i \in Used : target'[i] = target[i]
        /\ frozen' = frozen \cup {KeyOf(x)}
        /\ \A h \in Conv \ {KeyOf(x)} : Waiting(h)' = Waiting(h)
    BY <2>1, RequestSteps
  <2>3. \A i \in Id : entry'[i] # "none" => i \in Used
    BY <2>2 DEF LaneInv, OnlyUsed
  <2>4. \A o \in Waiting(j) : o.op = "queue" => o.id \in Used
    BY TurnsOpName DEF LaneInv, LaneOfKey
  <2>5. CASE j = KeyOf(x)
    BY <2>2, <2>5
  <2>6. CASE j # KeyOf(x)
    <3>1. ConvEntries(j)' \subseteq ConvEntries(j)
      BY <2>2, <2>3 DEF ConvEntries, Used, IsConv, Key
    <3>2. HasConvQueueIntent(Waiting(j))' => HasConvQueueIntent(Waiting(j))
      BY <2>2, <2>4, <2>6 DEF HasConvQueueIntent, IsConv
    <3> QED BY <3>1, <3>2 DEF Deleting
  <2> QED BY <2>5, <2>6
<1>2. CASE \/ \E k \in Conv : RequestConversationDeletion(k)
           \/ \E x \in Turn : RequestTurnDeletion(x)
  BY <1>1, <1>2 DEF RequestConversationDeletion, RequestTurnDeletion, Target
<1>3. CASE /\ ~\E k \in Conv : RequestConversationDeletion(k)
           /\ ~\E x \in Turn : RequestTurnDeletion(x)
  <2>1. /\ target' = target
        /\ \A h \in Conv : Waiting(h)' \subseteq Waiting(h) \cup PlainOp
    BY <1>3, PlainSteps
  <2>2. \A o \in PlainOp : o.op # "queue"
    BY TurnsOpName DEF PlainOp
  <2>3. HasConvQueueIntent(Waiting(j))' => HasConvQueueIntent(Waiting(j))
    BY <2>1, <2>2 DEF HasConvQueueIntent, IsConv
  <2>4. \A i \in Id : entry'[i] # "none" => entry[i] # "none" \/ Key(i) \in frozen'
    BY <1>3 DEF Outside, RequestUndo, RequestFork, UndoWindowEnds, TimerFires, Send, BeginSend,
       PassPendingCheck, SendCaptures, ValidateScope, SendEnters, SendLeaves, SweepExpired,
       Load, EnsureFenceLoaded, StartupSweep, SelectIntents, MarkUnreadable, SelectFails,
       SweepDue, LoadRows, memory, vars
  <2>5. \A i \in ConvEntries(j)' : i \in ConvEntries(j) \/ j \in frozen'
    BY <2>1, <2>4 DEF ConvEntries, Used, IsConv, Key
  <2> QED BY <2>3, <2>5 DEF Deleting
<1> QED BY <1>2, <1>3

\* A conversation that exists and is being deleted is frozen.
LEMMA DeletingFrozen ==
    ASSUME FenceInv, NEW k \in Conv, Deleting(k), k \in alive
    PROVE  k \in frozen
BY DEF FenceInv, QueueFence, ConversationFence, Deleting, ConvEntries, IsConv, Key, KeyOf

\* So nobody comes to write into what is being deleted.
LEMMA BlocksStay ==
    ASSUME TypeOK, LaneInv, StepInv, FenceInv, DeletionBlocks, [Next]_vars
    PROVE  DeletionBlocks'
<1> SUFFICES ASSUME NEW j \in Conv, NEW w \in Writer, Deleting(j)', writer'[w].key = j, MayWrite(w)'
             PROVE  FALSE
  BY DEF DeletionBlocks
<1>1. CASE \E k \in Conv : Lane(k)
  <2>1. PICK k \in Conv : Lane(k)
    BY <1>1
  <2>2. Deleting(j) /\ writer[w].key = j
    BY <2>1, LaneDeleting, LaneWriters
  <2>3. MayWrite(w)
    BY <2>1, <2>2, LaneWriters DEF MayWrite
  <2> QED BY <2>2, <2>3 DEF DeletionBlocks
<1>2. CASE Outside
  <2>1. j \notin frozen' /\ frozen \subseteq frozen'
    BY <1>2, OutsideFreezes DEF MayWrite
  <2>2. Deleting(j) /\ j \notin frozen
    BY <1>2, <2>1, OutsideDeleting
  <2>3. CASE AgedBy(w)
    BY <2>1, <2>2, <2>3 DEF AgedBy, MayWrite, DeletionBlocks
  <2>4. CASE OwnStep(w)
    BY <2>1, <2>2, <2>4, DeletingFrozen DEF OwnStep, MayWrite, DeletionBlocks
  <2> QED BY <1>2, <2>3, <2>4, OutsideWriters
<1>3. CASE Crash
  BY <1>3 DEF Crash, MayWrite, AtRest
<1> QED BY <1>1, <1>2, <1>3, NextCases

\* A load leaves no row behind; nothing else than a load touches what is loaded.
LEMMA RowsStayLoaded ==
    ASSUME TypeOK, LaneInv, StepInv, RowsLoaded, [Next]_vars
    PROVE  RowsLoaded'
<1>1. CASE \E k \in Conv : Lane(k)
  <2>1. PICK k \in Conv : Lane(k)
    BY <1>1
  <2> QED BY <2>1, LaneRows DEF RowsLoaded
<1>2. CASE Outside /\ ~Load
  <2>1. UNCHANGED <<fenceLoaded, loader, row>>
    BY <1>2, OutsideRows DEF Outside, RequestConversationDeletion, RequestTurnDeletion, RequestDeletion,
       RequestUndo, RequestFork, UndoWindowEnds, TimerFires, Send, BeginSend,
       PassPendingCheck, SendCaptures, ValidateScope, SendEnters, SendLeaves, SweepExpired,
       process, vars
  <2> QED BY <1>2, <2>1, LoadedEntries DEF RowsLoaded
<1>3. CASE Load
  <2>1. row' = row /\ \A i \in Id : entry[i] # "none" => entry'[i] # "none"
    BY <1>3, OutsideRows, LoadedEntries DEF Outside
  <2>2. CASE SelectIntents
    <3> DEFINE all == {i \in Id : row[i] # "none"}
    <3>1. PICK S \in SUBSET all :
             /\ UnreadableRow \/ S = all
             /\ LoadRows(S, row)
             /\ IF UnreadableRow
                THEN /\ loader' =
                           [phase |-> "unreadable", sweep |-> loader.sweep,
                            snapshot |-> [i \in Id |-> IF i \in S THEN "none" ELSE row[i]],
                            due |-> Due(S, row)]
                     /\ UNCHANGED <<ui, fenceLoaded>>
                ELSE LoadEnds(Due(S, row)) /\ ui' = TRUE
      BY <2>2 DEF SelectIntents
    <3>2. \A i \in S : entry'[i] # "none"
      BY <3>1 DEF LoadRows
    <3>3. CASE UnreadableRow
      <4>1. fenceLoaded' = fenceLoaded
            /\ \A i \in Id : loader'.snapshot[i] = IF i \in S THEN "none" ELSE row[i]
        BY <3>1, <3>3
      <4> QED BY <2>1, <3>2, <4>1 DEF RowsLoaded
    <3>4. CASE ~UnreadableRow
      <4>1. S = all /\ loader'.phase # "unreadable"
        BY <3>1, <3>4 DEF LoadEnds, LoaderAt, IdleLoader
      <4> QED BY <2>1, <3>2, <4>1 DEF RowsLoaded
    <3> QED BY <3>3, <3>4
  <2>3. CASE MarkUnreadable
    <3> DEFINE S == {i \in Id : loader.snapshot[i] # "none"}
    <3>1. \A i \in S : entry'[i] # "none"
      BY <2>3 DEF MarkUnreadable, LoadRows
    <3>2. loader'.phase # "unreadable" /\ loader.phase = "unreadable"
      BY <2>3 DEF MarkUnreadable, LoadEnds, LoaderAt, IdleLoader
    <3> QED BY <2>1, <3>1, <3>2 DEF RowsLoaded
  <2>4. CASE EnsureFenceLoaded \/ StartupSweep \/ SelectFails \/ SweepDue
    <3>1. fenceLoaded' = fenceLoaded /\ loader'.phase # "unreadable"
      BY <2>4 DEF EnsureFenceLoaded, StartupSweep, SelectFails, SweepDue, StartLoad,
         LoaderAt, IdleLoader
    <3> QED BY <2>1, <3>1 DEF RowsLoaded
  <2> QED BY <1>3, <2>2, <2>3, <2>4 DEF Load
<1>4. CASE Crash
  BY <1>4 DEF Crash, RowsLoaded, BootLoader, LoaderAt
<1> QED BY <1>1, <1>2, <1>3, <1>4, NextCases

\* Requests begin behind a loaded fence, and it stays loaded.
LEMMA FenceStaysFirst ==
    ASSUME TypeOK, LaneInv, StepInv, FenceFirst, [Next]_vars
    PROVE  FenceFirst'
<1>1. CASE \E k \in Conv : Lane(k)
  BY <1>1, LaneRows, LaneWriters DEF FenceFirst
<1>2. CASE Outside
  <2>1. fenceLoaded => fenceLoaded'
    BY <1>2 DEF Outside, RequestConversationDeletion, RequestTurnDeletion, RequestDeletion,
       RequestUndo, RequestFork, UndoWindowEnds, TimerFires, Send, BeginSend,
       PassPendingCheck, SendCaptures, ValidateScope, SendEnters, SendLeaves, SweepExpired,
       Load, EnsureFenceLoaded, StartupSweep, SelectIntents, MarkUnreadable, SelectFails,
       SweepDue, LoadEnds, process, vars
  <2> QED BY <1>2, <2>1, OutsideWriters DEF FenceFirst
<1>3. CASE Crash
  BY <1>3 DEF Crash, FenceFirst, AtRest
<1> QED BY <1>1, <1>2, <1>3, NextCases

\* Nothing is pending at the start.
LEMMA InitBlocks == Init => BlockInv
<1> SUFFICES ASSUME Init PROVE BlockInv
  OBVIOUS
<1>1. DeletionBlocks
  BY DEF Init, DeletionBlocks, MayWrite
<1>2. RowsLoaded /\ FenceFirst
  BY DEF Init, RowsLoaded, FenceFirst, BootLoader, LoaderAt
<1> QED BY <1>1, <1>2 DEF BlockInv

\* No write starts in a conversation with a durable deletion, of this run of
\* Zotero or of an earlier one, whatever fails and whatever cannot be decoded.
THEOREM NoneIntoPending == Spec => NoWriteIntoPendingDeletion
<1>1. TypeOK /\ LaneInv /\ StepInv /\ FenceInv /\ BlockInv /\ [Next]_vars => BlockInv'
  BY BlocksStay, RowsStayLoaded, FenceStaysFirst DEF BlockInv
<1>2. TypeOK /\ LaneInv /\ StepInv /\ BlockInv /\ [Next]_vars =>
        [\A w \in Writer : Entering(w) =>
            \A i \in Used : row[i] # "none" => target[i] # writer[w].key]_vars
  <2> SUFFICES ASSUME TypeOK, LaneInv, StepInv, BlockInv, [Next]_vars, NEW w \in Writer, Entering(w),
                      NEW i \in Used, row[i] # "none", target[i] = writer[w].key
               PROVE  FALSE
    OBVIOUS
  <2>1. MayWrite(w) /\ writer[w].key \in Conv
    BY EnteringMayWrite DEF TypeOK, FenceTypeOK, WriterRecord
  <2>2. fenceLoaded
    BY <2>1 DEF BlockInv, FenceFirst, MayWrite
  <2>3. entry[i] # "none"
    BY <2>2 DEF BlockInv, RowsLoaded, Used
  <2>4. i \in ConvEntries(writer[w].key)
    BY <2>1, <2>3 DEF ConvEntries, IsConv, Key, KeyOf
  <2> QED BY <2>1, <2>4 DEF BlockInv, DeletionBlocks, Deleting
<1>3. IInv => TypeOK /\ LaneInv /\ StepInv /\ FenceInv
  BY DEF IInv
<1> QED BY <1>1, <1>2, <1>3, InitBlocks, Inductive, PTL DEF Spec, NoWriteIntoPendingDeletion
===============================================================================
