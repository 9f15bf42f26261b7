--------------------- MODULE PendingDeletionSafety_proof ---------------------
(***************************************************************************)
(* The safety of PendingDeletion: the inductive invariant, that a decision *)
(* to delete is never lost, and that the fence of a conversation stands    *)
(* while a loaded deletion of it is pending.                               *)
(***************************************************************************)
EXTENDS PendingDeletion_proof

\* What a lane is working on is an intent of its own conversation.
LEMMA HeadOfKey ==
    ASSUME TypeOK, LaneInv, NEW k \in Conv, lane[k] # <<>>, Head1(k) # TurnsOp
    PROVE  HeadId(k) \in Used /\ HeadId(k) \in Id /\ Key(HeadId(k)) = k
BY HeadWaits DEF LaneInv, LaneOfKey, HeadId, Used

-------------------------------------------------------------------------------
\* The lemmas of this section are about every step of a lane.
USE DEF Lane, Finalize, StartQueue, InsertIntent, InsertFails, StartUndo, UndoDone, UndoFails,
    StartTurns, StartFinalize, MarkConversation, MarkTurn, MarkTurnFails, VerifyFresh,
    VerifyStale, VerifyFails, Quarantine, DeleteConversation, DeleteConversationFails,
    CleanUpConversation, CleanUpFails, PurgeTurn, PurgeFails, PurgeDone, ScrubManifest,
    ScrubFails, DeleteTurn, DeleteTurnFails, CleanUpTurn, CleanUpTurnFails,
    MarkCleanUpPending, Withdraw, WithdrawFails, FinalizeFails

\* A step of a lane leaves the entries of other conversations alone.
LEMMA OtherEntries ==
    ASSUME TypeOK, LaneInv, NEW k \in Conv, Lane(k)
    PROVE  \A i \in Id : Key(i) # k => entry'[i] = entry[i]
<1>1. CASE StartTurns(k)
  BY <1>1 DEF memory
<1>2. CASE ~StartTurns(k)
  <2>1. HeadId(k) \in Id /\ Key(HeadId(k)) = k
    BY <1>2, LaneHead, HeadOfKey DEF LaneInv
  <2>2. \A i \in todo[k] : Key(i) = k
    BY DEF LaneInv, TodoOfKey
  <2> QED BY <2>1, <2>2 DEF memory, RemoveEntry, HeadId, TypeOK, MemoryTypeOK
<1> QED BY <1>1, <1>2

\* What a step of lane k does to the lanes of other conversations: nothing.
LEMMA OtherHeads ==
    ASSUME TypeOK, LaneInv, NEW k \in Conv, Lane(k), NEW j \in Conv \ {k}, pc[j] # "start"
    PROVE  /\ pc'[j] = pc[j] /\ Head1(j)' = Head1(j) /\ HeadId(j)' = HeadId(j)
           /\ entry'[HeadId(j)] = entry[HeadId(j)]
<1>1. lane'[j] = lane[j] /\ pc'[j] = pc[j]
  BY OtherLanes
<1>2. HeadId(j) \in Id /\ Key(HeadId(j)) = j
  BY HeadOfKey DEF LaneInv, BusyHead
<1> QED BY <1>1, <1>2, OtherEntries DEF Head1, HeadId

\* A step of a lane changes no target and brings nothing back to life.
LEMMA LaneTargets ==
    ASSUME NEW k \in Conv, Lane(k)
    PROVE  UNCHANGED <<target, nextId>> /\ alive' \subseteq alive
BY DEF durable

\* A conversation goes with its turns, a turn alone.
LEMMA LaneGoes ==
    ASSUME TypeOK, LaneInv, StepInv, NEW k \in Conv, Lane(k)
    PROVE  TurnsGoToo'
<1>1. CASE alive' = alive
  BY <1>1 DEF StepInv, TurnsGoToo
<1>2. CASE DeleteConversation(k)
  BY <1>2, ConvOfAssumption, TargetAssumption DEF StepInv, TurnsGoToo, RowsOf
<1>3. CASE DeleteTurn(k)
  <2>1. target[HeadId(k)] \in Turn /\ alive' = alive \ {target[HeadId(k)]}
    BY <1>3 DEF StepInv, PhaseOfOp, PhaseOf, TurnPhase, IsTurn, Running, HeadId
  <2> QED BY <2>1, ConvOfAssumption, TargetAssumption DEF StepInv, TurnsGoToo
<1> QED BY <1>1, <1>2, <1>3 DEF durable

\* Where lane k stands after a step of it that does not end its operation.
LEMMA OwnHead ==
    ASSUME TypeOK, LaneInv, NEW k \in Conv, Lane(k), pc'[k] # "start"
    PROVE  /\ lane' = lane /\ Head1(k)' = Head1(k) /\ HeadId(k)' = HeadId(k)
           /\ HeadId(k) \in Used /\ Key(HeadId(k)) = k /\ Head1(k) \in Op
           /\ IsConv(HeadId(k)) => target[HeadId(k)] = k
           /\ IsConv(HeadId(k)) \/ IsTurn(HeadId(k))
<1>1. lane[k] # <<>> /\ lane[k] \in Seq(Op)
  BY LaneHead DEF LaneInv, TypeOK, LaneTypeOK
<1>2. ~StartTurns(k)
  BY StartTurnsLanes
<1>3. lane' = lane
  <2> HIDE DEF StartTurns
  <2> QED BY <1>1, <1>2, EndOpLanes DEF GoTo
<1>4. HeadId(k) \in Used /\ Key(HeadId(k)) = k /\ Head1(k) \in Op
  BY <1>1, <1>2, LaneHead, HeadOfKey DEF LaneInv
<1>5. target[HeadId(k)] \in Target
  BY <1>4, KeyOfUsed
<1> QED BY <1>3, <1>4, <1>5 DEF Head1, HeadId, IsConv, IsTurn, Key, KeyOf, Target

\* A step of a lane ends in a phase that fits its intent, and past the
\* transaction what the intent deletes is gone.
LEMMA LanePhase ==
    ASSUME TypeOK, LaneInv, StepInv, NEW k \in Conv, Lane(k)
    PROVE  StepInv'
<1>1. UNCHANGED <<target, nextId>> /\ alive' \subseteq alive
  BY LaneTargets
<1>2. ASSUME NEW j \in Conv \ {k}
      PROVE  PhaseOf(j)' /\ GoneBy(j)'
  <2>1. CASE pc[j] = "start"
    BY <2>1, OtherLanes DEF PhaseOf, GoneBy
  <2>2. CASE pc[j] # "start"
    <3>1. /\ pc'[j] = pc[j] /\ Head1(j)' = Head1(j) /\ HeadId(j)' = HeadId(j)
          /\ entry'[HeadId(j)] = entry[HeadId(j)]
      BY <2>2, OtherHeads
    <3>2. PhaseOf(j) /\ GoneBy(j)
      BY DEF StepInv, PhaseOfOp, GoneByThen
    <3> QED BY <1>1, <2>2, <3>1, <3>2 DEF PhaseOf, GoneBy, IsConv, IsTurn
  <2> QED BY <2>1, <2>2
<1>3. PhaseOf(k)'
  <2> SUFFICES ASSUME pc'[k] # "start" PROVE PhaseOf(k)'
    BY DEF PhaseOf
  <2> DEFINE i == HeadId(k)
  <2>1. /\ lane' = lane /\ Head1(k)' = Head1(k) /\ HeadId(k)' = i
        /\ i \in Id /\ (IsConv(i) \/ IsTurn(i)) /\ ~(IsConv(i) /\ IsTurn(i)) /\ Head1(k) \in Op
    BY OwnHead, TargetAssumption DEF Used, IsConv, IsTurn
  <2>2. PhaseOf(k) /\ entry \in [Id -> IntentState] /\ pc \in [Conv -> OpPhase]
    BY DEF StepInv, PhaseOfOp, TypeOK, MemoryTypeOK, LaneTypeOK
  <2>3. UNCHANGED target
    BY <1>1
  <2>4. SUFFICES
          /\ pc'[k] = "insert" <=> Head1(k).op = "queue"
          /\ pc'[k] = "undoing" <=> Head1(k).op = "undo"
          /\ pc'[k] \in FinalizePhase <=> Head1(k).op \in {"finalize", "finalizeTurn"}
          /\ pc'[k] # "insert" => entry'[i] # "none"
          /\ pc'[k] \in ConversationPhase => IsConv(i)
          /\ pc'[k] \in TurnPhase => IsTurn(i)
    BY <2>1, <2>3 DEF PhaseOf, IsConv, IsTurn
  <2>5. ~StartTurns(k) /\ ~(lane' # lane)
    BY <2>1, StartTurnsLanes
  <2> HIDE DEF i
  <2>6. CASE StartQueue(k) \/ StartUndo(k)
    BY <2>2, <2>6 DEF StartQueue, StartUndo, Running, GoTo, EndOp, FinalizePhase,
       ConversationPhase, TurnPhase, memory, i, HeadId
  <2>7. CASE StartFinalize(k)
    BY <2>1, <2>2, <2>7 DEF StartFinalize, Running, GoTo, EndOp, FinalizePhase,
       ConversationPhase, TurnPhase, memory, i, HeadId
  <2>8. CASE ~StartQueue(k) /\ ~StartUndo(k) /\ ~StartFinalize(k)
    <3>1. pc[k] \in FinalizePhase /\ pc'[k] \in FinalizePhase
      BY <2>1, <2>2, <2>5, <2>8 DEF Running, GoTo, EndOp, FinalizePhase,
         ConversationPhase, TurnPhase, PhaseOf, i, HeadId, memory, RemoveEntry, IsConv,
         IsTurn
    <3>2. \A j \in todo[k] : IsTurn(j)
      BY DEF LaneInv, TodoOfKey
    <3>3. entry[i] # "none" /\ entry'[i] # "none"
      BY <2>1, <2>2, <2>5, <2>8, <3>2 DEF Running, GoTo, EndOp, FinalizePhase,
         ConversationPhase, TurnPhase, PhaseOf, i, HeadId, memory, RemoveEntry, IsConv,
         IsTurn
    <3>4. pc'[k] \in ConversationPhase => IsConv(i)
      BY <2>1, <2>2, <2>5, <2>8, ZenonT(60) DEF Running, GoTo, EndOp, FinalizePhase,
         ConversationPhase, TurnPhase, PhaseOf, i, HeadId, memory, RemoveEntry, IsConv,
         IsTurn
    <3>5. pc'[k] \in TurnPhase => IsTurn(i)
      BY <2>1, <2>2, <2>5, <2>8 DEF Running, GoTo, EndOp, FinalizePhase,
         ConversationPhase, TurnPhase, PhaseOf, i, HeadId, memory, RemoveEntry, IsConv,
         IsTurn
    <3> QED BY <2>2, <3>1, <3>3, <3>4, <3>5 DEF PhaseOf, FinalizePhase, ConversationPhase,
       TurnPhase
  <2> QED BY <2>6, <2>7, <2>8
<1>4. GoneBy(k)'
  <2> DEFINE i == HeadId(k)
             gone == {"post", "stale", "purge", "scrub", "postTurn", "cleanupMark", "withdraw"}
  <2> SUFFICES ASSUME pc'[k] \in gone PROVE target[i] \notin alive'
    <3>1. pc'[k] # "start" => HeadId(k)' = i
      BY OwnHead
    <3> QED BY <1>1, <3>1 DEF GoneBy
  <2>1. lane' = lane /\ i \in Id /\ (IsConv(i) => target[i] = k) /\ ~StartTurns(k)
    BY OwnHead, StartTurnsLanes DEF Used
  <2>2. PhaseOf(k) /\ GoneBy(k) /\ pc \in [Conv -> OpPhase]
    BY DEF StepInv, PhaseOfOp, GoneByThen, TypeOK, LaneTypeOK
  <2>3. CASE pc[k] \in gone
    BY <1>1, <2>2, <2>3 DEF GoneBy
  <2>4. CASE VerifyStale(k) \/ DeleteConversation(k) \/ DeleteTurn(k)
    BY <2>1, <2>2, <2>4 DEF VerifyStale, DeleteConversation, DeleteTurn, PhaseOf,
       ConversationPhase, Running, RowsOf, durable, HeadId
  <2>5. CASE /\ ~VerifyStale(k) /\ ~DeleteConversation(k) /\ ~DeleteTurn(k)
             /\ pc[k] \notin gone
    <3>1. pc'[k] \notin gone
      BY <2>1, <2>2, <2>5 DEF Running, GoTo, EndOp
    <3> QED BY <3>1
  <2> QED BY <2>3, <2>4, <2>5
<1> QED BY <1>2, <1>3, <1>4, LaneGoes DEF StepInv, PhaseOfOp, GoneByThen

HIDE DEF Lane, Finalize, StartQueue, InsertIntent, InsertFails, StartUndo, UndoDone, UndoFails,
    StartTurns, StartFinalize, MarkConversation, MarkTurn, MarkTurnFails, VerifyFresh,
    VerifyStale, VerifyFails, Quarantine, DeleteConversation, DeleteConversationFails,
    CleanUpConversation, CleanUpFails, PurgeTurn, PurgeFails, PurgeDone, ScrubManifest,
    ScrubFails, DeleteTurn, DeleteTurnFails, CleanUpTurn, CleanUpTurnFails,
    MarkCleanUpPending, Withdraw, WithdrawFails, FinalizeFails

-------------------------------------------------------------------------------
\* The steps of nobody's lane append to lanes at most, and load entries at most.
Outside ==
    \/ \E k \in Conv : RequestConversationDeletion(k)
    \/ \E x \in Turn : RequestTurnDeletion(x)
    \/ \E i \in Id : RequestUndo(i) \/ RequestFork(i) \/ UndoWindowEnds(i) \/ TimerFires(i)
    \/ \E w \in Writer : Send(w)
    \/ SweepExpired \/ Load \/ UNCHANGED vars

\* Every step is a lane's, a crash, or from outside.
LEMMA NextCases ==
    [Next]_vars => Outside \/ Crash \/ \E k \in Conv : Lane(k)
BY DEF Next, Outside, Quiet

\* Operations that an outside step may append without a deletion being asked for.
PlainOp == [op : {"undo", "finalize"}, id : Id] \cup {TurnsOp}

\* Such an operation joins one lane, behind its head.
LEMMA PlainAppend ==
    ASSUME TypeOK, NEW k \in Conv, NEW o \in PlainOp, Enqueue(k, o)
    PROVE  \A j \in Conv :
              /\ lane[j] # <<>> => Head1(j)' = Head1(j)
              /\ Waiting(j)' \subseteq Waiting(j) \cup PlainOp
<1>1. o \in Op
  BY DEF PlainOp, Op
<1> QED BY <1>1, EnqueueLanes

\* Steps from outside other than requests append such operations only.
LEMMA PlainSteps ==
    ASSUME TypeOK, LaneInv, Outside,
           ~\E k \in Conv : RequestConversationDeletion(k),
           ~\E x \in Turn : RequestTurnDeletion(x)
    PROVE  /\ UNCHANGED <<target, pc, alive>>
           /\ \A j \in Conv :
                 /\ lane[j] # <<>> => Head1(j)' = Head1(j)
                 /\ Waiting(j)' \subseteq Waiting(j) \cup PlainOp
<1>1. UNCHANGED <<target, pc, alive>>
  BY DEF Outside, RequestUndo, RequestFork, UndoWindowEnds, TimerFires, Send, BeginSend,
     PassPendingCheck, SendCaptures, ValidateScope, SendEnters, SendLeaves, SweepExpired,
     Load, EnsureFenceLoaded, StartupSweep, SelectIntents, MarkUnreadable, SelectFails,
     SweepDue, durable, lanes, vars
<1>2. CASE UNCHANGED lane
  BY <1>1, <1>2 DEF Head1, Waiting
<1>3. CASE \E k : \E o \in PlainOp : Enqueue(k, o)
  <2>1. PICK k : \E o \in PlainOp : Enqueue(k, o)
    BY <1>3
  <2>2. PICK o \in PlainOp : Enqueue(k, o)
    BY <2>1
  <2>3. CASE k \in Conv
    BY <1>1, <2>2, <2>3, PlainAppend
  <2>4. CASE k \notin Conv
    <3>1. lane' = lane
      BY <2>2, <2>4 DEF Enqueue, TypeOK, LaneTypeOK
    <3> QED BY <1>1, <1>2, <3>1
  <2> QED BY <2>3, <2>4
<1>4. CASE \E S \in SUBSET Id : FinalizeAll(S)
  <2>1. \A i \in Id : FinalizeOp(i) \in PlainOp
    BY DEF FinalizeOp, PlainOp
  <2>2. PICK S \in SUBSET Id : FinalizeAll(S)
    BY <1>4
  <2> QED BY <1>1, <2>1, <2>2, FinalizeAllLanes
<1>5. CASE \E i \in Id : RequestUndo(i) \/ RequestFork(i) \/ UndoWindowEnds(i) \/ TimerFires(i)
  <2>1. \A i \in Id : UndoOp(i) \in PlainOp /\ FinalizeOp(i) \in PlainOp
    BY DEF UndoOp, FinalizeOp, PlainOp
  <2> QED BY <1>2, <1>3, <1>5, <2>1 DEF RequestUndo, RequestFork, UndoWindowEnds,
     TimerFires, lanes
<1>6. CASE \E w \in Writer : Send(w)
  <2>1. TurnsOp \in PlainOp
    BY DEF PlainOp
  <2> QED BY <1>2, <1>3, <1>6, <2>1 DEF Send, BeginSend, PassPendingCheck, SendCaptures,
         ValidateScope, SendEnters, SendLeaves, lanes
<1>7. CASE SweepExpired \/ Load \/ UNCHANGED vars
  BY <1>2, <1>4, <1>7 DEF SweepExpired, Load, EnsureFenceLoaded, StartupSweep,
     SelectIntents, MarkUnreadable, SelectFails, SweepDue, lanes, vars, Used, TypeOK,
     ProcessTypeOK, LoaderRecord
<1> QED BY <1>5, <1>6, <1>7 DEF Outside

\* A request freezes its conversation and joins its lane, behind its head.
LEMMA RequestSteps ==
    ASSUME TypeOK, LaneInv, NEW x \in Target, RequestDeletion(x)
    PROVE  /\ UNCHANGED <<pc, alive, entry>>
           /\ \A i \in Used : target'[i] = target[i]
           /\ frozen' = frozen \cup {KeyOf(x)} /\ KeyOf(x) \in Conv
           /\ \A j \in Conv : lane[j] # <<>> => Head1(j)' = Head1(j)
           /\ \A j \in Conv \ {KeyOf(x)} : Waiting(j)' = Waiting(j)
<1>1. nextId + 1 \in Id /\ nextId + 1 \notin Used
  BY BoundAssumption DEF RequestDeletion, TypeOK, DurableTypeOK, Id, LaneInv, IdsInOrder
<1>2. QueueOp(nextId + 1) \in Op /\ KeyOf(x) \in Conv
  BY <1>1, KeyOfTarget DEF QueueOp, Op
<1>3. \A i \in Used : target'[i] = target[i]
  BY <1>1 DEF RequestDeletion, TypeOK, DurableTypeOK, Used
<1> QED BY <1>2, <1>3, EnqueueLanes DEF RequestDeletion, memory

\* No step from outside changes an entry that is loaded.
LEMMA LoadedEntries ==
    ASSUME TypeOK, LaneInv, Outside
    PROVE  \A i \in Id : entry[i] # "none" => entry'[i] = entry[i]
BY RequestSteps DEF Outside, RequestConversationDeletion, RequestTurnDeletion, Target,
   RequestUndo, RequestFork, UndoWindowEnds, TimerFires, Send, BeginSend,
   PassPendingCheck, SendCaptures, ValidateScope, SendEnters, SendLeaves, SweepExpired,
   Load, EnsureFenceLoaded, StartupSweep, SelectIntents, MarkUnreadable, SelectFails,
   SweepDue, LoadRows, memory, vars, TypeOK, MemoryTypeOK

\* So the operation under way in a lane notices no step from outside.
LEMMA OutsidePhase ==
    ASSUME TypeOK, LaneInv, StepInv, Outside
    PROVE  StepInv'
<1>1. /\ UNCHANGED <<pc, alive>> /\ \A i \in Used : target'[i] = target[i]
      /\ \A j \in Conv : lane[j] # <<>> => Head1(j)' = Head1(j)
  BY PlainSteps, RequestSteps DEF RequestConversationDeletion, RequestTurnDeletion, Target
<1>2. ASSUME NEW k \in Conv PROVE PhaseOf(k)' /\ GoneBy(k)'
  <2>1. CASE pc[k] = "start"
    BY <1>1, <2>1 DEF PhaseOf, GoneBy
  <2>2. CASE pc[k] # "start"
    <3>1. Head1(k)' = Head1(k) /\ HeadId(k)' = HeadId(k)
      BY <1>1, <2>2 DEF LaneInv, BusyHead, HeadId
    <3>2. HeadId(k) \in Used /\ HeadId(k) \in Id
      BY <2>2, HeadOfKey DEF LaneInv, BusyHead
    <3>3. entry[HeadId(k)] # "none" => entry'[HeadId(k)] = entry[HeadId(k)]
      BY <3>2, LoadedEntries
    <3>4. PhaseOf(k) /\ GoneBy(k)
      BY DEF StepInv, PhaseOfOp, GoneByThen
    <3> QED BY <1>1, <2>2, <3>1, <3>2, <3>3, <3>4 DEF PhaseOf, GoneBy, IsConv, IsTurn
  <2> QED BY <2>1, <2>2
<1>3. TurnsGoToo'
  BY <1>1 DEF StepInv, TurnsGoToo
<1> QED BY <1>2, <1>3 DEF StepInv, PhaseOfOp, GoneByThen

\* After a crash no operation is under way.
LEMMA CrashPhase ==
    ASSUME StepInv, Crash
    PROVE  StepInv'
BY DEF Crash, StepInv, PhaseOfOp, PhaseOf, TurnsGoToo, GoneByThen, GoneBy, AtStart, durable

\* Nor is one at the start, when everything exists.
LEMMA InitPhase == Init => StepInv
BY ConvOfAssumption
   DEF Init, StepInv, PhaseOfOp, PhaseOf, TurnsGoToo, GoneByThen, GoneBy, AtStart, Target

\* What each lane is doing fits the intent it does it to.
THEOREM StepsCorrect == Spec => []StepInv
<1>1. TypeOK /\ LaneInv /\ StepInv /\ [Next]_vars => StepInv'
  BY NextCases, OutsidePhase, CrashPhase, LanePhase
<1> QED BY <1>1, InitPhase, TypeCorrect, PTL DEF Spec

-------------------------------------------------------------------------------
\* Only three steps of a lane take an intent out of the table.
USE DEF Lane, Finalize, StartQueue, InsertIntent, InsertFails, StartUndo, UndoDone, UndoFails,
    StartTurns, StartFinalize, MarkConversation, MarkTurn, MarkTurnFails, VerifyFresh,
    VerifyStale, VerifyFails, Quarantine, DeleteConversation, DeleteConversationFails,
    CleanUpConversation, CleanUpFails, PurgeTurn, PurgeFails, PurgeDone, ScrubManifest,
    ScrubFails, DeleteTurn, DeleteTurnFails, CleanUpTurn, CleanUpTurnFails,
    MarkCleanUpPending, Withdraw, WithdrawFails, FinalizeFails

\* These are UndoDone, Withdraw and PurgeTurn, and each has its reason.
LEMMA LaneWithdraws ==
    ASSUME TypeOK, LaneInv, StepInv, NEW k \in Conv, Lane(k),
           NEW i \in Id, row[i] # "none", row'[i] = "none"
    PROVE  i \in undone' \/ target[i] \notin alive
<1> HIDE DEF StartTurns
<1>1. ~StartTurns(k)
  BY DEF StartTurns, durable
<1>2. /\ Running(k, pc[k]) /\ HeadId(k) \in Used /\ HeadId(k) \in Id
      /\ Key(HeadId(k)) = k /\ PhaseOf(k) /\ GoneBy(k)
  BY <1>1, LaneHead, HeadOfKey DEF StepInv, PhaseOfOp, GoneByThen, LaneInv, Running
<1>3. CASE UndoDone(k)
  BY <1>3 DEF TypeOK, DurableTypeOK
<1>4. CASE Withdraw(k)
  BY <1>2, <1>4 DEF TypeOK, DurableTypeOK, GoneBy, Running, HeadId
<1>5. CASE PurgeTurn(k)
  <2>1. target[HeadId(k)] = k /\ k \notin alive
    BY <1>2, <1>5 DEF GoneBy, PhaseOf, ConversationPhase, Running, IsConv, Key, KeyOf
  <2>2. i \in todo[k] /\ IsTurn(i) /\ Key(i) = k
    BY <1>5 DEF TypeOK, DurableTypeOK, LaneInv, TodoOfKey
  <2>3. target[i] \in Turn /\ ConvOf[target[i]] = k
    BY <2>2, TargetAssumption DEF IsTurn, Key, KeyOf
  <2> QED BY <2>1, <2>3 DEF StepInv, TurnsGoToo
<1>6. CASE ~UndoDone(k) /\ ~Withdraw(k) /\ ~PurgeTurn(k)
  <2>1. pc[k] = "scrub" => entry[HeadId(k)] # "none"
    BY <1>2 DEF PhaseOf, Running
  <2> QED BY <1>1, <1>6, <2>1 DEF durable, TryUpdate, Updated, Running, HeadId, TypeOK,
     DurableTypeOK
<1> QED BY <1>3, <1>4, <1>5, <1>6

HIDE DEF Lane, Finalize, StartQueue, InsertIntent, InsertFails, StartUndo, UndoDone, UndoFails,
    StartTurns, StartFinalize, MarkConversation, MarkTurn, MarkTurnFails, VerifyFresh,
    VerifyStale, VerifyFails, Quarantine, DeleteConversation, DeleteConversationFails,
    CleanUpConversation, CleanUpFails, PurgeTurn, PurgeFails, PurgeDone, ScrubManifest,
    ScrubFails, DeleteTurn, DeleteTurnFails, CleanUpTurn, CleanUpTurnFails,
    MarkCleanUpPending, Withdraw, WithdrawFails, FinalizeFails

\* Nothing else does.
LEMMA OutsideRows ==
    Outside \/ Crash => UNCHANGED row
BY DEF Outside, Crash, RequestConversationDeletion, RequestTurnDeletion, RequestDeletion,
   RequestUndo, RequestFork, UndoWindowEnds, TimerFires, Send, BeginSend,
   PassPendingCheck, SendCaptures, ValidateScope, SendEnters, SendLeaves, SweepExpired,
   Load, EnsureFenceLoaded, StartupSweep, SelectIntents, MarkUnreadable, SelectFails,
   SweepDue, durable, vars

\* A decision to delete is never lost: whatever crashes, fails or is reordered,
\* an intent leaves the table only when its Undo reported "restored" or when
\* what it deletes is gone.
THEOREM DecisionsDurable == Spec => DecisionDurable
<1>1. TypeOK /\ LaneInv /\ StepInv /\ [Next]_vars =>
        [\A i \in Id : row[i] # "none" /\ row'[i] = "none" =>
            i \in undone' \/ target[i] \notin alive]_vars
  BY NextCases, LaneWithdraws, OutsideRows
<1> QED BY <1>1, TypeCorrect, StepsCorrect, PTL DEF Spec, DecisionDurable

-------------------------------------------------------------------------------
USE DEF Lane, Finalize, StartQueue, InsertIntent, InsertFails, StartUndo, UndoDone, UndoFails,
    StartTurns, StartFinalize, MarkConversation, MarkTurn, MarkTurnFails, VerifyFresh,
    VerifyStale, VerifyFails, Quarantine, DeleteConversation, DeleteConversationFails,
    CleanUpConversation, CleanUpFails, PurgeTurn, PurgeFails, PurgeDone, ScrubManifest,
    ScrubFails, DeleteTurn, DeleteTurnFails, CleanUpTurn, CleanUpTurnFails,
    MarkCleanUpPending, Withdraw, WithdrawFails, FinalizeFails

\* A step of a lane adds no deletion to any lane.
LEMMA LaneQueue ==
    ASSUME TypeOK, LaneInv, NEW k \in Conv, Lane(k)
    PROVE  \A j \in Conv : \A o \in Waiting(j)' : o.op = "queue" => o \in Waiting(j)
<1> HIDE DEF StartTurns
<1>1. \A j \in Conv \ {k} : Waiting(j)' = Waiting(j)
  BY OtherLanes, ZenonT(60) DEF Waiting
<1>2. CASE StartTurns(k)
  BY <1>1, <1>2, StartTurnsLanes DEF FinalizeTurn
<1>3. CASE ~StartTurns(k)
  <2>1. Waiting(k)' \subseteq Waiting(k)
    BY <1>3, LaneHead, EndOpLanes DEF LaneInv, GoTo, Waiting
  <2> QED BY <1>1, <2>1
<1> QED BY <1>2, <1>3

\* A step of a lane loads no entry, except the insertion of what was waiting.
LEMMA LaneEntries ==
    ASSUME TypeOK, LaneInv, StepInv, NEW k \in Conv, Lane(k)
    PROVE  \A i \in Id : entry'[i] # "none" =>
              entry[i] # "none" \/ (InsertIntent(k) /\ i = HeadId(k))
<1>1. ~StartTurns(k) => PhaseOf(k) /\ HeadId(k) \in Id
  BY LaneHead DEF StepInv, PhaseOfOp, LaneInv
<1> QED BY <1>1, ZenonT(60) DEF PhaseOf, FinalizePhase, ConversationPhase, TurnPhase, HeadId, memory,
   RemoveEntry, TypeOK, MemoryTypeOK, LaneTypeOK, OpPhase, Running

\* The fence of k reopens only when no deletion of k is left, or k is gone.
LEMMA LaneFrozen ==
    ASSUME TypeOK, LaneInv, StepInv, NEW k \in Conv, Lane(k)
    PROVE  /\ \A j \in Conv \ {k} : j \in frozen => j \in frozen'
           /\ k \in frozen /\ k \notin frozen' =>
                 \/ k \notin alive
                 \/ /\ ~HasConvQueueIntent(Waiting(k))'
                    /\ \A i \in ConvEntries(k) : entry'[i] = "none"
<1>1. CASE VerifyStale(k)
  BY <1>1 DEF VerifyStale
<1>2. /\ EndOp(k) => HasConvQueueIntent(Waiting(k))' = HasConvQueueIntent(Rest(k))
      /\ HasConvQueueIntent(Rest(k)) => HasQueueIntent(Rest(k))
      /\ ConvEntries(k) \subseteq EntriesOf(k)
  <2>1. EndOp(k) => Waiting(k)' = Rest(k)
    BY LaneHead, EndOpLanes DEF LaneInv
  <2>2. UNCHANGED target
    BY LaneTargets
  <2> QED BY <2>1, <2>2 DEF HasConvQueueIntent, HasQueueIntent, IsConv, EntriesOf
<1>3. CASE StartQueue(k) \/ InsertFails(k)
  <2>1. CASE frozen' = frozen
    BY <2>1
  <2>2. CASE frozen' # frozen
    <3>1. EndOp(k) /\ AbandonQueue(k) /\ UNCHANGED entry
      BY <1>3, <2>2 DEF StartQueue, InsertFails, memory
    <3>2. frozen' = frozen \ {k} /\ ~HasConvQueueIntent(Rest(k)) /\ ConvEntries(k) = {}
      BY <1>2, <2>2, <3>1 DEF AbandonQueue
    <3> QED BY <1>2, <3>1, <3>2
  <2> QED BY <2>1, <2>2
<1>4. CASE UndoDone(k) \/ Withdraw(k)
  <2>1. CASE frozen' = frozen
    BY <2>1
  <2>2. CASE frozen' # frozen
    <3>1. /\ EndOp(k) /\ RemoveEntry(HeadId(k)) /\ frozen' = frozen \ {k}
          /\ ~HasQueueIntent(Rest(k)) /\ EntriesOf(k) \ {HeadId(k)} = {}
      BY <1>4, <2>2 DEF UndoDone, Withdraw, HeadId
    <3>2. \A i \in ConvEntries(k) : i = HeadId(k) /\ i \in Id
      BY <1>2, <3>1 DEF ConvEntries, Used
    <3>3. \A i \in ConvEntries(k) : entry'[i] = "none"
      BY <3>1, <3>2 DEF RemoveEntry, TypeOK, MemoryTypeOK
    <3> QED BY <1>2, <3>1, <3>3
  <2> QED BY <2>1, <2>2
<1>5. CASE frozen' = frozen
  BY <1>5
<1> QED BY <1>1, <1>3, <1>4, <1>5 DEF fence

HIDE DEF Lane, Finalize, StartQueue, InsertIntent, InsertFails, StartUndo, UndoDone, UndoFails,
    StartTurns, StartFinalize, MarkConversation, MarkTurn, MarkTurnFails, VerifyFresh,
    VerifyStale, VerifyFails, Quarantine, DeleteConversation, DeleteConversationFails,
    CleanUpConversation, CleanUpFails, PurgeTurn, PurgeFails, PurgeDone, ScrubManifest,
    ScrubFails, DeleteTurn, DeleteTurnFails, CleanUpTurn, CleanUpTurnFails,
    MarkCleanUpPending, Withdraw, WithdrawFails, FinalizeFails

\* A step of a lane keeps the fence.
LEMMA LaneFence ==
    ASSUME TypeOK, LaneInv, StepInv, FenceInv, NEW k \in Conv, Lane(k)
    PROVE  FenceInv'
<1>1. /\ alive' \subseteq alive /\ Used' = Used
      /\ \A i : Key(i)' = Key(i) /\ IsConv(i)' = IsConv(i) /\ target'[i] = target[i]
  BY LaneTargets, SameTargets
<1>2. ASSUME NEW j \in Conv, HasConvQueueIntent(Waiting(j))', j \in alive'
      PROVE  j \in frozen'
  <2>1. HasConvQueueIntent(Waiting(j))
    BY <1>1, <1>2, LaneQueue DEF HasConvQueueIntent
  <2>2. j \in frozen /\ j \in alive
    BY <1>1, <1>2, <2>1 DEF FenceInv, QueueFence
  <2> QED BY <1>2, <2>2, LaneFrozen
<1>3. ASSUME NEW i \in Used, entry'[i] # "none", IsConv(i), target[i] \in alive'
      PROVE  target[i] \in frozen'
  <2>1. i \in Id /\ Key(i) = target[i] /\ target[i] \in Conv /\ target[i] \in alive
    BY <1>1, <1>3 DEF Used, IsConv, Key, KeyOf
  <2>2. target[i] \in frozen
    <3>1. CASE entry[i] # "none"
      BY <1>3, <2>1, <3>1 DEF FenceInv, ConversationFence
    <3>2. CASE entry[i] = "none"
      <4>1. InsertIntent(k) /\ i = HeadId(k)
        BY <1>3, <2>1, <3>2, LaneEntries
      <4>2. Head1(k).op = "queue" /\ Head1(k) # TurnsOp /\ lane[k] # <<>>
        BY <4>1 DEF InsertIntent, Running, StepInv, PhaseOfOp, PhaseOf, LaneInv, BusyHead
      <4>3. HasConvQueueIntent(Waiting(k)) /\ k = target[i]
        BY <1>3, <2>1, <4>1, <4>2, HeadWaits, HeadOfKey DEF HasConvQueueIntent, HeadId
      <4> QED BY <2>1, <4>3 DEF FenceInv, QueueFence
    <3> QED BY <3>1, <3>2
  <2>3. CASE target[i] # k
    BY <2>1, <2>2, <2>3, LaneFrozen
  <2>4. CASE target[i] = k
    <3>1. entry[i] # "none" => i \in ConvEntries(k)
      BY <1>3, <2>1, <2>4 DEF ConvEntries
    <3>2. CASE entry[i] # "none"
      BY <1>3, <2>1, <2>2, <2>4, <3>1, <3>2, LaneFrozen
    <3>3. CASE entry[i] = "none"
      <4>1. InsertIntent(k)
        BY <1>3, <2>1, <3>3, LaneEntries
      <4> QED BY <2>2, <4>1 DEF InsertIntent, fence
    <3> QED BY <3>2, <3>3
  <2> QED BY <2>3, <2>4
<1> QED BY <1>1, <1>2, <1>3 DEF FenceInv, QueueFence, ConversationFence

\* A request keeps the fence: it freezes what it is about.
LEMMA RequestFence ==
    ASSUME TypeOK, LaneInv, FenceInv, NEW x \in Target, RequestDeletion(x)
    PROVE  FenceInv'
<1>1. /\ UNCHANGED <<alive, entry>> /\ \A i \in Used : target'[i] = target[i]
      /\ frozen' = frozen \cup {KeyOf(x)}
      /\ \A j \in Conv \ {KeyOf(x)} : Waiting(j)' = Waiting(j)
  BY RequestSteps
<1>2. QueueFence'
  <2> SUFFICES ASSUME NEW j \in Conv \ {KeyOf(x)}, HasConvQueueIntent(Waiting(j))', j \in alive'
               PROVE  j \in frozen'
    BY <1>1 DEF QueueFence
  <2>1. ASSUME NEW o \in Waiting(j), o.op = "queue"
        PROVE  o.id \in Used
    BY <2>1, TurnsOpName DEF LaneInv, LaneOfKey
  <2>2. HasConvQueueIntent(Waiting(j))
    BY <1>1, <2>1 DEF HasConvQueueIntent, IsConv
  <2> QED BY <1>1, <2>2 DEF FenceInv, QueueFence
<1>3. ConversationFence'
  <2>1. \A i \in Id : entry'[i] # "none" => i \in Used
    BY <1>1 DEF LaneInv, OnlyUsed
  <2> QED BY <1>1, <2>1 DEF FenceInv, ConversationFence, IsConv, Used
<1> QED BY <1>2, <1>3 DEF FenceInv

\* Steps from outside keep the fence: they only ever freeze.
LEMMA OutsideFence ==
    ASSUME TypeOK, LaneInv, FenceInv, Outside
    PROVE  FenceInv'
<1>1. CASE \E k \in Conv : RequestConversationDeletion(k)
  BY <1>1, RequestFence DEF RequestConversationDeletion, Target
<1>2. CASE \E x \in Turn : RequestTurnDeletion(x)
  BY <1>2, RequestFence DEF RequestTurnDeletion, Target
<1>3. CASE /\ ~\E k \in Conv : RequestConversationDeletion(k)
           /\ ~\E x \in Turn : RequestTurnDeletion(x)
  <2>1. /\ UNCHANGED <<target, alive>>
        /\ \A j \in Conv : Waiting(j)' \subseteq Waiting(j) \cup PlainOp
    BY <1>3, PlainSteps
  <2>2. \A o \in PlainOp : o.op # "queue"
    BY TurnsOpName DEF PlainOp
  <2>3. frozen \subseteq frozen'
    BY <1>3 DEF Outside, RequestUndo, RequestFork, UndoWindowEnds, TimerFires, Send,
       BeginSend, PassPendingCheck, SendCaptures, ValidateScope, SendEnters, SendLeaves,
       CaptureGeneration, EnterWrite, LeaveWrite, SweepExpired, Load, EnsureFenceLoaded,
       StartupSweep, SelectIntents, MarkUnreadable, SelectFails, SweepDue, LoadRows,
       fence, vars
  <2>4. QueueFence'
    <3>1. \A j \in Conv : HasConvQueueIntent(Waiting(j))' => HasConvQueueIntent(Waiting(j))
      BY <2>1, <2>2 DEF HasConvQueueIntent, IsConv
    <3> QED BY <2>1, <2>3, <3>1 DEF FenceInv, QueueFence
  <2>5. \A i \in Id : entry'[i] # "none" => entry[i] # "none" \/ Key(i) \in frozen'
    BY <1>3 DEF Outside, RequestUndo, RequestFork, UndoWindowEnds, TimerFires, Send,
       BeginSend, PassPendingCheck, SendCaptures, ValidateScope, SendEnters, SendLeaves,
       SweepExpired, Load, EnsureFenceLoaded, StartupSweep, SelectIntents, MarkUnreadable,
       SelectFails, SweepDue, LoadRows, memory, vars
  <2>6. ConversationFence'
    BY <2>1, <2>3, <2>5 DEF FenceInv, ConversationFence, Used, IsConv, Key, KeyOf
  <2> QED BY <2>4, <2>6 DEF FenceInv
<1> QED BY <1>1, <1>2, <1>3

\* A crash empties the memory, and the fence with it.
LEMMA CrashFence ==
    ASSUME Crash
    PROVE  FenceInv'
<1>1. \A k \in Conv : Waiting(k)' = {}
  <2>1. DOMAIN <<>> = {}
    OBVIOUS
  <2> QED BY <2>1 DEF Crash, NoLanes, Waiting
<1> QED BY <1>1 DEF Crash, FenceInv, QueueFence, ConversationFence, HasConvQueueIntent,
   NoRows, Used

\* At the start no deletion is known.
LEMMA InitFence == Init => FenceInv
<1> SUFFICES ASSUME Init PROVE FenceInv
  OBVIOUS
<1>1. \A k \in Conv : Waiting(k) = {}
  <2>1. DOMAIN <<>> = {}
    OBVIOUS
  <2> QED BY <2>1 DEF Init, NoLanes, Waiting
<1> QED BY <1>1 DEF Init, FenceInv, QueueFence, ConversationFence, HasConvQueueIntent,
   NoRows, Used

\* The invariant of the store, every part of it together, is inductive.
THEOREM Inductive == Spec => []IInv
<1>1. TypeOK /\ LaneInv /\ StepInv /\ FenceInv /\ [Next]_vars => FenceInv'
  BY NextCases, OutsideFence, CrashFence, LaneFence
<1> QED BY <1>1, InitFence, TypeCorrect, StepsCorrect, PTL DEF Spec, IInv

\* The fence holds: whatever fails, crashes or is undone, a conversation with a
\* loaded deletion stays frozen until it is gone or nothing deletes it.
THEOREM FenceCorrect == Spec => []ConversationFence
<1>1. IInv => ConversationFence
  BY DEF IInv, FenceInv
<1> QED BY <1>1, Inductive, PTL
===============================================================================
