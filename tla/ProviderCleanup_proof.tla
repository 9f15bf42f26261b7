------------------------ MODULE ProviderCleanup_proof ------------------------
(***************************************************************************)
(* Theorems about ProviderCleanup, for every set of conversations and      *)
(* sessions, every bound and every combination of failures and crashes.    *)
(***************************************************************************)
EXTENDS ProviderCleanup, FiniteSetTheorems, SequenceTheorems,
        WellFoundedInduction, TLAPS

Phases  == {"none", "read", "runtime", "lock", "operate", "complete", "fail"}
Answers == {"none", "ok", "deferred", "failed", "threw"}
Flows   ==
    [phase : {"idle", "lock", "waiting", "turnCall",
              "deleteLock", "post", "deleteWaiting", "callLock", "call"},
     session : Session \cup {"none"}, job : Job \cup {NoJob}, answer : Answers]

\* Who can hold or wait for the write lock of k.
Waiters(k) ==
    {Flow(k)} \cup {Operation(j) : j \in Job} \cup {Worker(n, j) : n \in Slot, j \in Job}

FlowWaits(k) == flow[k].phase \in {"waiting", "deleteWaiting"}

\* The flow of k is inside the lock with a call it shares or one of its own.
FlowInside(k) ==
    \/ flow[k].phase \in {"waiting", "turnCall"}
    \/ flow[k].phase = "call" /\ flow[k].session \in Claude

-------------------------------------------------------------------------------
(************************** The inductive invariant **************************)

TaskTypes ==
    /\ row \in [Job -> {"unborn", "due", "deferred", "done"}]
    /\ resolved \subseteq Job /\ gone \subseteq Conv
    /\ attempt \in [Job -> [phase : Phases, locks : BOOLEAN]]
    /\ flow \in [Conv -> Flows]
    /\ \A k \in Conv : FlowWaits(k) => flow[k].job \in Job
    /\ worker \in [Slot \X Job -> {"idle", "lock", "waiting", "answered", "threw"}]

LockTypes ==
    /\ lock = [k \in Conv |-> lock[k]]
    /\ \A k \in Conv : lock[k] \in Seq(Waiters(k))

SchedulerTypes ==
    /\ loop \in {"off", "query", "list", "sweep"} /\ sweep \in Slot
    /\ processed \in BOOLEAN /\ wake \in BOOLEAN /\ notice \in BOOLEAN
    /\ timer \in {"off", "retry"}

\* The unique index: a session has one job that is not done.
OneLiveRow ==
    \A i, j \in Job : i[1] = j[1] /\ LiveRow(i) /\ LiveRow(j) => i = j

\* Past its re-reading of the row an attempt is about a due row; only attempts
\* on a Claude session's behalf take the lock themselves.
AttemptInv ==
    \A j \in Job :
       /\ attempt[j].phase \notin {"none", "read"} => row[j] = "due"
       /\ attempt[j].phase \in {"runtime", "lock"} => attempt[j].locks
       /\ attempt[j].locks => j[1] \in Claude

\* An operation resolved for what is done or about to be; so say the answers.
AnswerInv ==
    /\ \A j \in Job : attempt[j].phase = "complete" \/ row[j] = "done" => j \in resolved
    /\ \A k \in Conv :
          /\ flow[k].answer # "none" => FlowWaits(k)
          /\ flow[k].answer = "ok" => flow[k].job \in resolved

\* Someone inside the conversation's lock waits for the attempt of j.
AwaitedInside(j) ==
    \/ \E n \in Slot : worker[<<n, j>>] = "waiting"
    \/ /\ flow[KeyOf(j)].phase = "waiting"
       /\ flow[KeyOf(j)].job = j /\ flow[KeyOf(j)].answer = "none"

\* Who is past the request for the lock holds it, and an attempt on a Claude
\* session that does not take the lock is awaited inside it.
LockInv ==
    /\ \A n \in Slot, j \in Job :
          worker[<<n, j>>] \notin {"idle", "lock"} => Holds(KeyOf(j), Worker(n, j))
    /\ \A k \in Conv : FlowInside(k) => Holds(k, Flow(k))
    /\ \A j \in Job : attempt[j].phase = "operate" /\ attempt[j].locks =>
          Holds(KeyOf(j), Operation(j))
    /\ \A j \in Job : attempt[j].phase # "none" /\ ~attempt[j].locks /\ j[1] \in Claude =>
          AwaitedInside(j)

\* A flow calls for a session of its own conversation, and an attempt that takes
\* the lock itself is awaited by the deletion that started it.
OwnerInv ==
    /\ \A k \in Conv : flow[k].phase \in {"post", "callLock", "call", "turnCall"} =>
          SessionOf[flow[k].session] = k
    /\ \A j \in Job : attempt[j].locks =>
          /\ flow[KeyOf(j)].phase = "deleteWaiting"
          /\ flow[KeyOf(j)].job = j /\ flow[KeyOf(j)].answer = "none"

\* All but locks and owners: this part is inductive by itself.
RowInv ==
    TaskTypes /\ SchedulerTypes /\ OneLiveRow /\ AttemptInv /\ AnswerInv

-------------------------------------------------------------------------------
(****************************** Jobs and rows ********************************)

LEMMA JobParts ==
    /\ \A j \in Job : j[1] \in Session /\ KeyOf(j) \in Conv /\ j[2] \in Nat
                      /\ j = <<j[1], j[2]>> /\ j # NoJob
    /\ \A i, j \in Job : i[1] = j[1] /\ i[2] = j[2] => i = j
<1>1. ASSUME NEW j \in Job
      PROVE  j[1] \in Session /\ KeyOf(j) \in Conv /\ j[2] \in Nat /\ j = <<j[1], j[2]>>
  <2>1. PICK s \in Session : j \in {s} \X (1 .. MaxEnqueue[s])
    BY DEF Job
  <2>2. MaxEnqueue[s] \in Nat
    BY LimitAssumption
  <2> QED BY <2>1, <2>2, SessionAssumption DEF KeyOf
<1>2. \A x, y : <<x, y>> # <<>>
  OBVIOUS
<1> QED BY <1>1, <1>2 DEF NoJob

Less == {p \in Nat \X Nat : p[1] < p[2]}

\* A set of naturals that is not empty has a least element.
LEMMA LeastNatural ==
    ASSUME NEW T \in SUBSET Nat, T # {}
    PROVE  \E m \in T : \A n \in T : m <= n
<1>1. IsWellFoundedOn(Less, Nat)
  BY NatLessThanWellFounded DEF OpToRel, Less
<1>2. \E m \in T : \A n \in T : <<n, m>> \notin Less
  BY <1>1, WFMin
<1>3. ASSUME NEW m \in T, NEW n \in T, <<n, m>> \notin Less PROVE m <= n
  BY <1>3 DEF Less
<1> QED BY <1>2, <1>3

\* The next job of a session, when there is one left.
LEMMA FirstUnbornExists ==
    ASSUME NEW s, Unborn(s) # {}
    PROVE  FirstUnborn(s) \in Unborn(s)
<1> DEFINE numbers == {j[2] : j \in Unborn(s)}
<1>1. Unborn(s) \subseteq Job
  BY DEF Unborn
<1>2. numbers \in SUBSET Nat /\ numbers # {}
  BY <1>1, JobParts
<1>3. PICK m \in numbers : \A n \in numbers : m <= n
  BY <1>2, LeastNatural
<1>4. PICK j \in Unborn(s) : j[2] = m
  BY <1>3
<1>5. \A i \in Unborn(s) : j[2] <= i[2]
  BY <1>3, <1>4
<1> QED BY <1>4, <1>5 DEF FirstUnborn

\* What is enqueued for a session is its live job, or one that was never used.
LEMMA JobForFacts ==
    ASSUME NEW s, Enqueuable(s)
    PROVE  /\ s \in Session /\ JobFor(s) \in Job /\ JobFor(s)[1] = s
           /\ Live(s) # {} => LiveRow(JobFor(s))
           /\ Live(s) = {} => row[JobFor(s)] = "unborn"
<1>1. CASE Live(s) # {}
  <2>1. JobFor(s) \in Live(s)
    BY <1>1 DEF JobFor
  <2> QED BY <1>1, <2>1, JobParts DEF Live
<1>2. CASE Live(s) = {}
  <2>1. JobFor(s) \in Unborn(s)
    BY <1>2, FirstUnbornExists DEF JobFor, Enqueuable
  <2> QED BY <1>2, <2>1, JobParts DEF Unborn
<1> QED BY <1>1, <1>2

\* What the enqueueing transaction does to the rows.
LEMMA PersistedFacts ==
    ASSUME TaskTypes, OneLiveRow, NEW S \in SUBSET Session,
           \A s \in S : Enqueuable(s), row' = Persisted(S)
    PROVE  /\ row' \in [Job -> {"unborn", "due", "deferred", "done"}]
           /\ OneLiveRow'
           /\ \A s \in S : row'[JobFor(s)] \in {"due", "deferred"}
           /\ \A j \in Job : \/ row'[j] = row[j]
                             \/ row[j] = "unborn" /\ row'[j] = "due" /\ j[1] \in S
<1> DEFINE new == {JobFor(s) : s \in {x \in S : row[JobFor(x)] = "unborn"}}
<1>1. row' = [j \in Job |-> IF j \in new THEN "due" ELSE row[j]]
  BY DEF Persisted
<1>2. \A j \in new : \E s \in S : j = JobFor(s) /\ j[1] = s /\ Live(s) = {} /\ row[j] = "unborn"
  BY JobForFacts DEF LiveRow
<1> HIDE DEF new
<1>3. row' \in [Job -> {"unborn", "due", "deferred", "done"}]
  BY <1>1 DEF TaskTypes
<1>4. \A j \in Job : \/ row'[j] = row[j]
                     \/ row[j] = "unborn" /\ row'[j] = "due" /\ j[1] \in S
  BY <1>1, <1>2
<1>5. ASSUME NEW s \in S PROVE row'[JobFor(s)] \in {"due", "deferred"}
  <2> DEFINE j == JobFor(s)
  <2>1. j \in Job /\ (row[j] # "unborn" => LiveRow(j))
    BY JobForFacts
  <2>2. row[j] = "unborn" => j \in new
    BY DEF new
  <2> QED BY <1>1, <2>1, <2>2 DEF LiveRow
<1>6. ASSUME NEW i \in Job, NEW j \in Job, i[1] = j[1], LiveRow(i)', LiveRow(j)'
      PROVE  i = j
  <2>1. i \in new \/ LiveRow(i)
    BY <1>1, <1>6 DEF LiveRow
  <2>2. j \in new \/ LiveRow(j)
    BY <1>1, <1>6 DEF LiveRow
  <2>3. CASE i \in new /\ j \in new
    BY <1>2, <1>6, <2>3
  <2>4. CASE i \in new /\ LiveRow(j)
    BY <1>2, <1>6, <2>4 DEF Live
  <2>5. CASE j \in new /\ LiveRow(i)
    BY <1>2, <1>6, <2>5 DEF Live
  <2>6. CASE LiveRow(i) /\ LiveRow(j)
    BY <1>6, <2>6 DEF OneLiveRow
  <2> QED BY <2>1, <2>2, <2>3, <2>4, <2>5, <2>6
<1> QED BY <1>3, <1>4, <1>5, <1>6 DEF OneLiveRow

-------------------------------------------------------------------------------
(*************************** Locks and attempts ******************************)

LEMMA WaiterFacts ==
    \A k \in Conv :
       /\ Flow(k) \in Waiters(k)
       /\ \A j \in Job : Operation(j) \in Waiters(k)
       /\ \A n \in Slot, j \in Job : Worker(n, j) \in Waiters(k)
BY DEF Waiters

\* Flows, operations and workers are different holders of a lock.
LEMMA WaitersDiffer ==
    /\ \A k, j : Flow(k) # Operation(j)
    /\ \A k, n, j : Flow(k) # Worker(n, j)
    /\ \A i, n, j : Operation(i) # Worker(n, j)
    /\ \A i, j : Operation(i) = Operation(j) => i = j
    /\ \A i, j, m, n : Worker(m, i) = Worker(n, j) => m = n /\ i = j
<1>1. /\ \A k : Flow(k).who = "flow"
      /\ \A j : Operation(j).who = "operation" /\ Operation(j).job = j
      /\ \A n, j : Worker(n, j).who = "worker" /\ Worker(n, j).slot = n /\ Worker(n, j).job = j
  BY DEF Flow, Operation, Worker
<1> QED BY <1>1

\* The holder of a lock stays its holder.
HoldersStay ==
    \A k \in Conv : lock[k] # <<>> => lock'[k] # <<>> /\ Head(lock'[k]) = Head(lock[k])

\* Queueing for a lock takes it from nobody.
LEMMA WaitForFacts ==
    ASSUME LockTypes, NEW k \in Conv, NEW x \in Waiters(k), WaitFor(k, x)
    PROVE  LockTypes' /\ HoldersStay
<1>1. lock[k] \in Seq(Waiters(k))
  BY DEF LockTypes
<1>2. /\ Append(lock[k], x) \in Seq(Waiters(k)) /\ Append(lock[k], x) # <<>>
      /\ lock[k] # <<>> => Head(Append(lock[k], x)) = Head(lock[k])
  BY <1>1, AppendProperties, EmptySeq
<1> QED BY <1>2 DEF WaitFor, LockTypes, HoldersStay

\* A release concerns the lock of its own conversation.
LEMMA ReleaseFacts ==
    ASSUME LockTypes, NEW k \in Conv, NEW x, Holds(k, x), Release(k)
    PROVE  LockTypes' /\ \A c \in Conv \ {k} : lock'[c] = lock[c]
<1>1. lock[k] \in Seq(Waiters(k)) /\ lock[k] # <<>>
  BY DEF LockTypes, Holds
<1>2. Tail(lock[k]) \in Seq(Waiters(k))
  BY <1>1, HeadTailProperties
<1> QED BY <1>2 DEF Release, LockTypes

\* An attempt is joined or started; the others go on.
LEMMA AttemptFacts ==
    ASSUME TaskTypes, NEW j \in Job, NEW locks \in BOOLEAN, Attempt(j, locks)
    PROVE  /\ attempt' \in [Job -> [phase : Phases, locks : BOOLEAN]]
           /\ \/ attempt'[j] = attempt[j]
              \/ /\ attempt[j].phase = "none" /\ attempt'[j].phase = "read"
                 /\ attempt'[j].locks = locks
           /\ attempt'[j].phase # "none"
           /\ \A i \in Job \ {j} : attempt'[i] = attempt[i]
<1> DEFINE started == [phase |-> "read", locks |-> locks]
<1>1. /\ started \in [phase : Phases, locks : BOOLEAN]
      /\ started.phase = "read" /\ started.locks = locks
  BY DEF Phases
<1> HIDE DEF started
<1>2. CASE attempt[j].phase # "none"
  <2>1. attempt' = attempt
    BY <1>2 DEF Attempt
  <2>2. attempt' \in [Job -> [phase : Phases, locks : BOOLEAN]]
    BY <2>1 DEF TaskTypes
  <2> QED BY <1>2, <2>1, <2>2
<1>3. CASE attempt[j].phase = "none"
  <2>1. attempt' = [attempt EXCEPT ![j] = started]
    BY <1>3 DEF Attempt, started
  <2>2. attempt'[j] = started /\ \A i \in Job \ {j} : attempt'[i] = attempt[i]
    BY <2>1 DEF TaskTypes
  <2>3. attempt' \in [Job -> [phase : Phases, locks : BOOLEAN]]
    BY <1>1, <2>1 DEF TaskTypes
  <2> QED BY <1>1, <1>3, <2>2, <2>3
<1> QED BY <1>2, <1>3

\* Only the attempt that moves changes, and only its phase.
LEMMA AttemptAtFacts ==
    ASSUME TaskTypes, NEW j \in Job, NEW phase \in Phases, AttemptAt(j, phase)
    PROVE  /\ attempt' \in [Job -> [phase : Phases, locks : BOOLEAN]]
           /\ attempt'[j].phase = phase /\ attempt'[j].locks = attempt[j].locks
           /\ \A i \in Job \ {j} : attempt'[i] = attempt[i]
<1>1. attempt[j] \in [phase : Phases, locks : BOOLEAN]
  BY DEF TaskTypes
<1>2. attempt'[j] = [attempt[j] EXCEPT !.phase = phase]
  BY DEF AttemptAt, TaskTypes
<1>3. \A i \in Job \ {j} : attempt'[i] = attempt[i]
  BY DEF AttemptAt, TaskTypes
<1>4. /\ attempt'[j] \in [phase : Phases, locks : BOOLEAN]
      /\ attempt'[j].phase = phase /\ attempt'[j].locks = attempt[j].locks
  BY <1>1, <1>2
<1> QED BY <1>3, <1>4 DEF AttemptAt, TaskTypes

\* An attempt that settles answers those who wait for it, and no others.
LEMMA SettleFacts ==
    ASSUME TaskTypes, NEW j \in Job, NEW answer \in Answers \ {"none"}, Settle(j, answer)
    PROVE  /\ attempt' \in [Job -> [phase : Phases, locks : BOOLEAN]]
           /\ attempt'[j].phase = "none" /\ ~attempt'[j].locks
           /\ \A i \in Job \ {j} : attempt'[i] = attempt[i]
           /\ flow' \in [Conv -> Flows]
           /\ \A k \in Conv :
                 /\ flow'[k].phase = flow[k].phase /\ flow'[k].job = flow[k].job
                 /\ flow'[k].session = flow[k].session
                 /\ \/ flow'[k].answer = flow[k].answer
                    \/ FlowWaits(k) /\ flow[k].job = j /\ flow'[k].answer = answer
           /\ worker' \in [Slot \X Job -> {"idle", "lock", "waiting", "answered", "threw"}]
           /\ \A n \in Slot, i \in Job :
                 \/ worker'[<<n, i>>] = worker[<<n, i>>]
                 \/ /\ i = j /\ worker[<<n, i>>] = "waiting"
                    /\ worker'[<<n, i>>] \in {"answered", "threw"}
<1>1. NoAttempt \in [phase : Phases, locks : BOOLEAN] /\ NoAttempt.phase = "none" /\ ~NoAttempt.locks
  BY DEF NoAttempt, Phases
<1>2. attempt' = [attempt EXCEPT ![j] = NoAttempt]
  BY DEF Settle
<1>3. \A k \in Conv :
         \/ flow'[k] = flow[k]
         \/ FlowWaits(k) /\ flow[k].job = j /\ flow'[k] = [flow[k] EXCEPT !.answer = answer]
  BY DEF Settle, FlowWaits
<1>4. ASSUME NEW k \in Conv
      PROVE  /\ flow'[k] \in Flows
             /\ flow'[k].phase = flow[k].phase /\ flow'[k].job = flow[k].job
             /\ flow'[k].session = flow[k].session
             /\ \/ flow'[k].answer = flow[k].answer
                \/ FlowWaits(k) /\ flow[k].job = j /\ flow'[k].answer = answer
  <2>1. flow[k] \in Flows
    BY DEF TaskTypes
  <2>2. CASE flow'[k] = flow[k]
    BY <2>1, <2>2
  <2>3. CASE /\ FlowWaits(k) /\ flow[k].job = j
             /\ flow'[k] = [flow[k] EXCEPT !.answer = answer]
    BY <2>1, <2>3 DEF Flows
  <2> QED BY <1>3, <2>2, <2>3
<1>5. \A n \in Slot, i \in Job :
         worker'[<<n, i>>] = IF i = j /\ worker[<<n, i>>] = "waiting"
                             THEN IF answer = "threw" THEN "threw" ELSE "answered"
                             ELSE worker[<<n, i>>]
  BY DEF Settle
<1>6. worker' \in [Slot \X Job -> {"idle", "lock", "waiting", "answered", "threw"}]
  BY DEF Settle, TaskTypes
<1>7. flow' \in [Conv -> Flows]
  BY <1>4 DEF Settle
<1>8. /\ attempt' \in [Job -> [phase : Phases, locks : BOOLEAN]]
      /\ attempt'[j].phase = "none" /\ ~attempt'[j].locks
      /\ \A i \in Job \ {j} : attempt'[i] = attempt[i]
  BY <1>1, <1>2 DEF TaskTypes
<1> QED BY <1>4, <1>5, <1>6, <1>7, <1>8

-------------------------------------------------------------------------------
(****************************** The wake loop ********************************)

LEMMA WakeFacts ==
    ASSUME SchedulerTypes, Wake
    PROVE  /\ loop' \in {"off", "query", "list", "sweep"} /\ sweep' \in Slot
           /\ processed' \in BOOLEAN /\ wake' \in BOOLEAN /\ timer' \in {"off", "retry"}
           /\ loop' # "off"
BY DEF SchedulerTypes, Wake

\* When the loop ends it is off, or a wake-up has started it again.
LEMMA LoopEndsFacts ==
    ASSUME SchedulerTypes, NEW armed \in {"off", "retry"}, LoopEnds(armed)
    PROVE  /\ loop' \in {"off", "query", "list", "sweep"}
           /\ processed' \in BOOLEAN /\ wake' \in BOOLEAN /\ timer' \in {"off", "retry"}
           /\ loop' # "off" \/ timer' = armed
BY DEF SchedulerTypes, LoopEnds, Again

\* There are finitely many jobs.
LEMMA JobsAreFinite == IsFiniteSet(Job)
<1> DEFINE jobsOf == [s \in Session |-> {s} \X (1 .. MaxEnqueue[s])]
           images == {jobsOf[s] : s \in Session}
<1>1. jobsOf \in Surjection(Session, images)
  BY DEF Surjection
<1>2. IsFiniteSet(images)
  BY <1>1, FS_Surjection, SessionAssumption
<1>3. ASSUME NEW T \in images PROVE IsFiniteSet(T)
  <2>1. PICK s \in Session : T = {s} \X (1 .. MaxEnqueue[s])
    BY <1>3
  <2>2. IsFiniteSet({s})
    BY FS_Singleton
  <2>3. 1 \in Int /\ MaxEnqueue[s] \in Int
    BY LimitAssumption
  <2>4. IsFiniteSet(1 .. MaxEnqueue[s])
    BY <2>3, FS_Interval
  <2> QED BY <2>1, <2>2, <2>4, FS_Product
<1> HIDE DEF images
<1>4. IsFiniteSet(UNION images)
  BY <1>2, <1>3, FS_UNION
<1> QED BY <1>4 DEF Job, images

-------------------------------------------------------------------------------
(*********************** Rows, attempts and answers **************************)

LEMMA RowInit == Init => RowInv
<1> SUFFICES ASSUME Init PROVE RowInv
  OBVIOUS
<1>1. Rest \in Flows /\ NoAttempt \in [phase : Phases, locks : BOOLEAN]
  BY DEF Rest, Flows, Answers, NoAttempt, Phases
<1>2. /\ Rest.phase = "idle" /\ Rest.answer = "none"
      /\ NoAttempt.phase = "none" /\ ~NoAttempt.locks
  BY DEF Rest, NoAttempt
<1>3. TaskTypes
  BY <1>1, <1>2 DEF Init, TaskTypes, FlowWaits, Idle
<1>4. SchedulerTypes
  BY DEF Init, SchedulerTypes
<1>5. OneLiveRow /\ AttemptInv /\ AnswerInv
  BY <1>2 DEF Init, OneLiveRow, LiveRow, AttemptInv, AnswerInv
<1> QED BY <1>3, <1>4, <1>5 DEF RowInv

\* An attempt moves on.
LEMMA AttemptMoves ==
    ASSUME RowInv, NEW j \in Job, NEW phase \in Phases, AttemptAt(j, phase),
           phase \notin {"none", "read"} => row[j] = "due",
           phase \in {"runtime", "lock"} => attempt[j].locks,
           phase = "complete" => j \in resolved',
           resolved \subseteq resolved', resolved' \subseteq Job,
           UNCHANGED <<row, gone, flow, worker>>
    PROVE  TaskTypes' /\ OneLiveRow' /\ AttemptInv' /\ AnswerInv'
<1> USE AttemptAtFacts DEF RowInv
<1>1. TaskTypes' /\ OneLiveRow'
  BY DEF TaskTypes, OneLiveRow, LiveRow, FlowWaits
<1>2. AttemptInv'
  BY DEF AttemptInv
<1>3. AnswerInv'
  BY DEF AnswerInv, FlowWaits
<1> QED BY <1>1, <1>2, <1>3

\* An attempt is over.
LEMMA AttemptSettles ==
    ASSUME RowInv, NEW j \in Job, NEW answer \in Answers \ {"none"}, Settle(j, answer),
           row' \in [Job -> {"unborn", "due", "deferred", "done"}],
           \A i \in Job \ {j} : row'[i] = row[i],
           LiveRow(j)' => LiveRow(j),
           answer = "ok" \/ row'[j] = "done" => j \in resolved,
           UNCHANGED <<resolved, gone>>
    PROVE  TaskTypes' /\ OneLiveRow' /\ AttemptInv' /\ AnswerInv'
<1> USE DEF RowInv
<1>1. TaskTypes'
  <2>1. /\ attempt' \in [Job -> [phase : Phases, locks : BOOLEAN]]
        /\ flow' \in [Conv -> Flows]
        /\ worker' \in [Slot \X Job -> {"idle", "lock", "waiting", "answered", "threw"}]
    BY SettleFacts
  <2>2. ASSUME NEW k \in Conv, FlowWaits(k)'
        PROVE  flow'[k].job \in Job
    <3>1. flow'[k].phase = flow[k].phase /\ flow'[k].job = flow[k].job
      BY SettleFacts
    <3> QED BY <2>2, <3>1 DEF TaskTypes, FlowWaits
  <2>3. /\ row' \in [Job -> {"unborn", "due", "deferred", "done"}]
        /\ resolved' \subseteq Job /\ gone' \subseteq Conv
    BY DEF TaskTypes
  <2> QED BY <2>1, <2>2, <2>3 DEF TaskTypes
<1>2. OneLiveRow'
  BY DEF OneLiveRow, LiveRow
<1>3. AttemptInv'
  BY SettleFacts DEF AttemptInv
<1>4. ASSUME NEW i \in Job, attempt'[i].phase = "complete" \/ row'[i] = "done"
      PROVE  i \in resolved
  BY <1>4, SettleFacts DEF AnswerInv
<1>5. ASSUME NEW k \in Conv
      PROVE  /\ flow'[k].answer # "none" => FlowWaits(k)'
             /\ flow'[k].answer = "ok" => flow'[k].job \in resolved
  BY SettleFacts DEF AnswerInv, FlowWaits
<1> QED BY <1>1, <1>2, <1>3, <1>4, <1>5 DEF AnswerInv

\* A step of an attempt: it reads its row before it relies on it.
LEMMA RowsAttemptStep ==
    ASSUME RowInv, NEW j \in Job, AttemptStep(j)
    PROVE  RowInv'
<1> USE DEF durable, scheduler
<1>0. attempt[j].phase \in Phases /\ attempt[j].locks \in BOOLEAN /\ KeyOf(j) \in Conv
  BY JobParts DEF RowInv, TaskTypes
<1>1. ASSUME AttemptReads(j), row[j] = "due"
      PROVE  TaskTypes' /\ OneLiveRow' /\ AttemptInv' /\ AnswerInv'
  <2> DEFINE phase == IF attempt[j].locks THEN "runtime" ELSE "operate"
  <2>1. phase \in Phases \ {"none", "read", "complete", "lock"}
    BY DEF Phases
  <2>2. phase = "runtime" => attempt[j].locks
    BY <1>0
  <2>3. AttemptAt(j, phase) /\ UNCHANGED <<row, resolved, gone, flow, worker>>
    BY <1>1 DEF AttemptReads
  <2> HIDE DEF phase
  <2> QED BY <1>1, <2>1, <2>2, <2>3, AttemptMoves DEF RowInv, TaskTypes
<1>2. ASSUME AttemptReads(j), row[j] # "due"
      PROVE  TaskTypes' /\ OneLiveRow' /\ AttemptInv' /\ AnswerInv'
  <2> DEFINE answer == IF row[j] = "done" THEN "ok" ELSE "deferred"
  <2>1. answer \in Answers \ {"none"} /\ (answer = "ok" => row[j] = "done")
    BY DEF Answers
  <2>2. Settle(j, answer) /\ UNCHANGED <<row, resolved, gone>>
    BY <1>2 DEF AttemptReads
  <2> HIDE DEF answer
  <2>3. row[j] = "done" => j \in resolved
    BY DEF RowInv, AnswerInv
  <2> QED BY <2>1, <2>2, <2>3, AttemptSettles DEF RowInv, TaskTypes, LiveRow
<1>3. ASSUME AttemptReads(j) PROVE RowInv'
  BY <1>1, <1>2, <1>3 DEF AttemptReads, RowInv, SchedulerTypes
<1>4. ASSUME OperationWaits(j) PROVE RowInv'
  <2>1. TaskTypes' /\ OneLiveRow' /\ AttemptInv' /\ AnswerInv'
    BY <1>0, <1>4, AttemptMoves DEF OperationWaits, RowInv, AttemptInv, TaskTypes, Phases
  <2> QED BY <1>4, <2>1 DEF OperationWaits, RowInv, SchedulerTypes
<1>5. ASSUME OperationEnters(j) PROVE RowInv'
  <2>1. TaskTypes' /\ OneLiveRow' /\ AttemptInv' /\ AnswerInv'
    BY <1>0, <1>5, AttemptMoves DEF OperationEnters, RowInv, AttemptInv, TaskTypes, Phases
  <2> QED BY <1>5, <2>1 DEF OperationEnters, RowInv, SchedulerTypes
<1>6. ASSUME OperationResolves(j) PROVE RowInv'
  <2>1. row[j] = "due" /\ j \in resolved' /\ resolved \subseteq resolved' /\ resolved' \subseteq Job
    BY <1>6 DEF OperationResolves, RowInv, AttemptInv, TaskTypes
  <2>2. TaskTypes' /\ OneLiveRow' /\ AttemptInv' /\ AnswerInv'
    BY <1>6, <2>1, AttemptMoves DEF OperationResolves, Phases
  <2> QED BY <1>6, <2>2 DEF OperationResolves, RowInv, SchedulerTypes
<1>7. ASSUME OperationFails(j) PROVE RowInv'
  <2>1. TaskTypes' /\ OneLiveRow' /\ AttemptInv' /\ AnswerInv'
    BY <1>7, AttemptMoves DEF OperationFails, Phases, RowInv, AttemptInv, TaskTypes
  <2> QED BY <1>7, <2>1 DEF OperationFails, RowInv, SchedulerTypes
<1>8. ASSUME Complete(j) PROVE RowInv'
  <2>1. j \in resolved /\ "ok" \in Answers \ {"none"}
    BY <1>8 DEF Complete, RowInv, AnswerInv, Answers
  <2>2. /\ row' \in [Job -> {"unborn", "due", "deferred", "done"}]
        /\ row'[j] = "done" /\ \A i \in Job \ {j} : row'[i] = row[i]
    BY <1>8 DEF Complete, RowInv, TaskTypes
  <2>3. Settle(j, "ok") /\ UNCHANGED <<resolved, gone>>
    BY <1>8 DEF Complete
  <2>4. TaskTypes' /\ OneLiveRow' /\ AttemptInv' /\ AnswerInv'
    BY <2>1, <2>2, <2>3, AttemptSettles DEF LiveRow
  <2> QED BY <1>8, <2>4, WakeFacts DEF Complete, RowInv, SchedulerTypes
<1>9. ASSUME CompleteFails(j) PROVE RowInv'
  <2>1. TaskTypes' /\ OneLiveRow' /\ AttemptInv' /\ AnswerInv'
    BY <1>9, AttemptMoves DEF CompleteFails, Phases, RowInv, AttemptInv, TaskTypes
  <2> QED BY <1>9, <2>1 DEF CompleteFails, RowInv, SchedulerTypes
<1>10. ASSUME Defer(j) PROVE RowInv'
  <2>1. row[j] = "due" /\ "failed" \in Answers \ {"none"}
    BY <1>10 DEF Defer, RowInv, AttemptInv, Answers
  <2>2. /\ row' \in [Job -> {"unborn", "due", "deferred", "done"}]
        /\ row'[j] = "deferred" /\ \A i \in Job \ {j} : row'[i] = row[i]
    BY <1>10 DEF Defer, RowInv, TaskTypes
  <2>3. Settle(j, "failed") /\ UNCHANGED <<resolved, gone>>
    BY <1>10 DEF Defer
  <2>4. TaskTypes' /\ OneLiveRow' /\ AttemptInv' /\ AnswerInv'
    BY <2>1, <2>2, <2>3, AttemptSettles DEF LiveRow
  <2> QED BY <1>10, <2>4, WakeFacts DEF Defer, RowInv, SchedulerTypes
<1>11. ASSUME AttemptRejects(j) PROVE RowInv'
  <2>1. "threw" \in Answers \ {"none"} /\ row[j] \in {"unborn", "due", "deferred", "done"}
    BY DEF Answers, RowInv, TaskTypes
  <2>2. Settle(j, "threw") /\ UNCHANGED <<row, resolved, gone>>
    BY <1>11 DEF AttemptRejects
  <2>3. row[j] = "done" => j \in resolved
    BY DEF RowInv, AnswerInv
  <2>4. TaskTypes' /\ OneLiveRow' /\ AttemptInv' /\ AnswerInv'
    BY <2>1, <2>2, <2>3, AttemptSettles DEF LiveRow, RowInv, TaskTypes
  <2> QED BY <1>11, <2>4 DEF AttemptRejects, RowInv, SchedulerTypes
<1> QED BY <1>3, <1>4, <1>5, <1>6, <1>7, <1>8, <1>9, <1>10, <1>11 DEF AttemptStep

\* A flow moves on, without an answer.
LEMMA FlowMoves ==
    ASSUME RowInv, NEW k \in Conv, NEW f \in Flows, f.answer = "none",
           f.phase \in {"waiting", "deleteWaiting"} => f.job \in Job,
           flow' = [flow EXCEPT ![k] = f], UNCHANGED resolved
    PROVE  /\ flow' \in [Conv -> Flows]
           /\ \A c \in Conv :
                 /\ FlowWaits(c)' => flow'[c].job \in Job
                 /\ flow'[c].answer # "none" => FlowWaits(c)'
                 /\ flow'[c].answer = "ok" => flow'[c].job \in resolved'
<1>1. flow'[k] = f /\ \A c \in Conv \ {k} : flow'[c] = flow[c]
  BY DEF RowInv, TaskTypes
<1>2. flow' \in [Conv -> Flows]
  BY DEF RowInv, TaskTypes
<1>3. ASSUME NEW c \in Conv
      PROVE  /\ FlowWaits(c)' => flow'[c].job \in Job
             /\ flow'[c].answer # "none" => FlowWaits(c)'
             /\ flow'[c].answer = "ok" => flow'[c].job \in resolved'
  <2>1. CASE c = k
    BY <1>1, <2>1 DEF FlowWaits
  <2>2. CASE c # k
    BY <1>1, <2>2 DEF FlowWaits, RowInv, TaskTypes, AnswerInv
  <2> QED BY <2>1, <2>2
<1> QED BY <1>2, <1>3

\* Jobs are enqueued, and perhaps attempts started.
LEMMA RowsPersist ==
    ASSUME RowInv, NEW S \in SUBSET Session, \A s \in S : Enqueuable(s), row' = Persisted(S),
           \A j \in Job : \/ attempt'[j] = attempt[j]
                          \/ /\ attempt'[j].phase \in {"none", "read"}
                             /\ attempt'[j].locks => j[1] \in Claude,
           UNCHANGED resolved
    PROVE  /\ row' \in [Job -> {"unborn", "due", "deferred", "done"}]
           /\ OneLiveRow' /\ AttemptInv'
           /\ \A j \in Job : attempt'[j].phase = "complete" \/ row'[j] = "done" => j \in resolved'
<1>1. /\ row' \in [Job -> {"unborn", "due", "deferred", "done"}] /\ OneLiveRow'
      /\ \A j \in Job : row'[j] = row[j] \/ (row[j] = "unborn" /\ row'[j] = "due")
  BY PersistedFacts DEF RowInv
<1>2. AttemptInv'
  BY <1>1 DEF AttemptInv, RowInv
<1>3. \A j \in Job : attempt'[j].phase = "complete" \/ row'[j] = "done" => j \in resolved'
  BY <1>1 DEF AnswerInv, RowInv
<1> QED BY <1>1, <1>2, <1>3

\* A flow at rest has the type of a flow.
LEMMA RestFacts == Rest \in Flows /\ Rest.phase = "idle" /\ Rest.answer = "none"
BY DEF Rest, Flows, Answers

\* So has a flow that has chosen its session, and one that only moves on.
LEMMA FlowPosts ==
    ASSUME NEW r \in Flows, NEW s \in Session, NEW phase \in {"post", "turnCall"}
    PROVE  LET f == [r EXCEPT !.phase = phase, !.session = s]
           IN  f \in Flows /\ f.answer = r.answer /\ f.phase = phase
BY DEF Flows

LEMMA FlowGoesOn ==
    ASSUME NEW r \in Flows, NEW phase \in {"lock", "deleteLock", "callLock", "call"}
    PROVE  LET f == [r EXCEPT !.phase = phase]
           IN  /\ f \in Flows /\ f.answer = r.answer /\ f.phase = phase
               /\ f.session = r.session
BY DEF Flows

\* And one that waits for an attempt outside the lock.
LEMMA FlowWaitsFor ==
    ASSUME NEW r \in Flows, NEW j \in Job
    PROVE  LET f == [r EXCEPT !.phase = "deleteWaiting", !.job = j]
           IN  f \in Flows /\ f.answer = r.answer /\ f.job = j
BY DEF Flows

\* A step of a flow: it is told "ok" only by an attempt, or by a row that is
\* done.
LEMMA RowsFlowStep ==
    ASSUME RowInv, NEW k \in Conv, StartTurnFlow(k) \/ StartDeletion(k) \/ FlowStep(k)
    PROVE  RowInv'
<1> USE DEF durable, scheduler
<1>0. flow[k] \in Flows
  BY DEF RowInv, TaskTypes
\* The flow only moves on.
<1>1. ASSUME NEW f \in Flows, f.answer = "none", f.phase \notin {"waiting", "deleteWaiting"},
             flow' = [flow EXCEPT ![k] = f],
             UNCHANGED <<row, resolved, gone, attempt, worker, loop, sweep, processed,
                         wake, timer>>,
             notice' \in BOOLEAN
      PROVE  RowInv'
  <2>1. /\ flow' \in [Conv -> Flows]
        /\ \A c \in Conv :
              /\ FlowWaits(c)' => flow'[c].job \in Job
              /\ flow'[c].answer # "none" => FlowWaits(c)'
              /\ flow'[c].answer = "ok" => flow'[c].job \in resolved'
    BY <1>1, FlowMoves
  <2> QED BY <1>1, <2>1 DEF RowInv, TaskTypes, SchedulerTypes, OneLiveRow, LiveRow,
                            AttemptInv, AnswerInv
<1>2. ASSUME NEW phase \in {"lock", "deleteLock", "callLock", "call"}, FlowAt(k, phase),
             flow[k].answer = "none",
             UNCHANGED <<row, resolved, gone, attempt, worker, loop, sweep, processed,
                         wake, timer, notice>>
      PROVE  RowInv'
  <2> DEFINE f == [flow[k] EXCEPT !.phase = phase]
  <2>1. f \in Flows /\ f.answer = "none" /\ f.phase = phase
    BY <1>0, <1>2, FlowGoesOn
  <2>2. flow' = [flow EXCEPT ![k] = f]
    BY <1>2, Zenon DEF FlowAt
  <2>3. notice' \in BOOLEAN
    BY <1>2 DEF RowInv, SchedulerTypes
  <2> HIDE DEF f
  <2> QED BY <1>1, <1>2, <2>1, <2>2, <2>3
<1>3. ASSUME TurnFlowAttempts(k) PROVE RowInv'
  <2>1. PICK s \in Session :
           /\ SessionOf[s] = k /\ Enqueuable(s)
           /\ row' = Persisted({s})
           /\ Attempt(JobFor(s), FALSE)
           /\ flow' = [flow EXCEPT ![k] =
                 [phase |-> "waiting", session |-> s, job |-> JobFor(s), answer |-> "none"]]
    BY <1>3 DEF TurnFlowAttempts
  <2>2. JobFor(s) \in Job
    BY <2>1, JobForFacts
  <2> DEFINE f == [phase |-> "waiting", session |-> s, job |-> JobFor(s), answer |-> "none"]
  <2>3. f \in Flows /\ f.answer = "none" /\ f.job \in Job
    BY <2>2 DEF Flows, Answers
  <2>4. flow' = [flow EXCEPT ![k] = f] /\ UNCHANGED resolved
    BY <1>3, <2>1 DEF TurnFlowAttempts
  <2> HIDE DEF f
  <2>5. /\ flow' \in [Conv -> Flows]
        /\ \A c \in Conv :
              /\ FlowWaits(c)' => flow'[c].job \in Job
              /\ flow'[c].answer # "none" => FlowWaits(c)'
              /\ flow'[c].answer = "ok" => flow'[c].job \in resolved'
    BY <2>3, <2>4, FlowMoves
  <2>6. /\ attempt' \in [Job -> [phase : Phases, locks : BOOLEAN]]
        /\ \A j \in Job : \/ attempt'[j] = attempt[j]
                          \/ attempt'[j].phase = "read" /\ ~attempt'[j].locks
    BY <2>1, <2>2, AttemptFacts DEF RowInv
  <2>7. {s} \in SUBSET Session /\ \A x \in {s} : Enqueuable(x)
    BY <2>1
  <2>8. /\ row' \in [Job -> {"unborn", "due", "deferred", "done"}]
        /\ OneLiveRow' /\ AttemptInv'
        /\ \A j \in Job : attempt'[j].phase = "complete" \/ row'[j] = "done" => j \in resolved'
    BY <2>1, <2>4, <2>6, <2>7, RowsPersist
  <2>9. TaskTypes' /\ AnswerInv'
    BY <1>3, <2>4, <2>5, <2>6, <2>8 DEF TurnFlowAttempts, RowInv, TaskTypes, AnswerInv
  <2>10. SchedulerTypes'
    BY <1>3 DEF TurnFlowAttempts, RowInv, SchedulerTypes
  <2> QED BY <2>8, <2>9, <2>10 DEF RowInv
<1>4. ASSUME DeleteRows(k) PROVE RowInv'
  <2>1. PICK s \in Session, S \in SUBSET {x \in Session : SessionOf[x] = k} :
           /\ s \in S /\ \A x \in S : Enqueuable(x)
           /\ row' = Persisted(S)
           /\ flow' = [flow EXCEPT ![k] = [@ EXCEPT !.phase = "post", !.session = s]]
    BY <1>4 DEF DeleteRows
  <2> DEFINE f == [flow[k] EXCEPT !.phase = "post", !.session = s]
  <2>2. flow[k].answer = "none"
    BY <1>4 DEF DeleteRows, RowInv, AnswerInv, FlowWaits
  <2>3. f \in Flows /\ f.answer = "none" /\ f.phase = "post"
    BY <1>0, <2>2, FlowPosts, Zenon
  <2>4. flow' = [flow EXCEPT ![k] = f] /\ UNCHANGED resolved
    BY <1>4, <2>1, Zenon DEF DeleteRows
  <2> HIDE DEF f
  <2>5. /\ flow' \in [Conv -> Flows]
        /\ \A c \in Conv :
              /\ FlowWaits(c)' => flow'[c].job \in Job
              /\ flow'[c].answer # "none" => FlowWaits(c)'
              /\ flow'[c].answer = "ok" => flow'[c].job \in resolved'
    BY <2>3, <2>4, FlowMoves
  <2>6. S \in SUBSET Session /\ UNCHANGED <<attempt, worker>>
    BY <1>4 DEF DeleteRows
  <2>7. row' = Persisted(S) /\ \A x \in S : Enqueuable(x)
    BY <2>1, Zenon
  <2>8. UNCHANGED resolved /\ \A j \in Job : attempt'[j] = attempt[j]
    BY <2>4, <2>6
  <2>9. /\ row' \in [Job -> {"unborn", "due", "deferred", "done"}]
        /\ OneLiveRow' /\ AttemptInv'
        /\ \A j \in Job : attempt'[j].phase = "complete" \/ row'[j] = "done" => j \in resolved'
    BY <2>6, <2>7, <2>8, RowsPersist
  <2>10. TaskTypes' /\ AnswerInv'
    BY <1>4, <2>4, <2>5, <2>6, <2>9 DEF DeleteRows, RowInv, TaskTypes, AnswerInv
  <2>11. SchedulerTypes'
    BY <1>4 DEF DeleteRows, RowInv, SchedulerTypes
  <2> QED BY <2>9, <2>10, <2>11 DEF RowInv
<1>5. ASSUME DeletionAttempts(k) PROVE RowInv'
  <2> DEFINE s == flow[k].session
             f == [flow[k] EXCEPT !.phase = "deleteWaiting", !.job = JobFor(s)]
  <2>1. /\ Enqueuable(s) /\ row' = Persisted({s}) /\ UNCHANGED resolved
        /\ Attempt(JobFor(s), s \in Claude)
    BY <1>5 DEF DeletionAttempts
  <2>2. flow' = [flow EXCEPT ![k] = f]
    BY <1>5, Zenon DEF DeletionAttempts
  <2>3. s \in Session /\ JobFor(s) \in Job /\ JobFor(s)[1] = s
    BY <2>1, JobForFacts
  <2>4. flow[k].answer = "none"
    BY <1>5 DEF DeletionAttempts, RowInv, AnswerInv, FlowWaits
  <2>5. f \in Flows /\ f.answer = "none" /\ f.job \in Job
    BY <1>0, <2>3, <2>4, FlowWaitsFor, Zenon
  <2> HIDE DEF f, s
  <2>6. /\ flow' \in [Conv -> Flows]
        /\ \A c \in Conv :
              /\ FlowWaits(c)' => flow'[c].job \in Job
              /\ flow'[c].answer # "none" => FlowWaits(c)'
              /\ flow'[c].answer = "ok" => flow'[c].job \in resolved'
    BY <2>1, <2>5, <2>2, FlowMoves
  <2>7. PICK locks \in BOOLEAN : Attempt(JobFor(s), locks) /\ (locks => s \in Claude)
    <3>1. CASE s \in Claude
      <4>1. Attempt(JobFor(s), TRUE)
        BY <2>1, <3>1 DEF Attempt
      <4> QED BY <3>1, <4>1
    <3>2. CASE s \notin Claude
      <4>1. (s \in Claude) = FALSE
        BY <3>2
      <4>2. Attempt(JobFor(s), FALSE)
        BY <2>1, <4>1, Zenon
      <4> QED BY <4>2
    <3> QED BY <3>1, <3>2
  <2>8. /\ attempt' \in [Job -> [phase : Phases, locks : BOOLEAN]]
        /\ \A j \in Job : \/ attempt'[j] = attempt[j]
                          \/ attempt'[j].phase = "read" /\ (attempt'[j].locks => j[1] \in Claude)
    BY <2>3, <2>7, AttemptFacts DEF RowInv
  <2>9. {s} \in SUBSET Session /\ \A x \in {s} : Enqueuable(x)
    BY <2>1, <2>3
  <2>10. /\ row' \in [Job -> {"unborn", "due", "deferred", "done"}]
        /\ OneLiveRow' /\ AttemptInv'
        /\ \A j \in Job : attempt'[j].phase = "complete" \/ row'[j] = "done" => j \in resolved'
    BY <2>1, <2>8, <2>9, RowsPersist
  <2>11. UNCHANGED <<gone, worker>>
    BY <1>5 DEF DeletionAttempts
  <2>12. TaskTypes' /\ AnswerInv'
    BY <2>1, <2>6, <2>11, <2>8, <2>10 DEF RowInv, TaskTypes, AnswerInv
  <2>13. SchedulerTypes'
    BY <1>5 DEF DeletionAttempts, RowInv, SchedulerTypes
  <2> QED BY <2>10, <2>13, <2>12 DEF RowInv
<1>6. ASSUME \/ StartTurnFlow(k) \/ StartDeletion(k) \/ DeletionAsksForLock(k) \/ DeletionCalls(k)
      PROVE  RowInv'
  <2>1. flow[k].answer = "none"
    BY <1>6, RestFacts DEF StartTurnFlow, StartDeletion, DeletionAsksForLock, DeletionCalls,
                           RowInv, AnswerInv, FlowWaits
  <2> QED BY <1>2, <1>6, <2>1 DEF StartTurnFlow, StartDeletion, DeletionAsksForLock,
                                  DeletionCalls
<1>7. ASSUME \/ TurnFlowGivesUp(k) \/ TurnFlowEnds(k) \/ DeleteRowsFails(k)
             \/ DeletionEnds(k) \/ DeletionCallEnds(k)
      PROVE  RowInv'
  <2>1. notice' \in BOOLEAN
    BY <1>7 DEF TurnFlowGivesUp, TurnFlowEnds, DeleteRowsFails, DeletionEnds,
                DeletionCallEnds, RowInv, SchedulerTypes
  <2> QED BY <1>1, <1>7, <2>1, RestFacts
       DEF TurnFlowGivesUp, TurnFlowEnds, DeleteRowsFails, DeletionEnds, DeletionCallEnds
<1>8. ASSUME TurnFlowCalls(k) PROVE RowInv'
  <2>1. PICK s \in Claude :
           flow' = [flow EXCEPT ![k] = [@ EXCEPT !.phase = "turnCall", !.session = s]]
    BY <1>8 DEF TurnFlowCalls
  <2> DEFINE f == [flow[k] EXCEPT !.phase = "turnCall", !.session = s]
  <2>2. flow[k].answer = "none"
    BY <1>8 DEF TurnFlowCalls, RowInv, AnswerInv, FlowWaits
  <2>3. s \in Session
    BY SessionAssumption
  <2>4. f \in Flows /\ f.answer = "none" /\ f.phase = "turnCall"
    BY <1>0, <2>2, <2>3, FlowPosts, Zenon
  <2>5. flow' = [flow EXCEPT ![k] = f]
    BY <2>1, Zenon
  <2>6. notice' \in BOOLEAN
    BY <1>8 DEF TurnFlowCalls, RowInv, SchedulerTypes
  <2> HIDE DEF f
  <2> QED BY <1>1, <1>8, <2>4, <2>5, <2>6 DEF TurnFlowCalls
<1> QED BY <1>3, <1>4, <1>5, <1>6, <1>7, <1>8 DEF FlowStep

\* A step of a worker of the sweep.
LEMMA RowsWorkerStep ==
    ASSUME RowInv, NEW n \in Slot, NEW j \in Job, WorkerStep(n, j)
    PROVE  RowInv'
<1> USE DEF durable, scheduler
<1>1. ASSUME WorkerAttempts(n, j) PROVE RowInv'
  <2>1. /\ attempt' \in [Job -> [phase : Phases, locks : BOOLEAN]]
        /\ \A i \in Job : \/ attempt'[i] = attempt[i]
                          \/ attempt'[i].phase = "read" /\ ~attempt'[i].locks
    BY <1>1, AttemptFacts DEF WorkerAttempts, RowInv
  <2>2. TaskTypes'
    BY <1>1, <2>1 DEF WorkerAttempts, RowInv, TaskTypes, FlowWaits
  <2>3. AttemptInv'
    BY <1>1, <2>1 DEF WorkerAttempts, RowInv, AttemptInv
  <2>4. AnswerInv'
    BY <1>1, <2>1 DEF WorkerAttempts, RowInv, AnswerInv, FlowWaits
  <2> QED BY <1>1, <2>2, <2>3, <2>4
       DEF WorkerAttempts, RowInv, OneLiveRow, LiveRow, SchedulerTypes
<1>2. ASSUME WorkerEnds(n, j) \/ WorkerThrows(n, j) PROVE RowInv'
  <2>1. SchedulerTypes'
    BY <1>2, LoopEndsFacts DEF WorkerEnds, WorkerThrows, RowInv, SchedulerTypes
  <2>2. TaskTypes'
    BY <1>2 DEF WorkerEnds, WorkerThrows, RowInv, TaskTypes, FlowWaits
  <2> QED BY <1>2, <2>1, <2>2 DEF WorkerEnds, WorkerThrows, RowInv, OneLiveRow, LiveRow,
                                  AttemptInv, AnswerInv, FlowWaits
<1> QED BY <1>1, <1>2 DEF WorkerStep

\* Steps that leave attempts and flows alone.
LEMMA RowsOtherStep ==
    ASSUME RowInv,
           \/ \E j \in Job : RetryDue(j)
           \/ \E s \in Session : EnqueueOnly(s)
           \/ LoopStep \/ NoticeFires \/ TimerFires
    PROVE  RowInv'
<1> USE DEF durable, tasks, scheduler
<1>1. ASSUME NEW j \in Job, RetryDue(j) PROVE RowInv'
  <2>1. /\ row' \in [Job -> {"unborn", "due", "deferred", "done"}]
        /\ row'[j] = "due" /\ \A i \in Job \ {j} : row'[i] = row[i]
    BY <1>1 DEF RetryDue, RowInv, TaskTypes
  <2>2. OneLiveRow' /\ AttemptInv' /\ AnswerInv'
    BY <1>1, <2>1 DEF RetryDue, RowInv, OneLiveRow, LiveRow, AttemptInv, AnswerInv, FlowWaits
  <2> QED BY <1>1, <2>1, <2>2 DEF RetryDue, RowInv, TaskTypes, SchedulerTypes, FlowWaits
<1>2. ASSUME NEW s \in Session, EnqueueOnly(s) PROVE RowInv'
  <2>1. {s} \in SUBSET Session /\ \A x \in {s} : Enqueuable(x)
    BY <1>2 DEF EnqueueOnly
  <2>2. row' = Persisted({s}) /\ UNCHANGED <<resolved, gone, attempt, flow, worker>>
    BY <1>2 DEF EnqueueOnly
  <2>3. /\ row' \in [Job -> {"unborn", "due", "deferred", "done"}]
        /\ OneLiveRow' /\ AttemptInv'
        /\ \A j \in Job : attempt'[j].phase = "complete" \/ row'[j] = "done" => j \in resolved'
    BY <2>1, <2>2, RowsPersist
  <2>4. TaskTypes' /\ AnswerInv'
    BY <2>2, <2>3 DEF RowInv, TaskTypes, AnswerInv, FlowWaits
  <2>5. SchedulerTypes'
    BY <1>2 DEF EnqueueOnly, RowInv, SchedulerTypes
  <2> QED BY <2>3, <2>4, <2>5 DEF RowInv
<1>3. ASSUME SchedulerTypes', UNCHANGED <<row, resolved, gone, attempt, flow>>,
             worker' \in [Slot \X Job -> {"idle", "lock", "waiting", "answered", "threw"}]
      PROVE  RowInv'
  BY <1>3 DEF RowInv, TaskTypes, OneLiveRow, LiveRow, AttemptInv, AnswerInv, FlowWaits
<1>4. ASSUME Query PROVE RowInv'
  <2>1. SchedulerTypes'
    BY <1>4, LoopEndsFacts DEF Query, Again, RowInv, SchedulerTypes
  <2> QED BY <1>3, <1>4, <2>1 DEF Query, RowInv, TaskTypes
<1>5. ASSUME QueryFails \/ ListFails \/ SweepEnds PROVE RowInv'
  <2>1. SchedulerTypes'
    BY <1>5, LoopEndsFacts DEF QueryFails, ListFails, SweepEnds, Again, RowInv, SchedulerTypes
  <2> QED BY <1>3, <1>5, <2>1 DEF QueryFails, ListFails, SweepEnds, RowInv, TaskTypes
<1>6. ASSUME List PROVE RowInv'
  <2>1. UNCHANGED <<row, resolved, gone, attempt, flow, timer, notice>>
    BY <1>6 DEF List
  <2>2. /\ SchedulerTypes'
        /\ worker' \in [Slot \X Job -> {"idle", "lock", "waiting", "answered", "threw"}]
    <3> DEFINE due == {j \in Job : row[j] = "due"}
    <3>1. CASE due = {}
      BY <1>6, <2>1, <3>1 DEF List, Again, RowInv, TaskTypes, SchedulerTypes
    <3>2. CASE due # {}
      <4>1. PICK n \in Slot :
               /\ worker' = [w \in Slot \X Job |->
                     IF w[1] = n /\ w[2] \in due THEN "lock" ELSE worker[w]]
               /\ loop' = "sweep" /\ sweep' = n /\ UNCHANGED <<wake, processed>>
        BY <1>6, <3>2, Zenon DEF List
      <4> HIDE DEF due
      <4> QED BY <2>1, <4>1 DEF RowInv, TaskTypes, SchedulerTypes
    <3> QED BY <3>1, <3>2
  <2> QED BY <1>3, <2>1, <2>2
<1>7. ASSUME NoticeFires \/ TimerFires PROVE RowInv'
  <2>1. SchedulerTypes'
    BY <1>7, WakeFacts DEF NoticeFires, TimerFires, RowInv, SchedulerTypes
  <2> QED BY <1>3, <1>7, <2>1 DEF NoticeFires, TimerFires, RowInv, TaskTypes
<1> QED BY <1>1, <1>2, <1>4, <1>5, <1>6, <1>7 DEF LoopStep

\* A crash ends all attempts and keeps rows and sessions.
LEMMA RowsCrash ==
    ASSUME RowInv, Crash
    PROVE  RowInv'
<1> USE DEF durable
<1>1. /\ NoAttempt \in [phase : Phases, locks : BOOLEAN]
      /\ NoAttempt.phase = "none" /\ ~NoAttempt.locks
  BY DEF NoAttempt, Phases
<1>2. TaskTypes'
  BY <1>1, RestFacts DEF Crash, Boot, RowInv, TaskTypes, FlowWaits, Idle
<1>3. SchedulerTypes'
  BY DEF Crash, Boot, RowInv, SchedulerTypes
<1>4. OneLiveRow' /\ AttemptInv' /\ AnswerInv'
  BY <1>1, RestFacts DEF Crash, Boot, RowInv, OneLiveRow, LiveRow, AttemptInv, AnswerInv
<1> QED BY <1>2, <1>3, <1>4 DEF RowInv

\* Every step keeps the part of the invariant that is not about locks.
LEMMA RowNext ==
    ASSUME RowInv, [Next]_vars
    PROVE  RowInv'
<1>1. CASE UNCHANGED vars
  BY <1>1 DEF vars, durable, tasks, scheduler, RowInv, TaskTypes, SchedulerTypes, OneLiveRow,
              LiveRow, AttemptInv, AnswerInv, FlowWaits
<1>2. CASE Next
  BY <1>2, RowsAttemptStep, RowsFlowStep, RowsWorkerStep, RowsOtherStep, RowsCrash DEF Next
<1> QED BY <1>1, <1>2

\* It holds in every reachable state.
LEMMA RowsAlways == Spec => []RowInv
BY RowInit, RowNext, PTL DEF Spec

\* The provider is only called for a due row, however old the list of due jobs.
THEOREM DueRows == Spec => []OperatesOnDueRow
<1>1. RowInv => OperatesOnDueRow
  BY DEF RowInv, AttemptInv, OperatesOnDueRow
<1> QED BY <1>1, RowsAlways, PTL

\* A flow is told "ok" only where an operation for its job has resolved.
THEOREM OkIsTrue == Spec => []OkMeansResolved
<1>1. RowInv => OkMeansResolved
  BY DEF RowInv, AnswerInv, OkMeansResolved
<1> QED BY <1>1, RowsAlways, PTL

-------------------------------------------------------------------------------
(**************************** No job is forgotten ****************************)

LEMMA WatchedAttemptStep ==
    ASSUME RowInv, JobsWatched, NEW j \in Job, AttemptStep(j)
    PROVE  JobsWatched'
<1> USE DEF durable, scheduler
<1>1. ASSUME UNCHANGED <<row, scheduler, notice>>,
             \A k \in Conv : flow'[k].phase = flow[k].phase
      PROVE  JobsWatched'
  BY <1>1, JobParts DEF JobsWatched, LiveRow
<1>2. ASSUME loop' # "off" PROVE JobsWatched'
  BY <1>2 DEF JobsWatched
<1>3. ASSUME NEW answer \in Answers \ {"none"}, Settle(j, answer), UNCHANGED <<row, scheduler, notice>>
      PROVE  JobsWatched'
  BY <1>1, <1>3, SettleFacts DEF RowInv
<1>4. ASSUME AttemptReads(j) PROVE JobsWatched'
  <2> DEFINE answer == IF row[j] = "done" THEN "ok" ELSE "deferred"
  <2>1. answer \in Answers \ {"none"}
    BY DEF Answers
  <2>2. UNCHANGED <<row, scheduler, notice>> /\ (UNCHANGED flow \/ Settle(j, answer))
    BY <1>4 DEF AttemptReads
  <2> HIDE DEF answer
  <2> QED BY <1>1, <1>3, <2>1, <2>2
<1>5. ASSUME \/ OperationWaits(j) \/ OperationEnters(j) \/ OperationResolves(j)
             \/ OperationFails(j) \/ CompleteFails(j)
      PROVE  JobsWatched'
  BY <1>1, <1>5 DEF OperationWaits, OperationEnters, OperationResolves, OperationFails, CompleteFails
<1>6. ASSUME Complete(j) \/ Defer(j) PROVE JobsWatched'
  BY <1>2, <1>6, WakeFacts DEF Complete, Defer, RowInv
<1>7. ASSUME AttemptRejects(j) PROVE JobsWatched'
  <2>1. "threw" \in Answers \ {"none"}
    BY DEF Answers
  <2> QED BY <1>3, <1>7, <2>1 DEF AttemptRejects
<1> QED BY <1>4, <1>5, <1>6, <1>7 DEF AttemptStep

\* A flow that leaves a row behind has woken the loop.
LEMMA WatchedFlowStep ==
    ASSUME RowInv, JobsWatched, NEW k \in Conv,
           StartTurnFlow(k) \/ StartDeletion(k) \/ FlowStep(k)
    PROVE  JobsWatched'
<1> USE DEF durable, scheduler
<1>0. flow \in [Conv -> Flows] /\ \A j \in Job : KeyOf(j) \in Conv
  BY JobParts DEF RowInv, TaskTypes
\* Outside a deletion that has its rows deleted a flow is not the watcher.
<1>1. ASSUME \/ flow[k].phase \notin {"post", "deleteWaiting", "callLock", "call"}
             \/ flow'[k].phase \in {"callLock", "call"},
             \A c \in Conv \ {k} : flow'[c] = flow[c],
             UNCHANGED <<row, scheduler, notice>>
      PROVE  JobsWatched'
  BY <1>0, <1>1 DEF JobsWatched, LiveRow
<1>2. ASSUME notice' PROVE JobsWatched'
  BY <1>2 DEF JobsWatched
<1>3. ASSUME \/ StartTurnFlow(k) \/ StartDeletion(k) \/ TurnFlowGivesUp(k)
             \/ TurnFlowEnds(k) \/ TurnFlowCalls(k) \/ DeleteRowsFails(k)
      PROVE  JobsWatched'
  <2>1. flow[k].phase \notin {"post", "deleteWaiting", "callLock", "call"}
    BY <1>3, RestFacts DEF StartTurnFlow, StartDeletion, TurnFlowGivesUp, TurnFlowEnds,
                           TurnFlowCalls, DeleteRowsFails
  <2>2. \A c \in Conv \ {k} : flow'[c] = flow[c]
    BY <1>0, <1>3 DEF StartTurnFlow, StartDeletion, TurnFlowGivesUp, TurnFlowEnds,
                      TurnFlowCalls, DeleteRowsFails, FlowAt
  <2> QED BY <1>1, <1>3, <2>1, <2>2 DEF StartTurnFlow, StartDeletion, TurnFlowGivesUp,
                                        TurnFlowEnds, TurnFlowCalls, DeleteRowsFails
<1>4. ASSUME \/ TurnFlowAttempts(k) \/ DeletionAttempts(k) \/ DeletionEnds(k)
             \/ DeletionCallEnds(k)
      PROVE  JobsWatched'
  BY <1>2, <1>4 DEF TurnFlowAttempts, DeletionAttempts, DeletionEnds, DeletionCallEnds
<1>5. ASSUME DeleteRows(k) PROVE JobsWatched'
  <2>1. PICK S \in SUBSET {x \in Session : SessionOf[x] = k} :
           (\A x \in S : Enqueuable(x)) /\ row' = Persisted(S)
    BY <1>5, Zenon DEF DeleteRows
  <2>2. \A j \in Job : \/ row'[j] = row[j]
                       \/ row[j] = "unborn" /\ row'[j] = "due" /\ j[1] \in S
    BY <2>1, PersistedFacts DEF RowInv
  <2>3. flow'[k].phase = "post" /\ \A c \in Conv \ {k} : flow'[c] = flow[c]
    BY <1>0, <1>5 DEF DeleteRows, Flows
  <2>4. \A j \in Job : j[1] \in S => KeyOf(j) = k
    BY DEF KeyOf
  <2>5. UNCHANGED <<scheduler, notice>>
    BY <1>5 DEF DeleteRows
  <2>6. ASSUME NEW j \in Job, LiveRow(j)'
        PROVE  \/ loop' # "off" \/ timer' # "off" \/ notice'
               \/ flow'[KeyOf(j)].phase \in {"post", "deleteWaiting", "callLock", "call"}
    <3>1. CASE KeyOf(j) = k
      BY <2>3, <3>1
    <3>2. CASE KeyOf(j) # k
      <4>1. LiveRow(j)
        BY <2>2, <2>4, <2>6, <3>2 DEF LiveRow
      <4> QED BY <1>0, <2>3, <2>5, <3>2, <4>1 DEF JobsWatched
    <3> QED BY <3>1, <3>2
  <2> QED BY <2>6 DEF JobsWatched, KeyOf
\* A deletion that calls directly still has its notification to send.
<1>6. ASSUME DeletionAsksForLock(k) \/ DeletionCalls(k) PROVE JobsWatched'
  <2>1. /\ flow'[k].phase \in {"callLock", "call"}
        /\ \A c \in Conv \ {k} : flow'[c] = flow[c]
    BY <1>0, <1>6 DEF DeletionAsksForLock, DeletionCalls, FlowAt, Flows
  <2> QED BY <1>1, <1>6, <2>1 DEF DeletionAsksForLock, DeletionCalls
<1> QED BY <1>3, <1>4, <1>5, <1>6 DEF FlowStep

\* The loop stops only when no row is left, or arms its timer.
LEMMA WatchedOtherStep ==
    ASSUME RowInv, JobsWatched,
           \/ \E n \in Slot, j \in Job : WorkerStep(n, j)
           \/ \E j \in Job : RetryDue(j)
           \/ \E s \in Session : EnqueueOnly(s)
           \/ LoopStep \/ NoticeFires \/ TimerFires \/ Crash \/ UNCHANGED vars
    PROVE  JobsWatched'
<1> USE DEF durable, tasks, scheduler
<1>1. ASSUME loop' # "off" \/ timer' # "off" \/ notice' PROVE JobsWatched'
  BY <1>1 DEF JobsWatched
<1>2. ASSUME UNCHANGED <<flow, scheduler, notice>>, \A j \in Job : LiveRow(j)' => LiveRow(j)
      PROVE  JobsWatched'
  BY <1>2 DEF JobsWatched, KeyOf
<1>3. ASSUME NEW n \in Slot, NEW j \in Job, WorkerStep(n, j) PROVE JobsWatched'
  <2>1. CASE WorkerAttempts(n, j) \/ WorkerEnds(n, j)
    BY <1>2, <2>1 DEF WorkerAttempts, WorkerEnds, LiveRow
  <2>2. CASE WorkerThrows(n, j) /\ loop = "sweep" /\ sweep = n
    BY <1>1, <2>2, LoopEndsFacts DEF WorkerThrows, RowInv
  <2>3. CASE WorkerThrows(n, j) /\ ~(loop = "sweep" /\ sweep = n)
    BY <1>2, <2>3 DEF WorkerThrows, LiveRow
  <2> QED BY <1>3, <2>1, <2>2, <2>3 DEF WorkerStep
<1>4. ASSUME NEW j \in Job, RetryDue(j) PROVE JobsWatched'
  BY <1>2, <1>4 DEF RetryDue, LiveRow, RowInv, TaskTypes
<1>5. ASSUME NEW s \in Session, EnqueueOnly(s) PROVE JobsWatched'
  BY <1>1, <1>5 DEF EnqueueOnly
<1>6. ASSUME LoopStep PROVE JobsWatched'
  <2>1. CASE Query /\ \A j \in Job : ~LiveRow(j)
    <3>1. UNCHANGED row
      BY <2>1 DEF Query
    <3> QED BY <2>1, <3>1 DEF JobsWatched, LiveRow
  <2>2. CASE Query /\ ~(\A j \in Job : ~LiveRow(j))
    BY <1>1, <2>2, LoopEndsFacts DEF Query, Again, RowInv
  <2>3. CASE QueryFails \/ ListFails \/ SweepEnds \/ List
    BY <1>1, <2>3, LoopEndsFacts DEF QueryFails, ListFails, SweepEnds, List, Again, RowInv
  <2> QED BY <1>6, <2>1, <2>2, <2>3 DEF LoopStep
<1>7. ASSUME NoticeFires \/ TimerFires PROVE JobsWatched'
  BY <1>1, <1>7, WakeFacts DEF NoticeFires, TimerFires, RowInv
<1>8. ASSUME Crash PROVE JobsWatched'
  BY <1>1, <1>8 DEF Crash, Boot
<1>9. ASSUME UNCHANGED vars PROVE JobsWatched'
  BY <1>2, <1>9 DEF vars, LiveRow
<1> QED BY <1>3, <1>4, <1>5, <1>6, <1>7, <1>8, <1>9

\* No job is forgotten: while one is in the table, the loop runs or is going to.
THEOREM NoJobForgotten == Spec => []JobsWatched
<1>1. Init => JobsWatched
  BY DEF Init, JobsWatched
<1>2. RowInv /\ JobsWatched /\ [Next]_vars => JobsWatched'
  BY WatchedAttemptStep, WatchedFlowStep, WatchedOtherStep DEF Next
<1> QED BY <1>1, <1>2, RowsAlways, PTL DEF Spec

-------------------------------------------------------------------------------
(******************************** The locks **********************************)

LockPart == LockTypes /\ LockInv

\* Nobody holds a lock at the start.
LEMMA LockInit == Init => LockPart
<1> SUFFICES ASSUME Init PROVE LockPart
  OBVIOUS
<1>1. NoAttempt.phase = "none" /\ Rest.phase = "idle"
  BY RestFacts DEF NoAttempt
<1>2. LockTypes
  BY EmptySeq DEF Init, LockTypes
<1>3. LockInv
  BY <1>1, JobParts DEF Init, LockInv, FlowInside, Idle
<1> QED BY <1>2, <1>3 DEF LockPart

\* Where holders stay, who holds a lock goes on holding it.
LEMMA HoldersKept ==
    ASSUME HoldersStay, NEW k \in Conv, NEW x, Holds(k, x)
    PROVE  Holds(k, x)'
BY DEF HoldersStay, Holds

\* The one who releases a lock is the only one who held it.
LEMMA ReleaseKeeps ==
    ASSUME LockTypes, NEW k \in Conv, NEW x, Holds(k, x), Release(k),
           NEW c \in Conv, NEW y, Holds(c, y), y # x
    PROVE  Holds(c, y)'
<1>1. c # k
  BY DEF Holds
<1> QED BY <1>1, ReleaseFacts DEF Holds

\* An attempt moves on while nobody leaves the lock.
LEMMA LockAttemptMoves ==
    ASSUME RowInv, LockPart, NEW j \in Job, NEW phase \in Phases, AttemptAt(j, phase),
           attempt[j].phase # "none",
           phase = "operate" /\ attempt[j].locks => Holds(KeyOf(j), Operation(j))',
           LockTypes', HoldersStay, UNCHANGED <<flow, worker>>
    PROVE  LockPart'
<1>1. /\ attempt'[j].phase = phase /\ attempt'[j].locks = attempt[j].locks
      /\ \A i \in Job \ {j} : attempt'[i] = attempt[i]
  BY AttemptAtFacts DEF RowInv
<1>2. \A n \in Slot, i \in Job :
         worker'[<<n, i>>] \notin {"idle", "lock"} => Holds(KeyOf(i), Worker(n, i))'
  BY HoldersKept, JobParts DEF LockPart, LockInv
<1>3. \A k \in Conv : FlowInside(k)' => Holds(k, Flow(k))'
  BY HoldersKept DEF LockPart, LockInv, FlowInside
<1>4. \A i \in Job : attempt'[i].phase = "operate" /\ attempt'[i].locks =>
         Holds(KeyOf(i), Operation(i))'
  BY <1>1, HoldersKept, JobParts DEF LockPart, LockInv
<1>5. \A i \in Job : attempt'[i].phase # "none" /\ ~attempt'[i].locks /\ i[1] \in Claude =>
         AwaitedInside(i)'
  BY <1>1 DEF LockPart, LockInv, AwaitedInside, KeyOf
<1> QED BY <1>2, <1>3, <1>4, <1>5 DEF LockPart, LockInv, KeyOf

\* An attempt settles: those who wait for it still hold their locks.
LEMMA LockAttemptSettles ==
    ASSUME RowInv, LockPart, NEW j \in Job, NEW answer \in Answers \ {"none"},
           Settle(j, answer), UNCHANGED lock
    PROVE  LockPart'
<1>1. /\ attempt'[j].phase = "none" /\ \A i \in Job \ {j} : attempt'[i] = attempt[i]
      /\ \A k \in Conv :
            /\ flow'[k].phase = flow[k].phase /\ flow'[k].job = flow[k].job
            /\ flow'[k].session = flow[k].session
            /\ flow'[k].answer = flow[k].answer \/ flow[k].job = j
      /\ \A n \in Slot, i \in Job :
            \/ worker'[<<n, i>>] = worker[<<n, i>>]
            \/ i = j /\ worker[<<n, i>>] = "waiting"
  BY SettleFacts DEF RowInv
<1>2. LockTypes' /\ \A k, x : Holds(k, x) => Holds(k, x)'
  BY DEF LockPart, LockTypes, Holds
<1>3. \A n \in Slot, i \in Job :
         worker'[<<n, i>>] \notin {"idle", "lock"} => Holds(KeyOf(i), Worker(n, i))'
  BY <1>1, <1>2 DEF LockPart, LockInv
<1>4. \A k \in Conv : FlowInside(k)' => Holds(k, Flow(k))'
  BY <1>1, <1>2 DEF LockPart, LockInv, FlowInside
<1>5. \A i \in Job : attempt'[i].phase = "operate" /\ attempt'[i].locks =>
         Holds(KeyOf(i), Operation(i))'
  BY <1>1, <1>2 DEF LockPart, LockInv
<1>6. ASSUME NEW i \in Job, attempt'[i].phase # "none", ~attempt'[i].locks, i[1] \in Claude
      PROVE  AwaitedInside(i)'
  <2>1. i # j /\ KeyOf(i) \in Conv
    BY <1>1, <1>6, JobParts
  <2>2. AwaitedInside(i)
    BY <1>1, <1>6, <2>1 DEF LockPart, LockInv
  <2> QED BY <1>1, <2>1, <2>2 DEF AwaitedInside, KeyOf
<1> QED BY <1>2, <1>3, <1>4, <1>5, <1>6 DEF LockPart, LockInv, KeyOf

\* A step of an attempt: it releases only the lock it took.
LEMMA LockAttemptStep ==
    ASSUME RowInv, LockPart, NEW j \in Job, AttemptStep(j)
    PROVE  LockPart'
<1>0. /\ attempt[j].phase \in Phases /\ attempt[j].locks \in BOOLEAN /\ KeyOf(j) \in Conv
      /\ attempt[j].phase \in {"runtime", "lock"} => attempt[j].locks
  BY JobParts DEF RowInv, TaskTypes, AttemptInv
<1>1. ASSUME UNCHANGED lock PROVE LockTypes' /\ HoldersStay
  BY <1>1 DEF LockPart, LockTypes, HoldersStay
<1>2. ASSUME AttemptReads(j), row[j] = "due" PROVE LockPart'
  <2> DEFINE phase == IF attempt[j].locks THEN "runtime" ELSE "operate"
  <2>1. phase \in Phases /\ ~(phase = "operate" /\ attempt[j].locks)
    BY DEF Phases
  <2>2. AttemptAt(j, phase) /\ UNCHANGED <<flow, worker, lock>> /\ attempt[j].phase # "none"
    BY <1>2 DEF AttemptReads
  <2> HIDE DEF phase
  <2> QED BY <1>1, <2>1, <2>2, LockAttemptMoves
<1>3. ASSUME AttemptReads(j), row[j] # "due" PROVE LockPart'
  <2> DEFINE answer == IF row[j] = "done" THEN "ok" ELSE "deferred"
  <2>1. answer \in Answers \ {"none"}
    BY DEF Answers
  <2>2. Settle(j, answer) /\ UNCHANGED lock
    BY <1>3 DEF AttemptReads
  <2> HIDE DEF answer
  <2> QED BY <2>1, <2>2, LockAttemptSettles
<1>4. ASSUME OperationWaits(j) PROVE LockPart'
  <2>1. LockTypes' /\ HoldersStay
    BY <1>0, <1>4, WaitForFacts, WaiterFacts DEF OperationWaits, LockPart
  <2> QED BY <1>4, <2>1, LockAttemptMoves DEF OperationWaits, Phases
<1>5. ASSUME OperationEnters(j) PROVE LockPart'
  <2>1. Holds(KeyOf(j), Operation(j)) /\ UNCHANGED lock
    BY <1>5 DEF OperationEnters
  <2>2. Holds(KeyOf(j), Operation(j))'
    BY <2>1 DEF Holds, KeyOf
  <2> QED BY <1>1, <1>5, <2>1, <2>2, LockAttemptMoves DEF OperationEnters, Phases
<1>6. ASSUME OperationResolves(j) \/ OperationFails(j) PROVE LockPart'
  <2>1. PICK phase \in {"complete", "fail"} :
           AttemptAt(j, phase) /\ OperationLeaves(j) /\ UNCHANGED <<flow, worker>>
    BY <1>6 DEF OperationResolves, OperationFails
  <2>2. attempt[j].phase = "operate" /\ phase \in Phases
    BY <1>6 DEF OperationResolves, OperationFails, Phases
  <2>3. CASE ~attempt[j].locks
    BY <1>1, <2>1, <2>2, <2>3, LockAttemptMoves DEF OperationLeaves
  <2>4. CASE attempt[j].locks
    <3>1. Holds(KeyOf(j), Operation(j)) /\ Release(KeyOf(j))
      BY <2>1, <2>2, <2>4 DEF OperationLeaves, LockPart, LockInv
    <3>2. LockTypes'
      BY <1>0, <3>1, ReleaseFacts DEF LockPart
    <3>3. /\ attempt'[j].phase = phase /\ attempt'[j].locks
          /\ \A i \in Job \ {j} : attempt'[i] = attempt[i]
      BY <2>1, <2>2, <2>4, AttemptAtFacts DEF RowInv
    <3>4. \A c \in Conv : \A y : Holds(c, y) /\ y # Operation(j) => Holds(c, y)'
      BY <1>0, <3>1, ReleaseKeeps DEF LockPart
    <3>5. \A n \in Slot, i \in Job :
             worker'[<<n, i>>] \notin {"idle", "lock"} => Holds(KeyOf(i), Worker(n, i))'
      BY <2>1, <3>4, WaitersDiffer, JobParts DEF LockPart, LockInv
    <3>6. \A k \in Conv : FlowInside(k)' => Holds(k, Flow(k))'
      BY <2>1, <3>4, WaitersDiffer DEF LockPart, LockInv, FlowInside
    <3>7. \A i \in Job : attempt'[i].phase = "operate" /\ attempt'[i].locks =>
             Holds(KeyOf(i), Operation(i))'
      BY <3>3, <3>4, WaitersDiffer, JobParts DEF LockPart, LockInv
    <3>8. \A i \in Job : attempt'[i].phase # "none" /\ ~attempt'[i].locks /\ i[1] \in Claude =>
             AwaitedInside(i)'
      BY <2>1, <3>3 DEF LockPart, LockInv, AwaitedInside, KeyOf
    <3> QED BY <3>2, <3>5, <3>6, <3>7, <3>8 DEF LockPart, LockInv, KeyOf
  <2> QED BY <2>3, <2>4
<1>7. ASSUME CompleteFails(j) PROVE LockPart'
  BY <1>1, <1>7, LockAttemptMoves DEF CompleteFails, Phases
<1>8. ASSUME Complete(j) \/ Defer(j) \/ AttemptRejects(j) PROVE LockPart'
  <2>1. {"ok", "failed", "threw"} \subseteq Answers \ {"none"}
    BY DEF Answers
  <2> QED BY <1>8, <2>1, LockAttemptSettles DEF Complete, Defer, AttemptRejects
<1> QED BY <1>2, <1>3, <1>4, <1>5, <1>6, <1>7, <1>8 DEF AttemptStep

\* The flow of k changes outside its wait for an attempt inside the lock; every
\* other holder keeps its lock.
LEMMA LockFlowMoves ==
    ASSUME RowInv, LockPart, NEW k \in Conv, LockTypes',
           \A c \in Conv : \A y : Holds(c, y) /\ y # Flow(k) => Holds(c, y)',
           \A c \in Conv \ {k} : flow'[c] = flow[c],
           FlowInside(k)' => Holds(k, Flow(k))',
           flow[k].phase # "waiting" \/ flow[k].answer # "none",
           UNCHANGED worker,
           \A i \in Job :
              \/ attempt'[i] = attempt[i]
              \/ /\ attempt[i].phase = "none" /\ attempt'[i].phase = "read"
                 /\ ~attempt'[i].locks /\ i[1] \in Claude => AwaitedInside(i)'
    PROVE  LockPart'
<1>1. \A n \in Slot, i \in Job :
         worker'[<<n, i>>] \notin {"idle", "lock"} => Holds(KeyOf(i), Worker(n, i))'
  BY WaitersDiffer, JobParts DEF LockPart, LockInv
<1>2. \A c \in Conv : FlowInside(c)' => Holds(c, Flow(c))'
  <2>1. \A c \in Conv \ {k} : Flow(c) # Flow(k)
    <3>1. \A c : Flow(c).key = c
      BY DEF Flow
    <3> QED BY <3>1
  <2>2. \A c \in Conv \ {k} : FlowInside(c)' => FlowInside(c)
    BY DEF FlowInside
  <2> QED BY <2>1, <2>2 DEF LockPart, LockInv
<1>3. \A i \in Job : attempt'[i].phase = "operate" /\ attempt'[i].locks =>
         Holds(KeyOf(i), Operation(i))'
  BY WaitersDiffer, JobParts DEF LockPart, LockInv
<1>4. ASSUME NEW i \in Job, attempt'[i].phase # "none", ~attempt'[i].locks, i[1] \in Claude
      PROVE  AwaitedInside(i)'
  <2>1. CASE attempt'[i] = attempt[i]
    <3>1. AwaitedInside(i) /\ KeyOf(i) \in Conv
      BY <1>4, <2>1, JobParts DEF LockPart, LockInv
    <3> QED BY <3>1 DEF AwaitedInside, KeyOf
  <2>2. CASE attempt'[i] # attempt[i]
    BY <1>4, <2>2
  <2> QED BY <2>1, <2>2
<1> QED BY <1>1, <1>2, <1>3, <1>4 DEF LockPart, LockInv, KeyOf

\* A step of a flow: it releases its lock once its attempt has settled.
LEMMA LockFlowStep ==
    ASSUME RowInv, LockPart, NEW k \in Conv,
           StartTurnFlow(k) \/ StartDeletion(k) \/ FlowStep(k)
    PROVE  LockPart'
<1>0. flow \in [Conv -> Flows]
  BY DEF RowInv, TaskTypes
<1>1. ASSUME UNCHANGED lock
      PROVE  LockTypes' /\ \A c, y : Holds(c, y) => Holds(c, y)'
  BY <1>1 DEF LockPart, LockTypes, Holds
<1>2. ASSUME StartTurnFlow(k) \/ StartDeletion(k) \/ DeletionAsksForLock(k) PROVE LockPart'
  <2>1. WaitFor(k, Flow(k)) /\ UNCHANGED <<attempt, worker>>
    BY <1>2 DEF StartTurnFlow, StartDeletion, DeletionAsksForLock
  <2>2. LockTypes' /\ HoldersStay
    BY <2>1, WaitForFacts, WaiterFacts DEF LockPart
  <2>3. \A c \in Conv : \A y : Holds(c, y) => Holds(c, y)'
    BY <2>2, HoldersKept
  <2>4. /\ flow[k].phase # "waiting" /\ ~FlowInside(k)'
        /\ \A c \in Conv \ {k} : flow'[c] = flow[c]
    BY <1>0, <1>2, RestFacts DEF StartTurnFlow, StartDeletion, DeletionAsksForLock, FlowAt,
                                 Flows, FlowInside
  <2> QED BY <2>1, <2>2, <2>3, <2>4, LockFlowMoves
\* The flow leaves the lock it holds.
<1>3. ASSUME \/ TurnFlowGivesUp(k) \/ TurnFlowEnds(k) \/ DeleteRows(k) \/ DeleteRowsFails(k)
             \/ DeletionCallEnds(k) /\ flow[k].session \in Claude
      PROVE  LockPart'
  <2>1. Holds(k, Flow(k)) /\ Release(k) /\ UNCHANGED <<attempt, worker>>
    BY <1>3 DEF TurnFlowGivesUp, TurnFlowEnds, DeleteRows, DeleteRowsFails, DeletionCallEnds,
                LockPart, LockInv, FlowInside
  <2>2. LockTypes'
    BY <2>1, ReleaseFacts DEF LockPart
  <2>3. \A c \in Conv : \A y : Holds(c, y) /\ y # Flow(k) => Holds(c, y)'
    BY <2>1, ReleaseKeeps DEF LockPart
  <2>4. flow[k].phase # "waiting" \/ flow[k].answer # "none"
    BY <1>3 DEF TurnFlowGivesUp, TurnFlowEnds, DeleteRows, DeleteRowsFails, DeletionCallEnds
  <2>5. ~FlowInside(k)' /\ \A c \in Conv \ {k} : flow'[c] = flow[c]
    <3>1. CASE DeleteRows(k)
      BY <1>0, <3>1 DEF DeleteRows, Flows, FlowInside
    <3>2. CASE TurnFlowGivesUp(k) \/ TurnFlowEnds(k) \/ DeleteRowsFails(k) \/ DeletionCallEnds(k)
      BY <1>0, <3>2, RestFacts DEF TurnFlowGivesUp, TurnFlowEnds, DeleteRowsFails,
                                   DeletionCallEnds, FlowInside
    <3> QED BY <1>3, <3>1, <3>2
  <2> QED BY <2>1, <2>2, <2>3, <2>4, <2>5, LockFlowMoves
<1>4. ASSUME TurnFlowAttempts(k) PROVE LockPart'
  <2>1. PICK s \in Session :
           /\ SessionOf[s] = k /\ Enqueuable(s) /\ Attempt(JobFor(s), FALSE)
           /\ flow' = [flow EXCEPT ![k] =
                 [phase |-> "waiting", session |-> s, job |-> JobFor(s), answer |-> "none"]]
    BY <1>4 DEF TurnFlowAttempts
  <2>2. PICK j \in Job : j = JobFor(s) /\ KeyOf(j) = k
    BY <2>1, JobForFacts DEF KeyOf
  <2>3. /\ flow'[k].phase = "waiting" /\ flow'[k].job = j /\ flow'[k].answer = "none"
        /\ \A c \in Conv \ {k} : flow'[c] = flow[c]
    BY <1>0, <2>1, <2>2
  <2>4. AwaitedInside(j)'
    BY <2>2, <2>3 DEF AwaitedInside, KeyOf
  <2>5. \A i \in Job :
           \/ attempt'[i] = attempt[i]
           \/ attempt[i].phase = "none" /\ attempt'[i].phase = "read" /\ i = j
    BY <2>1, <2>2, AttemptFacts DEF RowInv
  <2>6. Holds(k, Flow(k)) /\ flow[k].phase # "waiting" /\ UNCHANGED <<lock, worker>>
    BY <1>4 DEF TurnFlowAttempts
  <2> QED BY <1>1, <2>3, <2>4, <2>5, <2>6, LockFlowMoves
<1>5. ASSUME DeletionAttempts(k) PROVE LockPart'
  <2> DEFINE j == JobFor(flow[k].session)
  <2>1. /\ j \in Job /\ j[1] = flow[k].session
        /\ Attempt(j, flow[k].session \in Claude)
    BY <1>5, JobForFacts DEF DeletionAttempts
  <2> HIDE DEF j
  <2>2. Attempt(j, j[1] \in Claude)
    BY <2>1, Zenon
  <2>3. \A i \in Job :
           \/ attempt'[i] = attempt[i]
           \/ /\ attempt[i].phase = "none" /\ attempt'[i].phase = "read"
              /\ i[1] \in Claude => attempt'[i].locks
    <3>1. CASE j[1] \in Claude
      <4>1. (j[1] \in Claude) = TRUE
        BY <3>1
      <4>2. Attempt(j, TRUE)
        BY <2>2, <4>1, Zenon
      <4> QED BY <2>1, <4>2, AttemptFacts DEF RowInv
    <3>2. CASE j[1] \notin Claude
      <4>1. (j[1] \in Claude) = FALSE
        BY <3>2
      <4>2. Attempt(j, FALSE)
        BY <2>2, <4>1, Zenon
      <4> QED BY <2>1, <3>2, <4>2, AttemptFacts DEF RowInv
    <3> QED BY <3>1, <3>2
  <2>4. /\ flow[k].phase = "post" /\ ~FlowInside(k)'
        /\ \A c \in Conv \ {k} : flow'[c] = flow[c]
    BY <1>0, <1>5 DEF DeletionAttempts, Flows, FlowInside
  <2>5. UNCHANGED <<lock, worker>>
    BY <1>5 DEF DeletionAttempts
  <2> QED BY <1>1, <2>3, <2>4, <2>5, LockFlowMoves
<1>6. ASSUME DeletionEnds(k) \/ (DeletionCallEnds(k) /\ flow[k].session \notin Claude)
      PROVE  LockPart'
  <2>1. /\ flow[k].phase # "waiting" /\ ~FlowInside(k)'
        /\ \A c \in Conv \ {k} : flow'[c] = flow[c]
    BY <1>0, <1>6, RestFacts DEF DeletionEnds, DeletionCallEnds, FlowInside
  <2>2. UNCHANGED <<lock, worker, attempt>>
    BY <1>6 DEF DeletionEnds, DeletionCallEnds
  <2> QED BY <1>1, <2>1, <2>2, LockFlowMoves
\* A direct call for a Claude session is made by the holder of the lock.
<1>7. ASSUME TurnFlowCalls(k) \/ DeletionCalls(k) PROVE LockPart'
  <2>1. /\ flow[k].phase # "waiting" /\ (FlowInside(k)' => Holds(k, Flow(k)))
        /\ \A c \in Conv \ {k} : flow'[c] = flow[c]
    BY <1>0, <1>7 DEF TurnFlowCalls, DeletionCalls, FlowAt, Flows, FlowInside
  <2>2. UNCHANGED <<lock, worker, attempt>>
    BY <1>7 DEF TurnFlowCalls, DeletionCalls
  <2> QED BY <1>1, <2>1, <2>2, LockFlowMoves
<1> QED BY <1>2, <1>3, <1>4, <1>5, <1>6, <1>7 DEF FlowStep

\* A step of a worker: the same.
LEMMA LockWorkerStep ==
    ASSUME RowInv, LockPart, NEW n \in Slot, NEW j \in Job, WorkerStep(n, j)
    PROVE  LockPart'
<1>0. KeyOf(j) \in Conv /\ worker \in [Slot \X Job -> {"idle", "lock", "waiting", "answered", "threw"}]
  BY JobParts DEF RowInv, TaskTypes
<1>1. ASSUME WorkerAttempts(n, j) PROVE LockPart'
  <2>1. /\ Holds(KeyOf(j), Worker(n, j)) /\ Attempt(j, FALSE) /\ UNCHANGED <<lock, flow>>
        /\ worker[<<n, j>>] = "lock" /\ worker' = [worker EXCEPT ![<<n, j>>] = "waiting"]
    BY <1>1 DEF WorkerAttempts
  <2>2. /\ worker'[<<n, j>>] = "waiting"
        /\ \A m \in Slot, i \in Job : m # n \/ i # j => worker'[<<m, i>>] = worker[<<m, i>>]
    BY <1>0, <2>1
  <2>3. LockTypes' /\ \A c, y : Holds(c, y) => Holds(c, y)'
    BY <2>1 DEF LockPart, LockTypes, Holds
  <2>4. \A i \in Job :
           \/ attempt'[i] = attempt[i]
           \/ attempt[i].phase = "none" /\ attempt'[i].phase = "read" /\ i = j
    BY <2>1, AttemptFacts DEF RowInv
  <2>5. \A m \in Slot, i \in Job :
           worker'[<<m, i>>] \notin {"idle", "lock"} => Holds(KeyOf(i), Worker(m, i))'
    BY <2>1, <2>2, <2>3 DEF LockPart, LockInv
  <2>6. \A k \in Conv : FlowInside(k)' => Holds(k, Flow(k))'
    BY <2>1, <2>3 DEF LockPart, LockInv, FlowInside
  <2>7. \A i \in Job : attempt'[i].phase = "operate" /\ attempt'[i].locks =>
           Holds(KeyOf(i), Operation(i))'
    BY <2>3, <2>4 DEF LockPart, LockInv
  <2>8. ASSUME NEW i \in Job, attempt'[i].phase # "none", ~attempt'[i].locks, i[1] \in Claude
        PROVE  AwaitedInside(i)'
    <3>1. CASE i = j
      BY <2>2, <3>1 DEF AwaitedInside
    <3>2. CASE i # j
      <4>1. AwaitedInside(i)
        BY <2>4, <2>8, <3>2 DEF LockPart, LockInv
      <4> QED BY <2>1, <2>2, <3>2, <4>1 DEF AwaitedInside, KeyOf
    <3> QED BY <3>1, <3>2
  <2> QED BY <2>3, <2>5, <2>6, <2>7, <2>8 DEF LockPart, LockInv, KeyOf
\* The worker leaves the lock it holds.
<1>2. ASSUME WorkerEnds(n, j) \/ WorkerThrows(n, j) PROVE LockPart'
  <2>1. /\ worker[<<n, j>>] \in {"answered", "threw"} /\ Release(KeyOf(j))
        /\ UNCHANGED <<attempt, flow>> /\ worker' = [worker EXCEPT ![<<n, j>>] = "idle"]
    BY <1>2 DEF WorkerEnds, WorkerThrows
  <2>2. Holds(KeyOf(j), Worker(n, j))
    BY <2>1 DEF LockPart, LockInv
  <2>3. /\ worker'[<<n, j>>] = "idle"
        /\ \A m \in Slot, i \in Job : m # n \/ i # j => worker'[<<m, i>>] = worker[<<m, i>>]
    BY <1>0, <2>1
  <2>4. LockTypes' /\ \A c \in Conv : \A y : Holds(c, y) /\ y # Worker(n, j) => Holds(c, y)'
    BY <1>0, <2>1, <2>2, ReleaseFacts, ReleaseKeeps DEF LockPart
  <2>5. ASSUME NEW m \in Slot, NEW i \in Job, worker'[<<m, i>>] \notin {"idle", "lock"}
        PROVE  Holds(KeyOf(i), Worker(m, i))'
    <3>1. Worker(m, i) # Worker(n, j) /\ Holds(KeyOf(i), Worker(m, i))
      BY <2>3, <2>5, WaitersDiffer DEF LockPart, LockInv
    <3> QED BY <2>4, <3>1, JobParts
  <2>6. \A k \in Conv : FlowInside(k)' => Holds(k, Flow(k))'
    BY <2>1, <2>4, WaitersDiffer DEF LockPart, LockInv, FlowInside
  <2>7. \A i \in Job : attempt'[i].phase = "operate" /\ attempt'[i].locks =>
           Holds(KeyOf(i), Operation(i))'
    BY <2>1, <2>4, WaitersDiffer, JobParts DEF LockPart, LockInv
  <2>8. \A i \in Job : attempt'[i].phase # "none" /\ ~attempt'[i].locks /\ i[1] \in Claude =>
           AwaitedInside(i)'
    BY <2>1, <2>3 DEF LockPart, LockInv, AwaitedInside, KeyOf
  <2> QED BY <2>4, <2>5, <2>6, <2>7, <2>8 DEF LockPart, LockInv, KeyOf
<1> QED BY <1>1, <1>2 DEF WorkerStep

\* A function on an interval from 1 is a sequence.
LEMMA FunctionsAreSequences ==
    ASSUME NEW S, NEW n \in Nat, NEW f \in [1 .. n -> S]
    PROVE  f \in Seq(S)
OBVIOUS

\* A listing queues one worker for each due job behind those who wait.
LEMMA LockList ==
    ASSUME RowInv, LockPart, List
    PROVE  LockPart'
<1> DEFINE due == {j \in Job : row[j] = "due"}
<1>0. UNCHANGED <<attempt, flow>>
  BY DEF List
<1>1. CASE due = {}
  <2>1. UNCHANGED <<lock, worker>>
    BY <1>1, Zenon DEF List
  <2> QED BY <1>0, <2>1 DEF LockPart, LockTypes, LockInv, FlowInside, Holds, AwaitedInside,
                            KeyOf
<1>2. CASE due # {}
  <2>1. PICK n \in Slot :
           /\ \A j \in Job : worker[<<n, j>>] = "idle"
           /\ worker' = [w \in Slot \X Job |->
                 IF w[1] = n /\ w[2] \in due THEN "lock" ELSE worker[w]]
           /\ \E q \in [Conv -> UNION {Listings(D) : D \in SUBSET due}] :
                 /\ \A k \in Conv : q[k] \in Listings({j \in due : KeyOf(j) = k})
                 /\ lock' = [k \in Conv |->
                       lock[k] \o [m \in DOMAIN q[k] |-> Worker(n, q[k][m])]]
    BY <1>2, Zenon DEF List
  <2>2. PICK q : /\ \A k \in Conv : q[k] \in Listings({j \in due : KeyOf(j) = k})
                 /\ lock' = [k \in Conv |->
                       lock[k] \o [m \in DOMAIN q[k] |-> Worker(n, q[k][m])]]
    BY <2>1, Zenon
  <2>3. ASSUME NEW k \in Conv
        PROVE  /\ lock'[k] \in Seq(Waiters(k))
               /\ lock[k] # <<>> => lock'[k] # <<>> /\ Head(lock'[k]) = Head(lock[k])
    <3> DEFINE D == {j \in due : KeyOf(j) = k}
               more == [m \in DOMAIN q[k] |-> Worker(n, q[k][m])]
    <3>1. IsFiniteSet(D) /\ D \subseteq Job
      BY JobsAreFinite, FS_Subset
    <3>2. Cardinality(D) \in Nat
      BY <3>1, FS_CardinalityType
    <3>3. q[k] \in [1 .. Cardinality(D) -> D]
      BY <2>2 DEF Listings
    <3>4. more \in [1 .. Cardinality(D) -> Waiters(k)]
      BY <3>1, <3>3, WaiterFacts
    <3>5. more \in Seq(Waiters(k))
      BY <3>2, <3>4, FunctionsAreSequences
    <3>6. lock'[k] = lock[k] \o more
      BY <2>2
    <3>7. lock[k] \in Seq(Waiters(k))
      BY DEF LockPart, LockTypes
    <3> HIDE DEF more
    <3>8. /\ lock[k] \o more \in Seq(Waiters(k))
          /\ lock[k] # <<>> => /\ lock[k] \o more # <<>>
                               /\ Head(lock[k] \o more) = Head(lock[k])
      BY <3>5, <3>7, ConcatProperties, EmptySeq
    <3> QED BY <3>6, <3>8
  <2>4. LockTypes' /\ HoldersStay
    BY <2>2, <2>3 DEF LockTypes, HoldersStay
  <2>5. \A m \in Slot, j \in Job :
           \/ worker'[<<m, j>>] = worker[<<m, j>>]
           \/ worker[<<m, j>>] = "idle" /\ worker'[<<m, j>>] = "lock"
    <3> HIDE DEF due
    <3> QED BY <2>1
  <2>6. \A m \in Slot, j \in Job :
           worker'[<<m, j>>] \notin {"idle", "lock"} => Holds(KeyOf(j), Worker(m, j))'
    BY <2>4, <2>5, HoldersKept, JobParts DEF LockPart, LockInv
  <2>7. \A k \in Conv : FlowInside(k)' => Holds(k, Flow(k))'
    BY <1>0, <2>4, HoldersKept DEF LockPart, LockInv, FlowInside
  <2>8. \A j \in Job : attempt'[j].phase = "operate" /\ attempt'[j].locks =>
           Holds(KeyOf(j), Operation(j))'
    BY <1>0, <2>4, HoldersKept, JobParts DEF LockPart, LockInv
  <2>9. \A j \in Job : attempt'[j].phase # "none" /\ ~attempt'[j].locks /\ j[1] \in Claude =>
           AwaitedInside(j)'
    BY <1>0, <2>5 DEF LockPart, LockInv, AwaitedInside, KeyOf
  <2> QED BY <2>4, <2>6, <2>7, <2>8, <2>9 DEF LockPart, LockInv, KeyOf
<1> QED BY <1>1, <1>2

\* Every step keeps the part of the invariant that is about locks.
LEMMA LockNext ==
    ASSUME RowInv, LockPart, [Next]_vars
    PROVE  LockPart'
<1>1. ASSUME UNCHANGED tasks PROVE LockPart'
  BY <1>1 DEF tasks, LockPart, LockTypes, LockInv, FlowInside, Holds, AwaitedInside, KeyOf
<1>2. ASSUME \/ \E j \in Job : RetryDue(j)
             \/ \E s \in Session : EnqueueOnly(s)
             \/ Query \/ QueryFails \/ ListFails \/ SweepEnds \/ NoticeFires \/ TimerFires
             \/ UNCHANGED vars
      PROVE  LockPart'
  BY <1>1, <1>2 DEF RetryDue, EnqueueOnly, Query, QueryFails, ListFails, SweepEnds,
                    NoticeFires, TimerFires, vars
<1>3. ASSUME Crash PROVE LockPart'
  <2>1. NoAttempt.phase = "none" /\ Rest.phase = "idle"
    BY RestFacts DEF NoAttempt
  <2>2. LockTypes'
    BY <1>3, EmptySeq DEF Crash, Boot, LockTypes
  <2>3. LockInv'
    BY <1>3, <2>1, JobParts DEF Crash, Boot, LockInv, FlowInside, Idle
  <2> QED BY <2>2, <2>3 DEF LockPart
<1> QED BY <1>2, <1>3, LockAttemptStep, LockFlowStep, LockWorkerStep, LockList
     DEF Next, LoopStep

\* It holds in every reachable state.
LEMMA LocksAlways == Spec => []LockPart
BY LockInit, LockNext, RowsAlways, PTL DEF Spec

\* The types of the state, and one live row per session.
THEOREM TypeCorrect == Spec => []TypeOK
<1>1. ASSUME RowInv, LockPart PROVE TypeOK
  <2>1. ASSUME NEW s \in Session PROVE Cardinality(Live(s)) <= 1
    <3>1. CASE Live(s) = {}
      BY <3>1, FS_EmptySet
    <3>2. CASE Live(s) # {}
      <4>1. PICK j : j \in Live(s)
        BY <3>2
      <4>2. Live(s) = {j}
        BY <1>1, <4>1 DEF RowInv, OneLiveRow, Live
      <4> QED BY <4>2, FS_Singleton
    <3> QED BY <3>1, <3>2
  <2>2. ASSUME NEW k \in Conv, NEW m \in DOMAIN lock[k]
        PROVE  lock[k][m] \in {Flow(k)} \cup {Operation(j) : j \in Job}
                                \cup {Worker(n, j) : n \in Slot, j \in Job}
    <3>1. lock[k] \in Seq(Waiters(k)) /\ m \in 1 .. Len(lock[k])
      BY <1>1, LenProperties DEF LockPart, LockTypes
    <3>2. lock[k][m] \in Waiters(k)
      BY <3>1, ElementOfSeq
    <3> QED BY <3>2 DEF Waiters
  <2> QED BY <1>1, <2>1, <2>2 DEF RowInv, TaskTypes, SchedulerTypes, Phases, Flows, TypeOK
<1> QED BY <1>1, RowsAlways, LocksAlways, PTL

\* While a Claude session is invalidated, whoever holds the conversation's lock
\* waits for that invalidation.
THEOREM ClaudeLockHeld == Spec => []ClaudeOpHoldsLock
<1>1. ASSUME RowInv, LockPart PROVE ClaudeOpHoldsLock
  <2>1. ASSUME NEW j \in Job, attempt[j].phase = "operate", j[1] \in Claude
        PROVE  \/ Holds(KeyOf(j), Operation(j))
               \/ \E n \in Slot : Holds(KeyOf(j), Worker(n, j)) /\ worker[<<n, j>>] = "waiting"
               \/ Holds(KeyOf(j), Flow(KeyOf(j))) /\ flow[KeyOf(j)].job = j
    <3>1. CASE attempt[j].locks
      BY <1>1, <2>1, <3>1 DEF LockPart, LockInv
    <3>2. CASE ~attempt[j].locks
      <4>1. AwaitedInside(j) /\ KeyOf(j) \in Conv
        BY <1>1, <2>1, <3>2, JobParts DEF LockPart, LockInv
      <4> QED BY <1>1, <4>1 DEF AwaitedInside, LockPart, LockInv, FlowInside
    <3> QED BY <3>1, <3>2
  <2>2. ASSUME NEW k \in Conv, flow[k].phase \in {"turnCall", "call"}, flow[k].session \in Claude
        PROVE  Holds(k, Flow(k))
    BY <1>1, <2>2 DEF LockPart, LockInv, FlowInside
  <2> QED BY <2>1, <2>2 DEF ClaudeOpHoldsLock
<1> QED BY <1>1, RowsAlways, LocksAlways, PTL

-------------------------------------------------------------------------------
(*************************** One call per session ****************************)

\* A step of an attempt answers the deletion that waits for it, and starts none.
LEMMA OwnerAttemptStep ==
    ASSUME RowInv, OwnerInv, NEW j \in Job, AttemptStep(j)
    PROVE  OwnerInv'
<1>0. \A i \in Job : KeyOf(i) \in Conv
  BY JobParts
<1>1. ASSUME NEW phase \in Phases, AttemptAt(j, phase), UNCHANGED flow PROVE OwnerInv'
  <2>1. \A i \in Job : attempt'[i].locks => attempt[i].locks
    BY <1>1, AttemptAtFacts DEF RowInv
  <2> QED BY <1>1, <2>1 DEF OwnerInv, KeyOf
<1>2. ASSUME NEW answer \in Answers \ {"none"}, Settle(j, answer) PROVE OwnerInv'
  <2>1. /\ ~attempt'[j].locks /\ \A i \in Job \ {j} : attempt'[i] = attempt[i]
        /\ \A k \in Conv :
              /\ flow'[k].phase = flow[k].phase /\ flow'[k].job = flow[k].job
              /\ flow'[k].session = flow[k].session
              /\ flow'[k].answer = flow[k].answer \/ flow[k].job = j
    BY <1>2, SettleFacts DEF RowInv
  <2> QED BY <1>0, <2>1 DEF OwnerInv, KeyOf
<1>3. ASSUME AttemptReads(j) PROVE OwnerInv'
  <2> DEFINE phase  == IF attempt[j].locks THEN "runtime" ELSE "operate"
             answer == IF row[j] = "done" THEN "ok" ELSE "deferred"
  <2>1. phase \in Phases /\ answer \in Answers \ {"none"}
    BY DEF Phases, Answers
  <2>2. (AttemptAt(j, phase) /\ UNCHANGED flow) \/ Settle(j, answer)
    BY <1>3 DEF AttemptReads
  <2> HIDE DEF phase, answer
  <2> QED BY <1>1, <1>2, <2>1, <2>2
<1>4. ASSUME \/ OperationWaits(j) \/ OperationEnters(j) \/ OperationResolves(j)
             \/ OperationFails(j) \/ CompleteFails(j)
      PROVE  OwnerInv'
  <2>1. PICK phase \in Phases : AttemptAt(j, phase) /\ UNCHANGED flow
    BY <1>4 DEF OperationWaits, OperationEnters, OperationResolves, OperationFails,
                CompleteFails, Phases
  <2> QED BY <1>1, <2>1
<1>5. ASSUME Complete(j) \/ Defer(j) \/ AttemptRejects(j) PROVE OwnerInv'
  <2>1. {"ok", "failed", "threw"} \subseteq Answers \ {"none"}
    BY DEF Answers
  <2> QED BY <1>2, <1>5, <2>1 DEF Complete, Defer, AttemptRejects
<1> QED BY <1>3, <1>4, <1>5 DEF AttemptStep

\* A step of a flow: only the deletion of the session's conversation starts an
\* attempt that takes the lock, and it leaves only once that has settled.
LEMMA OwnerFlowStep ==
    ASSUME RowInv, OwnerInv, NEW k \in Conv,
           StartTurnFlow(k) \/ StartDeletion(k) \/ FlowStep(k)
    PROVE  OwnerInv'
<1>0. flow \in [Conv -> Flows] /\ \A j \in Job : KeyOf(j) \in Conv
  BY JobParts DEF RowInv, TaskTypes
<1>1. ASSUME ~(flow[k].phase = "deleteWaiting" /\ flow[k].answer = "none"),
             \A c \in Conv \ {k} : flow'[c] = flow[c],
             \A j \in Job : attempt'[j].locks => attempt[j].locks,
             flow'[k].phase \in {"post", "callLock", "call", "turnCall"} =>
                SessionOf[flow'[k].session] = k
      PROVE  OwnerInv'
  <2>1. ASSUME NEW j \in Job, attempt'[j].locks
        PROVE  flow'[KeyOf(j)] = flow[KeyOf(j)] /\ attempt[j].locks
    BY <1>0, <1>1, <2>1 DEF OwnerInv
  <2>2. ASSUME NEW c \in Conv, flow'[c].phase \in {"post", "callLock", "call", "turnCall"}
        PROVE  SessionOf[flow'[c].session] = c
    BY <1>1, <2>2 DEF OwnerInv
  <2> QED BY <2>1, <2>2 DEF OwnerInv, KeyOf
<1>2. ASSUME \/ StartTurnFlow(k) \/ StartDeletion(k) \/ TurnFlowGivesUp(k) \/ TurnFlowEnds(k)
             \/ DeleteRowsFails(k) \/ DeletionEnds(k) \/ DeletionCallEnds(k)
      PROVE  OwnerInv'
  <2>1. /\ ~(flow[k].phase = "deleteWaiting" /\ flow[k].answer = "none")
        /\ flow'[k].phase \in {"idle", "lock", "deleteLock"} /\ UNCHANGED attempt
        /\ \A c \in Conv \ {k} : flow'[c] = flow[c]
    BY <1>0, <1>2, RestFacts
       DEF StartTurnFlow, StartDeletion, TurnFlowGivesUp, TurnFlowEnds, DeleteRowsFails,
           DeletionEnds, DeletionCallEnds, FlowAt, Flows
  <2> QED BY <1>1, <2>1
<1>3. ASSUME DeletionAsksForLock(k) \/ DeletionCalls(k) PROVE OwnerInv'
  <2>1. /\ flow[k].phase \in {"post", "callLock"} /\ UNCHANGED attempt
        /\ flow'[k].session = flow[k].session
        /\ \A c \in Conv \ {k} : flow'[c] = flow[c]
    BY <1>0, <1>3 DEF DeletionAsksForLock, DeletionCalls, FlowAt, Flows
  <2> QED BY <1>1, <2>1 DEF OwnerInv
<1>4. ASSUME TurnFlowCalls(k) \/ DeleteRows(k) PROVE OwnerInv'
  <2>1. /\ flow[k].phase \in {"lock", "deleteLock"} /\ UNCHANGED attempt
        /\ \A c \in Conv \ {k} : flow'[c] = flow[c]
    BY <1>0, <1>4 DEF TurnFlowCalls, DeleteRows
  <2>2. PICK s \in Session, phase \in {"post", "turnCall"} :
           /\ SessionOf[s] = k
           /\ flow' = [flow EXCEPT ![k] = [@ EXCEPT !.phase = phase, !.session = s]]
    BY <1>4, SessionAssumption DEF TurnFlowCalls, DeleteRows
  <2>3. flow'[k].session = s
    BY <1>0, <2>2 DEF Flows
  <2> QED BY <1>1, <2>1, <2>2, <2>3
<1>5. ASSUME TurnFlowAttempts(k) PROVE OwnerInv'
  <2>1. PICK s \in Session :
           /\ Enqueuable(s) /\ Attempt(JobFor(s), FALSE)
           /\ flow' = [flow EXCEPT ![k] =
                 [phase |-> "waiting", session |-> s, job |-> JobFor(s), answer |-> "none"]]
    BY <1>5 DEF TurnFlowAttempts
  <2>2. \A j \in Job : attempt'[j].locks => attempt[j].locks
    BY <2>1, JobForFacts, AttemptFacts DEF RowInv
  <2>3. /\ flow[k].phase = "lock" /\ flow'[k].phase = "waiting"
        /\ \A c \in Conv \ {k} : flow'[c] = flow[c]
    BY <1>0, <1>5, <2>1 DEF TurnFlowAttempts
  <2> QED BY <1>1, <2>2, <2>3
<1>6. ASSUME DeletionAttempts(k) PROVE OwnerInv'
  <2> DEFINE j == JobFor(flow[k].session)
  <2>1. /\ j \in Job /\ j[1] = flow[k].session
        /\ Attempt(j, flow[k].session \in Claude)
    BY <1>6, JobForFacts DEF DeletionAttempts
  <2>2. /\ flow[k].phase = "post" /\ flow'[k].phase = "deleteWaiting" /\ flow'[k].job = j
        /\ flow'[k].answer = flow[k].answer
        /\ \A c \in Conv \ {k} : flow'[c] = flow[c]
    <3> DEFINE f == [flow[k] EXCEPT !.phase = "deleteWaiting", !.job = j]
    <3>1. flow[k].phase = "post" /\ flow' = [flow EXCEPT ![k] = f]
      BY <1>6, Zenon DEF DeletionAttempts
    <3>2. flow[k] \in Flows
      BY <1>0
    <3> HIDE DEF j
    <3>3. f.phase = "deleteWaiting" /\ f.job = j /\ f.answer = flow[k].answer
      BY <3>2 DEF Flows
    <3> HIDE DEF f
    <3> QED BY <1>0, <3>1, <3>3
  <2> HIDE DEF j
  <2>3. flow'[k].answer = "none" /\ KeyOf(j) = k
    BY <2>1, <2>2 DEF RowInv, AnswerInv, FlowWaits, OwnerInv, KeyOf
  <2>4. \A i \in Job \ {j} : attempt'[i] = attempt[i]
    BY <2>1 DEF Attempt, RowInv, TaskTypes
  <2>5. ASSUME NEW i \in Job, attempt'[i].locks
        PROVE  /\ flow'[KeyOf(i)].phase = "deleteWaiting"
               /\ flow'[KeyOf(i)].job = i /\ flow'[KeyOf(i)].answer = "none"
    <3>1. CASE i = j
      BY <2>2, <2>3, <3>1
    <3>2. CASE i # j
      <4>1. attempt[i].locks /\ KeyOf(i) # k
        BY <2>2, <2>4, <2>5, <3>2 DEF OwnerInv
      <4> QED BY <1>0, <2>2, <4>1 DEF OwnerInv
    <3> QED BY <3>1, <3>2
  <2>6. ASSUME NEW c \in Conv, flow'[c].phase \in {"post", "callLock", "call", "turnCall"}
        PROVE  SessionOf[flow'[c].session] = c
    BY <2>2, <2>6 DEF OwnerInv
  <2> QED BY <2>5, <2>6 DEF OwnerInv, KeyOf
<1> QED BY <1>2, <1>3, <1>4, <1>5, <1>6 DEF FlowStep

\* Every step keeps attempts with their owners.
LEMMA OwnerNext ==
    ASSUME RowInv, OwnerInv, [Next]_vars
    PROVE  OwnerInv'
<1>1. ASSUME UNCHANGED flow, \A j \in Job : attempt'[j].locks => attempt[j].locks
      PROVE  OwnerInv'
  BY <1>1 DEF OwnerInv, KeyOf
<1>2. ASSUME \/ \E j \in Job : RetryDue(j)
             \/ \E s \in Session : EnqueueOnly(s)
             \/ LoopStep \/ NoticeFires \/ TimerFires \/ UNCHANGED vars
      PROVE  OwnerInv'
  <2>1. UNCHANGED <<attempt, flow>>
    BY <1>2 DEF RetryDue, EnqueueOnly, LoopStep, Query, QueryFails, List, ListFails, SweepEnds,
                NoticeFires, TimerFires, vars, tasks
  <2> QED BY <1>1, <2>1
<1>3. ASSUME NEW n \in Slot, NEW j \in Job, WorkerStep(n, j) PROVE OwnerInv'
  <2>1. CASE WorkerAttempts(n, j)
    <3>1. \A i \in Job : attempt'[i].locks => attempt[i].locks
      BY <2>1, AttemptFacts DEF WorkerAttempts, RowInv
    <3> QED BY <1>1, <2>1, <3>1 DEF WorkerAttempts
  <2>2. CASE WorkerEnds(n, j) \/ WorkerThrows(n, j)
    BY <1>1, <2>2 DEF WorkerEnds, WorkerThrows
  <2> QED BY <1>3, <2>1, <2>2 DEF WorkerStep
<1>4. ASSUME Crash PROVE OwnerInv'
  <2>1. ~NoAttempt.locks /\ Rest.phase = "idle"
    BY RestFacts DEF NoAttempt
  <2> QED BY <1>4, <2>1 DEF Crash, Boot, OwnerInv
<1> QED BY <1>2, <1>3, <1>4, OwnerAttemptStep, OwnerFlowStep DEF Next

\* A provider session is not called again before the outcome of the last attempt
\* is recorded: jobs are unique per session and attempts shared per job.  A flow
\* that calls for a Claude session without a job holds the lock, and every
\* attempt for that session has its holder, or its deletion, wait for it.
THEOREM OneOperation == Spec => []OneOperationPerSession
<1>1. Init => OwnerInv
  <2>1. ~NoAttempt.locks /\ Rest.phase = "idle"
    BY RestFacts DEF NoAttempt
  <2> QED BY <2>1 DEF Init, OwnerInv
<1>2. ASSUME RowInv, LockPart, OwnerInv PROVE OneOperationPerSession
  <2>1. \A i, j \in Called : i[1] = j[1] => i = j
    BY <1>2 DEF RowInv, OneLiveRow, AttemptInv, Called, LiveRow
  <2>2. ASSUME NEW k \in Conv, NEW j \in Called, flow[k].phase \in {"turnCall", "call"},
               flow[k].session \in Claude, j[1] = flow[k].session
        PROVE  FALSE
    <3>1. j \in Job /\ attempt[j].phase # "none" /\ j[1] \in Claude /\ KeyOf(j) = k
      BY <1>2, <2>2 DEF Called, OwnerInv, KeyOf
    <3>2. Holds(k, Flow(k))
      BY <1>2, <2>2 DEF LockPart, LockInv, FlowInside
    <3>3. ~attempt[j].locks
      BY <1>2, <2>2, <3>1 DEF OwnerInv
    <3>4. AwaitedInside(j)
      BY <1>2, <3>1, <3>3 DEF LockPart, LockInv
    <3>5. PICK n \in Slot : worker[<<n, j>>] = "waiting"
      BY <2>2, <3>1, <3>4 DEF AwaitedInside
    <3>6. Holds(k, Worker(n, j))
      BY <1>2, <3>1, <3>5 DEF LockPart, LockInv
    <3> QED BY <3>2, <3>6, WaitersDiffer DEF Holds
  <2> QED BY <2>1, <2>2 DEF OneOperationPerSession
<1> QED BY <1>1, <1>2, OwnerNext, RowsAlways, LocksAlways, PTL DEF Spec

\* The known deadlock needs a Claude session: an archive never waits for a lock.
THEOREM ArchivesNeverDeadlock == Claude = {} => (Spec => []NoLockCycle)
<1> SUFFICES ASSUME Claude = {} PROVE Spec => []NoLockCycle
  OBVIOUS
<1>1. RowInv => NoLockCycle
  BY DEF RowInv, AttemptInv, NoLockCycle
<1> QED BY <1>1, RowsAlways, PTL
===============================================================================
