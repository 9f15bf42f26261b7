--------------------------- MODULE ProviderCleanup ---------------------------
(***************************************************************************)
(* Cleaning up at the provider after a deletion or an edit:                *)
(* core/conversations/conversationCleanupJobs.ts, the wake loop of         *)
(* modules/contextPanel/pendingDeletionWiring.ts, and the foreground flows *)
(* and background sweeps of conversationDeletion.ts and chat.ts that       *)
(* attempt a job.                                                          *)
(*                                                                         *)
(* A job is a row that says which provider session must be archived or     *)
(* invalidated.  A flow that enqueues a job attempts it at once; the wake  *)
(* loop attempts every due job, one worker per job.  Attempts of one job   *)
(* are shared by all who ask for it while it runs.  Flows that edit or     *)
(* delete turns, and workers, hold the write lock of the conversation      *)
(* while they wait for an attempt.  The deletion of a whole conversation   *)
(* does not, and of a Claude conversation the operation inside the attempt *)
(* takes the lock itself.  Without a job a flow calls the provider         *)
(* directly, shared with nobody: a Claude session's call holds the lock,   *)
(* a Codex thread's does not.                                              *)
(*                                                                         *)
(* Time is kept as whether the retry deadline of a row has passed ("due"). *)
(***************************************************************************)
EXTENDS Naturals, Sequences, FiniteSets

CONSTANTS
    Conv,        \* conversation keys
    Session,     \* provider sessions
    SessionOf,   \* the conversation of a session
    Claude,      \* the sessions whose cleanup is "claude_invalidate"
    MaxEnqueue,  \* bound: how many jobs each session ever gets
    Slot,        \* bound: sweeps whose workers can be under way at once
    Faults       \* which operations can fail

AllFaults ==
    { "provider",  \* the provider's archive or invalidate call
      "attempt",   \* reading or writing a job's row during an attempt
      "query",     \* reading the due jobs
      "nodb" }     \* a deletion enqueues its job and finds no database

\* Ids are never used twice: a session whose job is done gets a new one.
Job == UNION {{s} \X (1 .. MaxEnqueue[s]) : s \in Session}

ASSUME SessionAssumption ==
    SessionOf \in [Session -> Conv] /\ IsFiniteSet(Session) /\ Claude \subseteq Session
ASSUME LimitAssumption   == MaxEnqueue \in [Session -> Nat]
ASSUME FailureAssumption == Faults \subseteq AllFaults

VARIABLES
    row,        \* the job's row: "unborn", "due", "deferred" or "done"
    resolved,   \* the jobs an operation resolved for (not kept by the code)
    gone,       \* the conversations whose local rows are deleted
    attempt,    \* cleanupJobAttempts
    lock,       \* who holds and who waits for the write lock of a conversation
    flow,       \* the foreground flow of a conversation
    worker,     \* the workers of background sweeps
    loop,       \* runProviderCleanupLoop: "off", "query", "list" or "sweep"
    sweep,      \* the slot of the sweep the loop waits for
    processed,  \* processedDueWork
    wake,       \* providerWakePending
    timer,      \* providerTimer
    notice      \* cleanupJobsChangedNotificationScheduled

durable   == <<row, resolved, gone>>
scheduler == <<loop, sweep, processed, wake, timer>>
tasks     == <<attempt, lock, flow, worker>>
vars      == <<durable, tasks, scheduler, notice>>

-------------------------------------------------------------------------------
(****************************** Rows and locks *******************************)

KeyOf(j)    == SessionOf[j[1]]
LiveRow(j)  == row[j] \in {"due", "deferred"}
Live(s)     == {j \in Job : j[1] = s /\ LiveRow(j)}
Unborn(s)   == {j \in Job : j[1] = s /\ row[j] = "unborn"}
Enqueuable(s) == Live(s) # {} \/ Unborn(s) # {}

FirstUnborn(s) == CHOOSE j \in Unborn(s) : \A i \in Unborn(s) : j[2] <= i[2]

\* Mutant: an existing row of the session is not looked for.
AlwaysNewJob(s) == IF Unborn(s) # {} THEN FirstUnborn(s) ELSE CHOOSE j \in Live(s) : TRUE

\* enqueueConversationCleanupJobInTransaction: the existing row, or a new one.
\* A unique index makes a lost race find the winner's row.
JobFor(s) == IF Live(s) # {} THEN CHOOSE j \in Live(s) : TRUE ELSE FirstUnborn(s)

\* The rows after enqueueing a job for each session of S.
Persisted(S) ==
    LET new == {JobFor(s) : s \in {x \in S : row[JobFor(x)] = "unborn"}}
    IN  [j \in Job |-> IF j \in new THEN "due" ELSE row[j]]

Worker(n, j) == [who |-> "worker", slot |-> n, job |-> j]
Flow(k)      == [who |-> "flow", key |-> k]
Operation(j) == [who |-> "operation", job |-> j]

Holds(k, x)   == lock[k] # <<>> /\ Head(lock[k]) = x
WaitFor(k, x) == lock' = [lock EXCEPT ![k] = Append(@, x)]
Release(k)    == lock' = [lock EXCEPT ![k] = Tail(@)]

-------------------------------------------------------------------------------
(********************************* Attempts **********************************)

NoAttempt == [phase |-> "none", locks |-> FALSE]

\* performConversationCleanupJobAttempt: join the attempt under way, or start
\* one whose operation takes the lock itself or not.
Attempt(j, locks) ==
    attempt' = IF attempt[j].phase # "none" THEN attempt
               ELSE [attempt EXCEPT ![j] = [phase |-> "read", locks |-> locks]]

AttemptAt(j, phase) == attempt' = [attempt EXCEPT ![j].phase = phase]

\* The attempt is over: all who wait for it get the same answer.
Settle(j, answer) ==
    /\ attempt' = [attempt EXCEPT ![j] = NoAttempt]
    /\ worker' = [w \in Slot \X Job |->
          IF w[2] = j /\ worker[w] = "waiting"
          THEN IF answer = "threw" THEN "threw" ELSE "answered"
          ELSE worker[w]]
    /\ flow' = [k \in Conv |->
          IF /\ flow[k].phase \in {"waiting", "deleteWaiting"}
             /\ flow[k].job = j /\ flow[k].answer = "none"
          THEN [flow[k] EXCEPT !.answer = answer] ELSE flow[k]]

\* requestProviderCleanupWake
Wake ==
    /\ timer' = "off"
    /\ IF loop = "off"
       THEN loop' = "query" /\ wake' = FALSE /\ processed' = FALSE
       ELSE wake' = TRUE /\ UNCHANGED <<loop, processed>>
    /\ UNCHANGED sweep

\* Mutant: the row is not read again.
AttemptTrustsList(j) ==
    /\ attempt[j].phase = "read"
    /\ AttemptAt(j, IF attempt[j].locks THEN "runtime" ELSE "operate")
    /\ UNCHANGED <<durable, lock, flow, worker, scheduler, notice>>

\* Mutant: an attempt that is deferred counts as one that succeeded.
AttemptDeferredOk(j) ==
    /\ attempt[j].phase = "read"
    /\ IF row[j] = "due"
       THEN AttemptAt(j, IF attempt[j].locks THEN "runtime" ELSE "operate")
            /\ UNCHANGED <<flow, worker>>
       ELSE Settle(j, "ok")
    /\ UNCHANGED <<durable, lock, scheduler, notice>>

\* The row is read again: it may be gone, or have a new retry deadline.
AttemptReads(j) ==
    /\ attempt[j].phase = "read"
    /\ IF row[j] = "due"
       THEN AttemptAt(j, IF attempt[j].locks THEN "runtime" ELSE "operate")
            /\ UNCHANGED <<flow, worker>>
       ELSE Settle(j, IF row[j] = "done" THEN "ok" ELSE "deferred")
    /\ UNCHANGED <<durable, lock, scheduler, notice>>

\* The operation has the agent runtime and asks for the write lock.
OperationWaits(j) ==
    /\ attempt[j].phase = "runtime"
    /\ AttemptAt(j, "lock")
    /\ WaitFor(KeyOf(j), Operation(j))
    /\ UNCHANGED <<durable, flow, worker, scheduler, notice>>

OperationEnters(j) ==
    /\ attempt[j].phase = "lock" /\ Holds(KeyOf(j), Operation(j))
    /\ AttemptAt(j, "operate")
    /\ UNCHANGED <<durable, lock, flow, worker, scheduler, notice>>

OperationLeaves(j) ==
    IF attempt[j].locks THEN Release(KeyOf(j)) ELSE UNCHANGED lock

\* The operation resolves: the provider accepted the call, or knew nothing of
\* the session, or the code found no call to make (no bridge URL, no agent
\* runtime, a newer session or live turns under an empty-session witness).
OperationResolves(j) ==
    /\ attempt[j].phase = "operate"
    /\ resolved' = resolved \cup {j}
    /\ AttemptAt(j, "complete")
    /\ OperationLeaves(j)
    /\ UNCHANGED <<row, gone, flow, worker, scheduler, notice>>

OperationFails(j) ==
    /\ attempt[j].phase = "operate" /\ "provider" \in Faults
    /\ AttemptAt(j, "fail")
    /\ OperationLeaves(j)
    /\ UNCHANGED <<durable, flow, worker, scheduler, notice>>

\* completeConversationCleanupJob
Complete(j) ==
    /\ attempt[j].phase = "complete"
    /\ row' = [row EXCEPT ![j] = "done"]
    /\ Wake
    /\ Settle(j, "ok")
    /\ UNCHANGED <<resolved, gone, lock, notice>>

CompleteFails(j) ==
    /\ attempt[j].phase = "complete" /\ "attempt" \in Faults
    /\ AttemptAt(j, "fail")
    /\ UNCHANGED <<durable, lock, flow, worker, scheduler, notice>>

\* failConversationCleanupJob
Defer(j) ==
    /\ attempt[j].phase = "fail"
    /\ row' = [row EXCEPT ![j] = "deferred"]
    /\ Wake
    /\ Settle(j, "failed")
    /\ UNCHANGED <<resolved, gone, lock, notice>>

\* The row can be neither read nor written: the attempt rejects.
AttemptRejects(j) ==
    /\ attempt[j].phase \in {"read", "fail"} /\ "attempt" \in Faults
    /\ Settle(j, "threw")
    /\ UNCHANGED <<durable, lock, scheduler, notice>>

-------------------------------------------------------------------------------
(***************************** Foreground flows ******************************)

NoJob == <<>>

Rest == [phase |-> "idle", session |-> "none", job |-> NoJob, answer |-> "none"]

FlowAt(k, phase) == flow' = [flow EXCEPT ![k].phase = phase]

\* A turn of k is deleted, or an edit truncates its turns: inside the lock.
StartTurnFlow(k) ==
    /\ flow[k] = Rest /\ k \notin gone
    /\ FlowAt(k, "lock")
    /\ WaitFor(k, Flow(k))
    /\ UNCHANGED <<durable, attempt, worker, scheduler, notice>>

\* detachProviderSession, detachProviderForEdit: enqueue, then attempt.
TurnFlowAttempts(k) ==
    /\ flow[k].phase = "lock" /\ Holds(k, Flow(k))
    /\ \E s \in Session :
          /\ SessionOf[s] = k /\ Enqueuable(s)
          /\ row' = Persisted({s})
          /\ Attempt(JobFor(s), FALSE)
          /\ flow' = [flow EXCEPT ![k] =
                [phase |-> "waiting", session |-> s, job |-> JobFor(s), answer |-> "none"]]
    /\ notice' = TRUE
    /\ UNCHANGED <<resolved, gone, lock, worker, scheduler>>

\* The job cannot be persisted, or there is no session: nothing is attempted.
TurnFlowGivesUp(k) ==
    /\ flow[k].phase = "lock" /\ Holds(k, Flow(k))
    /\ flow' = [flow EXCEPT ![k] = Rest]
    /\ Release(k)
    /\ UNCHANGED <<durable, attempt, worker, scheduler, notice>>

\* A deleted Claude turn without scope or instance has no job: its session is
\* invalidated directly, inside the lock.
TurnFlowCalls(k) ==
    /\ flow[k].phase = "lock" /\ Holds(k, Flow(k))
    /\ \E s \in Claude :
          /\ SessionOf[s] = k
          /\ flow' = [flow EXCEPT ![k] = [@ EXCEPT !.phase = "turnCall", !.session = s]]
    /\ UNCHANGED <<durable, attempt, lock, worker, scheduler, notice>>

TurnFlowEnds(k) ==
    /\ \/ flow[k].phase = "waiting" /\ flow[k].answer # "none"
       \/ flow[k].phase = "turnCall"
    /\ flow' = [flow EXCEPT ![k] = Rest]
    /\ Release(k)
    /\ UNCHANGED <<durable, attempt, worker, scheduler, notice>>

\* finalizeConversationDeletion: the local rows first, inside the lock.
StartDeletion(k) ==
    /\ flow[k] = Rest /\ k \notin gone
    /\ FlowAt(k, "deleteLock")
    /\ WaitFor(k, Flow(k))
    /\ UNCHANGED <<durable, attempt, worker, scheduler, notice>>

\* The transaction persists a job for the conversation's own session and for
\* those of its pending turns.  It tells nobody.
DeleteRows(k) ==
    /\ flow[k].phase = "deleteLock" /\ Holds(k, Flow(k))
    /\ \E s \in Session, S \in SUBSET {x \in Session : SessionOf[x] = k} :
          /\ s \in S /\ \A x \in S : Enqueuable(x)
          /\ row' = Persisted(S)
          /\ flow' = [flow EXCEPT ![k] = [@ EXCEPT !.phase = "post", !.session = s]]
    /\ gone' = gone \cup {k}
    /\ Release(k)
    /\ UNCHANGED <<resolved, attempt, worker, scheduler, notice>>

DeleteRowsFails(k) ==
    /\ flow[k].phase = "deleteLock" /\ Holds(k, Flow(k))
    /\ flow' = [flow EXCEPT ![k] = Rest]
    /\ Release(k)
    /\ UNCHANGED <<durable, attempt, worker, scheduler, notice>>

\* After the local cleanup: enqueue, then attempt, outside the lock.
DeletionAttempts(k) ==
    /\ flow[k].phase = "post" /\ Enqueuable(flow[k].session)
    /\ LET s == flow[k].session IN
       /\ row' = Persisted({s})
       /\ Attempt(JobFor(s), s \in Claude)
       /\ flow' = [flow EXCEPT ![k] = [@ EXCEPT !.phase = "deleteWaiting", !.job = JobFor(s)]]
    /\ notice' = TRUE
    /\ UNCHANGED <<resolved, gone, lock, worker, scheduler>>

\* enqueueConversationCleanupJob threw, or there is nothing to identify the
\* session by: the Claude session is invalidated directly, which takes the lock.
DeletionAsksForLock(k) ==
    /\ flow[k].phase = "post" /\ flow[k].session \in Claude
    /\ FlowAt(k, "callLock")
    /\ WaitFor(k, Flow(k))
    /\ UNCHANGED <<durable, attempt, worker, scheduler, notice>>

\* Mutant: the direct call does not wait until the lock is its own.
DeletionCallsAtOnce(k) ==
    /\ flow[k].phase = "callLock"
    /\ FlowAt(k, "call")
    /\ UNCHANGED <<durable, attempt, lock, worker, scheduler, notice>>

\* The direct call goes out.  A Codex thread's does at once, and only where
\* enqueueing answered null: where it threw, the deletion reports the error.
DeletionCalls(k) ==
    /\ \/ flow[k].phase = "callLock" /\ Holds(k, Flow(k))
       \/ /\ flow[k].phase = "post" /\ flow[k].session \notin Claude
          /\ "nodb" \in Faults
    /\ FlowAt(k, "call")
    /\ UNCHANGED <<durable, attempt, lock, worker, scheduler, notice>>

\* Mutant: the deletion ends without a word to the wake loop.
DeletionCallEndsQuietly(k) ==
    /\ flow[k].phase = "call"
    /\ IF flow[k].session \in Claude THEN Release(k) ELSE UNCHANGED lock
    /\ flow' = [flow EXCEPT ![k] = Rest]
    /\ UNCHANGED <<durable, attempt, worker, scheduler, notice>>

\* A direct call has no row: that it failed is a warning of the deletion.
DeletionCallEnds(k) ==
    /\ flow[k].phase = "call"
    /\ IF flow[k].session \in Claude THEN Release(k) ELSE UNCHANGED lock
    /\ flow' = [flow EXCEPT ![k] = Rest]
    /\ notice' = TRUE
    /\ UNCHANGED <<durable, attempt, worker, scheduler>>

\* The deletion ends, its job attempted, or a Codex job not persisted again.
DeletionEnds(k) ==
    /\ \/ flow[k].phase = "deleteWaiting" /\ flow[k].answer # "none"
       \/ flow[k].phase = "post" /\ flow[k].session \notin Claude
    /\ flow' = [flow EXCEPT ![k] = Rest]
    /\ notice' = TRUE
    /\ UNCHANGED <<durable, attempt, lock, worker, scheduler>>

\* ensureQueuedProviderCleanupJob, enqueueCodexArchiveRecovery: a job is
\* enqueued and left to the wake loop.
EnqueueOnly(s) ==
    /\ Enqueuable(s)
    /\ row' = Persisted({s})
    /\ notice' = TRUE
    /\ UNCHANGED <<resolved, gone, tasks, scheduler>>

-------------------------------------------------------------------------------
(******************************* The wake loop *******************************)

\* scheduleConversationCleanupJobsChangedNotification's timer.
NoticeFires ==
    /\ notice
    /\ notice' = FALSE
    /\ Wake
    /\ UNCHANGED <<durable, tasks>>

TimerFires ==
    /\ timer # "off"
    /\ Wake
    /\ UNCHANGED <<durable, tasks, notice>>

RetryDue(j) ==
    /\ row[j] = "deferred"
    /\ row' = [row EXCEPT ![j] = "due"]
    /\ UNCHANGED <<resolved, gone, tasks, scheduler, notice>>

\* The loop looks at the queue again.
Again(done) == loop' = "query" /\ wake' = FALSE /\ processed' = done

\* The loop ends with a timer armed; a wake meanwhile starts it anew.
LoopEnds(armed) ==
    IF wake THEN Again(FALSE) /\ timer' = "off"
    ELSE loop' = "off" /\ timer' = armed /\ UNCHANGED <<wake, processed>>

\* getNextProviderCleanupAt, and what the loop makes of it.
Query ==
    /\ loop = "query"
    /\ IF wake THEN Again(processed) /\ UNCHANGED timer
       ELSE IF \A j \in Job : ~LiveRow(j) THEN LoopEnds(timer)
       ELSE IF \A j \in Job : row[j] # "due" THEN LoopEnds("retry")
       ELSE IF processed THEN LoopEnds("retry")
       ELSE loop' = "list" /\ UNCHANGED <<wake, processed, timer>>
    /\ UNCHANGED <<durable, tasks, sweep, notice>>

\* Mutant: a failed query is not retried.
QueryFailsForGood ==
    /\ loop = "query" /\ "query" \in Faults
    /\ LoopEnds("off")
    /\ UNCHANGED <<durable, tasks, sweep, notice>>

QueryFails ==
    /\ loop = "query" /\ "query" \in Faults
    /\ LoopEnds("retry")
    /\ UNCHANGED <<durable, tasks, sweep, notice>>

\* The listings of S, each element once.
Listings(S) ==
    { q \in [1 .. Cardinality(S) -> S] : \A x \in S : \E n \in DOMAIN q : q[n] = x }

\* processPendingConversationCleanupJobs: a worker for each due job, which
\* asks for the write lock of its conversation first.
List ==
    /\ loop = "list"
    /\ LET due == {j \in Job : row[j] = "due"} IN
       IF due = {} THEN Again(TRUE) /\ UNCHANGED <<lock, worker, sweep>>
       ELSE \E n \in Slot :
          /\ \A j \in Job : worker[<<n, j>>] = "idle"
          /\ worker' = [w \in Slot \X Job |->
                IF w[1] = n /\ w[2] \in due THEN "lock" ELSE worker[w]]
          /\ \E q \in [Conv -> UNION {Listings(D) : D \in SUBSET due}] :
                /\ \A k \in Conv : q[k] \in Listings({j \in due : KeyOf(j) = k})
                /\ lock' = [k \in Conv |->
                      lock[k] \o [m \in DOMAIN q[k] |-> Worker(n, q[k][m])]]
          /\ loop' = "sweep" /\ sweep' = n
          /\ UNCHANGED <<wake, processed>>
    /\ UNCHANGED <<durable, attempt, flow, timer, notice>>

ListFails ==
    /\ loop = "list" /\ "query" \in Faults
    /\ LoopEnds("retry")
    /\ UNCHANGED <<durable, tasks, sweep, notice>>

\* Mutant: the attempt is joined before the lock is asked for.
WorkerSkipsLock(n, j) ==
    /\ worker[<<n, j>>] = "lock"
    /\ Attempt(j, FALSE)
    /\ worker' = [worker EXCEPT ![<<n, j>>] = "waiting"]
    /\ UNCHANGED <<durable, lock, flow, scheduler, notice>>

WorkerAttempts(n, j) ==
    /\ worker[<<n, j>>] = "lock" /\ Holds(KeyOf(j), Worker(n, j))
    /\ Attempt(j, FALSE)
    /\ worker' = [worker EXCEPT ![<<n, j>>] = "waiting"]
    /\ UNCHANGED <<durable, lock, flow, scheduler, notice>>

WorkerEnds(n, j) ==
    /\ worker[<<n, j>>] = "answered"
    /\ worker' = [worker EXCEPT ![<<n, j>>] = "idle"]
    /\ Release(KeyOf(j))
    /\ UNCHANGED <<durable, attempt, flow, scheduler, notice>>

\* A worker whose attempt rejected ends the sweep the loop waits for; the
\* other workers of the sweep go on.
WorkerThrows(n, j) ==
    /\ worker[<<n, j>>] = "threw"
    /\ worker' = [worker EXCEPT ![<<n, j>>] = "idle"]
    /\ Release(KeyOf(j))
    /\ IF loop = "sweep" /\ sweep = n
       THEN LoopEnds("retry")
       ELSE UNCHANGED <<loop, wake, processed, timer>>
    /\ UNCHANGED <<durable, attempt, flow, sweep, notice>>

SweepEnds ==
    /\ loop = "sweep" /\ \A j \in Job : worker[<<sweep, j>>] = "idle"
    /\ Again(TRUE)
    /\ UNCHANGED <<durable, tasks, sweep, timer, notice>>

-------------------------------------------------------------------------------
(******************************** The system *********************************)

Idle == [w \in Slot \X Job |-> "idle"]

\* A process that starts wakes the loop.
Boot ==
    /\ attempt' = [j \in Job |-> NoAttempt]
    /\ lock' = [k \in Conv |-> <<>>]
    /\ flow' = [k \in Conv |-> Rest]
    /\ worker' = Idle
    /\ loop' = "query" /\ sweep' = sweep /\ processed' = FALSE /\ wake' = FALSE
    /\ timer' = "off" /\ notice' = FALSE

Crash ==
    /\ Boot
    /\ UNCHANGED durable

Init ==
    /\ row = [j \in Job |-> "unborn"]
    /\ resolved = {} /\ gone = {}
    /\ attempt = [j \in Job |-> NoAttempt]
    /\ lock = [k \in Conv |-> <<>>]
    /\ flow = [k \in Conv |-> Rest]
    /\ worker = Idle
    /\ loop = "query" /\ sweep \in Slot /\ processed = FALSE /\ wake = FALSE
    /\ timer = "off" /\ notice = FALSE

AttemptStep(j) ==
    \/ AttemptReads(j) \/ OperationWaits(j) \/ OperationEnters(j)
    \/ OperationResolves(j) \/ OperationFails(j)
    \/ Complete(j) \/ CompleteFails(j) \/ Defer(j) \/ AttemptRejects(j)

FlowStep(k) ==
    \/ TurnFlowAttempts(k) \/ TurnFlowGivesUp(k) \/ TurnFlowCalls(k) \/ TurnFlowEnds(k)
    \/ DeleteRows(k) \/ DeleteRowsFails(k) \/ DeletionAttempts(k) \/ DeletionEnds(k)
    \/ DeletionAsksForLock(k) \/ DeletionCalls(k) \/ DeletionCallEnds(k)

WorkerStep(n, j) == WorkerAttempts(n, j) \/ WorkerEnds(n, j) \/ WorkerThrows(n, j)

LoopStep == Query \/ QueryFails \/ List \/ ListFails \/ SweepEnds

Next ==
    \/ \E j \in Job : AttemptStep(j) \/ RetryDue(j)
    \/ \E k \in Conv : StartTurnFlow(k) \/ StartDeletion(k) \/ FlowStep(k)
    \/ \E n \in Slot, j \in Job : WorkerStep(n, j)
    \/ \E s \in Session : EnqueueOnly(s)
    \/ LoopStep \/ NoticeFires \/ TimerFires
    \/ Crash

Spec == Init /\ [][Next]_vars

Failure ==
    \/ \E j \in Job : OperationFails(j) \/ CompleteFails(j) \/ AttemptRejects(j)
    \/ QueryFails \/ ListFails

\* Every promise of the process settles and every timer fires.  The loop gets
\* past a wake-up that came while it queried, and failures and crashes end some
\* day.
Fairness ==
    /\ \A j \in Job : WF_vars(AttemptStep(j)) /\ WF_vars(RetryDue(j))
    /\ \A k \in Conv : WF_vars(FlowStep(k))
    /\ \A n \in Slot, j \in Job : WF_vars(WorkerStep(n, j))
    /\ WF_vars(LoopStep) /\ WF_vars(NoticeFires) /\ WF_vars(TimerFires)
    /\ SF_vars(~wake /\ Query)
    /\ <>[][~Failure /\ ~Crash]_vars

FairSpec == Spec /\ Fairness

-------------------------------------------------------------------------------
(******************************** Properties *********************************)

\* The type invariant, and the unique index of the table of jobs.
TypeOK ==
    /\ row \in [Job -> {"unborn", "due", "deferred", "done"}]
    /\ \A s \in Session : Cardinality(Live(s)) <= 1
    /\ resolved \subseteq Job /\ gone \subseteq Conv
    /\ attempt \in [Job ->
          [phase : {"none", "read", "runtime", "lock", "operate", "complete", "fail"},
           locks : BOOLEAN]]
    /\ \A k \in Conv : \A m \in DOMAIN lock[k] :
          lock[k][m] \in {Flow(k)} \cup {Operation(j) : j \in Job}
                        \cup {Worker(n, j) : n \in Slot, j \in Job}
    /\ \A k \in Conv : flow[k].phase \in
          {"idle", "lock", "waiting", "turnCall",
           "deleteLock", "post", "deleteWaiting", "callLock", "call"}
    /\ worker \in [Slot \X Job -> {"idle", "lock", "waiting", "answered", "threw"}]
    /\ loop \in {"off", "query", "list", "sweep"} /\ sweep \in Slot
    /\ processed \in BOOLEAN /\ wake \in BOOLEAN /\ notice \in BOOLEAN
    /\ timer \in {"off", "retry"}

Called == {j \in Job : attempt[j].phase \in {"operate", "complete", "fail"}}

\* A provider session is not archived or invalidated again before the outcome of
\* the last attempt is recorded, whoever enqueues and attempts jobs for it.  Nor
\* is a Claude session invalidated by a flow that has no job meanwhile: such a
\* call is shared with nobody, and only the write lock keeps it apart.
OneOperationPerSession ==
    /\ \A i, j \in Called : i[1] = j[1] => i = j
    /\ \A k \in Conv : \A j \in Called :
          /\ flow[k].phase \in {"turnCall", "call"} /\ flow[k].session \in Claude
          => j[1] # flow[k].session

\* The provider is only called for a job that is still there and whose retry
\* deadline has passed, also when a listing of the queue was overtaken.
OperatesOnDueRow ==
    \A j \in Job : attempt[j].phase = "operate" => row[j] = "due"

\* Whoever holds the conversation's write lock while a Claude session is
\* invalidated waits for that invalidation, by a job or directly: no request of
\* the conversation writes meanwhile.
ClaudeOpHoldsLock ==
    /\ \A j \in Job : attempt[j].phase = "operate" /\ j[1] \in Claude =>
          \/ Holds(KeyOf(j), Operation(j))
          \/ \E n \in Slot : Holds(KeyOf(j), Worker(n, j)) /\ worker[<<n, j>>] = "waiting"
          \/ Holds(KeyOf(j), Flow(KeyOf(j))) /\ flow[KeyOf(j)].job = j
    /\ \A k \in Conv :
          flow[k].phase \in {"turnCall", "call"} /\ flow[k].session \in Claude
          => Holds(k, Flow(k))

\* The wake loop loses no job: while one is in the table the loop runs, or has
\* a timer or a notification to start it, or a deletion will still send one.
JobsWatched ==
    \A j \in Job : LiveRow(j) =>
       \/ loop # "off" \/ timer # "off" \/ notice
       \/ flow[KeyOf(j)].phase \in {"post", "deleteWaiting", "callLock", "call"}

\* A flow told that its attempt succeeded can rely on it: an operation for its
\* job did resolve, in this attempt or in one that was over before the row was
\* read again; a failed, deferred or lost attempt is never reported as success.
OkMeansResolved ==
    \A k \in Conv : flow[k].answer = "ok" => flow[k].job \in resolved

\* Nobody holds the write lock of a conversation while it waits for an attempt
\* whose operation waits for that lock ("the reverse ordering can deadlock
\* when each path waits on the other", conversationDeletion.ts).
NoLockCycle ==
    \A j \in Job : attempt[j].phase = "lock" =>
       /\ ~(Holds(KeyOf(j), Flow(KeyOf(j))) /\ flow[KeyOf(j)].job = j)
       /\ \A n \in Slot :
             ~(Holds(KeyOf(j), Worker(n, j)) /\ worker[<<n, j>>] = "waiting")

\* Unless that deadlock strikes, every job's row is done with in the end, crashes
\* included: its operation is tried until it resolves (whether the provider was
\* called then is OperationResolves' business).
RowsSettle ==
    ([]NoLockCycle) => \A j \in Job : LiveRow(j) ~> row[j] = "done"
===============================================================================
