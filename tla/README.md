# Verification of llm-for-zotero

TLA+ models of the concurrent, failure-prone core of the plugin, TLC runs that
check them on small instances, and TLAPS proofs for every instance. Paths below
are relative to the repository root.

## The system

llm-for-zotero is a Zotero plugin: panels inside Zotero in which a user talks to
language models (directly, through the Codex app-server, through the Claude
bridge, through a browser) about the library, and agents that read and change
it. It is one JavaScript process. There are no threads; everything that can go
wrong concurrently goes wrong at an `await`, in a timer or in a callback, and
everything that survives is in SQLite tables.

### Inventory

| Component | State it keeps | Operations | Hard behaviour | What makes it correct |
|---|---|---|---|---|
| Pending deletion store (`core/conversations/pendingDeletionStore.ts`) | table of intents; `entries`, `timers`, `conversationOpChains`, unrecorded queue intents, `destructivelyFinalizedIds` | queue a conversation or turn deletion, Undo, finalize (timer, fork, send), sweeps, load after restart | lanes per conversation, timers racing Undo, every database call can fail, crash between any two calls | a decision is never lost, Undo is true and final, rows go only behind a durable marker, every intent has a next attempt |
| Write fence (`shared/conversationWriteFence.ts`) | frozen keys, write generations, a lock per key | freeze, bump, check, lock | check before an await, use after it | no write into a deletion or across one; a live chat is given back |
| Deletion finalizers (`modules/contextPanel/conversationDeletion.ts`) | none of their own | verify identity, transaction, clean-up, provider job | each step fails on its own; retried after a crash | retries finish what was begun and nothing else |
| Provider cleanup jobs (`core/conversations/conversationCleanupJobs.ts`) | table of jobs, attempts under way | enqueue, attempt, complete, defer | attempts shared between foreground and background, stale listings | one call at a time, on a due row |
| Provider wake loop (`modules/contextPanel/pendingDeletionWiring.ts`) | loop, pending wake, timer | wake, query, sweep | lost wake-ups, a sweep that ends before its workers | no job is forgotten |
| Requests (`modules/contextPanel/chat.ts`) | history in memory | send, retry, edit | long-running, write after many awaits | writes pass the fence |
| Conversation repository, key ledger, registry | catalogs, messages, retired keys | create, fork, delete rows, allocate keys | key reuse, partial migrations | a key names one conversation for ever |
| Library text index (`services/libraryTextIndex`) | tables of documents and of queued jobs; drain, timer, rekick, a chain of changes to handle, text held in memory | enqueue, drain, handle a change, write through, reconcile, start, stop, clear | change notified while the paper is indexed, stale memory, lost kicks, restart during a drain | the newest content is indexed in the end, and a row never passes old text for new |
| Change journal (`agent/store/changeJournal.ts`, `agent/services/*Coordinator.ts`, `changeReverter.ts`, `services/mutationActionContext.ts`) | actions and steps with statuses and inverses; the write window | prepare, claim, apply, record, reconcile, retry, undo, recover | crash between a Zotero write and its record, edits of the user, failing statements | what was written can be undone or is known to be uncertain; an undo takes nothing else with it |
| Agent loop, long jobs (`agent/loop`, `agent/store/batch*`) | turns, batch jobs and items | run, stop, resume | interrupted batches | no item twice, none lost |
| Event writer (`agent/store/runEventWriter.ts`) | buffer, chain | enqueue, flush, close | failed batches, timer | order kept, losses reported |
| Codex client, MCP server, WebChat relay, MinerU sync, attachment storage, model providers | sessions, processes, files | protocol and I/O | restarts, timeouts | mostly I/O, see "Not modelled" |
| Panels, rendering, preferences | user interface | buttons | - | their buttons are the requests of the models |

The deletion path was chosen first: it is where the code itself spends the most
comments on races, it is destructive, and a test can reach only a few of its
interleavings. The journal and the text index came next for the same reasons:
the journal is what makes the agent's writes to a library reversible, and the
index is filled by four flows that meet at every `await`.

## Modules

| Module | What it is |
|---|---|
| `WriteFence` | the fence and the requests that write through it |
| `PendingDeletion` | store, finalizers, requests, loader, crash; extends `WriteFence` |
| `DeletionPromise` | what deletion promises, with no lanes, timers or tables |
| `PendingDeletionInvariant` | the inductive invariant `IInv` and the parts added to it for the fence, the promise and the next attempt |
| `PendingDeletion_proof`, `PendingDeletionSafety_proof` | theorems: types, steps, durable decisions, the fence of conversations |
| `PendingDeletionFence_proof` | theorems: what the fence means for turns and for requests that write |
| `PendingDeletionPromise_proof` | theorems: the refinement of `DeletionPromise`, Undo, markers, the next attempt |
| `MCPendingDeletion` | instances for TLC |
| `ProviderCleanup`, `MCProviderCleanup` | cleanup jobs, wake loop, the flows that attempt jobs; instances for TLC |
| `ProviderCleanup_proof` | theorems |
| `ChangeJournal`, `MCChangeJournal` | the journal of library writes, the calls that make them, undo, recovery; instances for TLC |
| `ChangeJournal_proof` | theorems: types, window, edits of the user, failed actions, rows in flight |
| `ChangeJournalHistory_proof` | theorems: what an undo leaves, failed actions that are retried, who erases an inverse |
| `TextIndex`, `MCTextIndex` | index, queue, drain, reconcile, handling of changes; instances for TLC |
| `TextIndex_proof` | theorems |

The three parts share no state in the code (the journal's writes reach the index
as notifications of Zotero, which `TextIndex` has from its environment), so they
are not composed into one module.

### PendingDeletion and the code

* **Steps.** An operation of a lane (`enqueueConversationOp`) is split at every
  `await`; `pc[k]` says where the operation at the head of lane `k` is. A
  database call and the code that runs when it returns are one step: calls are
  served in order, and nothing of the same lane can run in between.
* **Lane.** A lane is the sequence of operations queued on a conversation. The
  counters `unrecordedQueueIntents` and `unrecordedConversationQueueIntents` are
  derived from it (a queue operation counts from the request until it has run),
  and so is `scheduledFinalizations` (a `finalize` in the lane).
* **Intents.** `row` is the table, `entry` the loaded entries, both by id. The
  code draws the id when the operation runs; here it is drawn with the request,
  which nothing observes.
* **Time** is what the code asks of it: is the six-second window over
  (`expired`), is a timer armed. Windows of one conversation end in the order
  they began. Delays and back-off are left out.
* **Writers.** A request asks whether deletions are pending, captures a
  generation, validates its scope, and then, at every write, takes the lock and
  checks. Only whether the key was bumped since matters of a generation.
* **Loader.** Startup loads the intents before panels mount; a send can load
  them too, and the deferred startup task sweeps. The loop over the rows read
  pauses only at a row it cannot decode (`UnreadableRow`); such a row belongs to
  no modelled conversation. `sweepExpired` and `sweepAllPersisted` keep other
  loads out until their finalizations have run; the model lets a load begin
  earlier, which allows more behaviours, not fewer.
* **Crash** clears all of memory at any step and keeps the tables.
* **Quiet** is an explicit stutter for a system at rest, so that TLC's deadlock
  check remains on: anything else without a successor would be an error.

Left out: restore requests, `finalizeForConversation` and
`restoreConversationDeletionsFor` (nothing calls them), finalizers that were
never configured, the test-only `forceExpired`, and the `dropped` outcome.

### ProviderCleanup and the code

A job is (session, n): a session whose job was completed gets a new id. Flows
that delete or edit turns hold the write lock around enqueue and attempt
(`detachProviderSession`, `detachProviderForEdit`). The deletion of a
conversation commits the jobs together with its rows, leaves the lock, then
enqueues and attempts again; for Claude the operation itself takes the lock
(`invalidateClaudeConversationSession`). A worker of the wake loop takes the
lock first. `wake`, `timer`, `notice` and `loop` are `providerWakePending`,
`providerTimer`, the scheduled notification and the position of
`runProviderCleanupLoop`. Deletion, edit and turn flows of one conversation
exclude each other (lane and freeze), hence one `flow` per conversation. Jobs in
`attention_required` are treated as the code treats them here, like pending
ones: the wiring passes `includeAttentionRequired: true`. The slow maintenance
sweep and reconfiguration inside one process are not modelled.

* **An operation that resolves** need not have reached the provider: with no bridge
  URL (`claudeCode/runtime.ts:343`), no agent runtime (`conversationDeletion.ts:318`,
  `:341`) or an empty-session witness that no longer holds (`runtime.ts:313`) the
  code has nothing to call, and the job is completed all the same. `resolved` says
  which jobs had such an operation; no property says more of the provider.
* **Direct calls.** Where no job could be persisted a flow calls the provider itself,
  and nobody shares that call: a deleted turn inside its lock (`TurnFlowCalls`,
  wiring 443-454), the deletion of a Claude conversation under the lock it asks for
  (`DeletionAsksForLock`, `conversationDeletion.ts:861-878`), that of a Codex one
  without a lock (`DeletionCalls`, 797-817). The last happens only where
  `enqueueConversationCleanupJob` answered null for want of a database ("nodb"); where
  it threw, the deletion reports the error. `OneOperationPerSession` claims nothing
  of the Codex call: no lock keeps an attempt for the same thread from running
  beside it; a thread the provider no longer finds counts as archived.

### ChangeJournal and the code

* **Actions and steps.** An action is a row of `agent_change_actions`, one tool
  call; `lib` in the instances is a call of `executeLibraryMutationAction` with
  its operations in order, `note` a call of `executePreparedNoteChange`. `step`
  is the table of steps, with the status, whether an inverse is stored, and the
  pre- and post-image. `phase` and `at` say where a call is in
  `executeJournaledStep`: every journal statement and every call into Zotero is
  a step.
* **Objects** hold the number of the step that wrote them last, `Original`,
  `Edited` (by the user while nobody was at work on the object) or `MidEdit(n)` (the
  user's n-th edit, in the middle of a call's or an undo's work, between its look
  and its write: no program that reads and then writes through Zotero can save such
  an edit). Every edit in the middle leaves a value of its own; one in "repeat" may
  leave an earlier one's.
* **Window.** `withActiveMutationAction` admits one action at a time and its own
  nested calls. `window`, `outer`.
* **Undo** reads its rows when it selects the action (`undo[a].seen`) and decides
  by them; claims and the final statement are made on the table as it then is.
* **Restart** is a crash at any point together with the recovery of
  `initAgentChangeJournal`, which runs before anything else uses the journal; the
  retirement of inverses after it may fail.
* **Faults.** "db": a statement of the journal fails. "throw": a call into Zotero
  fails, before or after its effect. "partial": an operation changes some of its
  targets. "resume": a note change is retried. "overlap": an undo and a call of
  the same action run at the same time (the code does not prevent it). "repeat": two
  edits in the middle of some work leave the same text. There are at most
  `MaxFaults` of the first two and of retries.

A note is read again after the write and recorded only when it is what was written
(`Record` and `Differs`); when it is not, the call ends "uncertain" with no failure
anywhere. Assets of a note that cannot be imported, or are left incomplete, end the
write the same way (a disjunct of `WriteNote`).

Left out: composite actions and batches of new notes, inverses that exist only
after the write, the intermediate "applying" row and the "partial" reversibility of a
note with assets (`preparedNoteChange.ts:191-218`), script snapshots, recovery blobs,
observations of effects, and the deletion of a conversation's journal. An operation has one object, so what a
step with several targets leaves behind is seen as a whole.

### TextIndex and the code

* **Versions.** A file is a version number; a row of `documents` records the
  version of its text and the version of its size and time (`text`, `stat`), a
  job its priority, its attempts and whether its backoff is over. `memory` is
  `pdfTextCache`.
* **The trash.** A paper in the trash still resolves (`there`, `trash`): its change
  removes the row and the job, but a later edit, a question that reads it or any
  start queues it again, and the drain indexes it. It drops a job only when the
  paper is erased.
* **Four flows** move at every read and write: the chain of changes
  (`handler`, on the first of `notices`, `found` being what the row said when it was
  read), the reconcile of a start (`recon`, one step for each of its statements), the
  drain (`drain`) and write-through (`reads`). `timer`, `rekick` and
  `drain.current` (the generation) are the scheduler's own.
* **Timer.** `Now`, or the job whose backoff it waits for; `BackoffEnds` is the
  passing of time. `quiet` is: the user is idle and no question is retrieving.
* **Stop and start.** `Quit` is a regular end or a crash, `ClearStops` and
  `ClearStarts` are `clearNow`: a drain that is stopped leaves the queue alone.
  `Closed` is a drain that outlives the grace period of ten seconds.
* **Attempts.** `MaxAttempts` is 3 in the code. It is 2 in `text_index_settles` (one
  failure before and one at the limit) and 1 in `text_index`, where a failure parks.
* **Races** name schedules that nothing in the code excludes and that break one of
  the properties; an instance lists those it admits. "cached": a file is replaced
  while its old text is in memory. "window": it is replaced between the reads of
  its text and of its stat. "overlap": a paper's change is handled while the paper
  is indexed. "snapshot": a paper is added after the reconcile has taken its
  snapshot, which can then take its fresh row for that of a paper that is gone.
  "grace": a start comes over a drain that hangs. "error": an access to the index
  fails. What each breaks is under "Known deviations".

Left out: the size budget and eviction, vectors, tokenizer re-posting, changes of
parser and chunker versions, group libraries, the other source of text when a
paper has no file (and with it `mineruUpgrade` and `textInvalidated`,
`paperTextStore.ts:147-161`, which restart a parked job, too), the soft limit on
retrieval, and failing reads in the handler.

## Runs

All properties are defined, with the code behaviour they are about, in
`PendingDeletion`, `ProviderCleanup`, `ChangeJournal` and `TextIndex`.

| Run | Bounds | What it shows |
|---|---|---|
| `writes` | one chat, two turns, one request, two deletions, one crash, no faults | no write into a deletion, pending from before the crash or not, none across a decision, no fence opened under a turn's deletion |
| `record_faults` | one crash; INSERT, UPDATE, DELETE of an intent may fail | every loaded intent has a next attempt; no durable decision is dropped; the store implements `DeletionPromise`; `IInv` holds |
| `finalize_faults` | two deletions, one crash; INSERT, DELETE and SELECT of intents, verification, transaction and clean-up may fail | the fence of a conversation is neither opened too early nor left closed; rows go behind a marker and only for an intent whose Undo is over, conversations and turns alike; an Undo of the only decision is true; implements `DeletionPromise` |
| `settles` | fair, one deletion, one crash, a row that cannot be decoded | every decision ends, every frozen chat comes back, no decision is lost |
| `cleanup_jobs` | fair, a Claude chat with two sessions, three jobs, provider, attempt and query failures, crashes | one call at a time, direct calls included, on a due row, under the lock; "ok" means an operation resolved; no job lost; all done in the end unless the deadlock strikes |
| `journal` | a call with two changes and a note change that share an object; one failure, one edit, two undos, one restart | nothing failed that is in the library, nothing undone that is still there, no inverse erased that is needed, no edit undone; one action at a time in the window |
| `journal_retries` | fair, one change each of one object; partial effects, retries, two failures, one edit, one undo, one restart | every call and undo ends, no row stays claimed, and what is reported undone is |
| `text_index` | one paper, two versions, two changes (trash, restore and erase among them), one read, one retrieval, two starts; failing index, drain that hangs | no old text passes for new, nothing forgotten, no erased paper indexed, parked jobs stay parked |
| `text_index_settles` | fair, two papers, one change, two starts, failing extraction | the queue is never left without a timer; every paper is indexed in the end or has used up its attempts |
| `cleanup_deadlock` | violation | finding 1 |
| `interrupted_partial_write` | violation | finding 2 |
| `backoff_delays_new_work` | violation | finding 3 |

**Why the bounds suffice.** Conversations share only the id counter, the loader
and the database, so one conversation meets every race of a lane; the proofs
cover many. Two intents give every pair: conversation and turn, two turns, the
same thing twice. `LaneMax` = 2 holds back user actions only; timers, sweeps and
sends of the system enqueue regardless. One crash suffices for a property of
what a restart finds, since a restart forgets all but the tables. Faults are
split over runs to keep each small, and because some break some properties ("mark"
`MarkerPrecedesRows`, "select" `Heartbeat`); every fault can occur any number of
times.
In `cleanup_jobs` crashes are unbounded (a crash leads back to a state with nothing
but tables), and three jobs give a second job of one session and two jobs in one
sweep. One slot is one sweep whose workers outlive it; sweeps beside each other
(liveness with two slots does not finish in reasonable time) and Codex chats are
covered by the theorems, which are for any slots and sessions. In `journal` two
actions that share an object give a write over a write, an undo under a later
write, and a wait for the window; the second object and the second step of `lib`
give an action of which only a part is done. A restart forgets everything but the
tables, so one suffices for what it finds; the second undo is the retry of a
failed one or the undo of the other action. In `text_index` papers meet only in
the order of the queue, the timer and the reconcile, so the properties of rows
need one paper, and `text_index_settles` has two. Two versions of a file are an
old and a new one; two starts are a start and a clear, or a start and a restart.

**Fairness.** `PendingDeletion`: promises settle (weak fairness of each lane),
timers fire, a write leaves its critical section, the startup task runs. Failures
end some day: every failure is retried for ever, so without this nothing can be
promised; an identity that can never be verified stays quarantined and is
excluded by it. No fairness of the user is assumed. `ProviderCleanup`: the same
for attempts, flows, workers and timers; crashes end too; and the loop's query is
strongly fair when no wake-up interrupts it, since the loop queries again for as
long as wake-ups keep arriving and these come from enqueues and finished
attempts. `RowsSettle` holds under the condition that the deadlock of finding 1
does not strike. `ChangeJournal`: a call or undo under way goes on (weak), and the
window is handed over in order of arrival, a promise chain in the code (strong for
those who wait for it). `TextIndex`: handler, reconcile, drain, writes through and
timers go on, backoffs end, the user is idle at some time and Zotero is started
again; nothing is assumed of extraction, which may fail every time: a paper then
ends with its attempts used up.

## Findings

1. **Deadlock of the foreground deletion of a Claude chat and the wake loop**
   (`conversationDeletion.ts:851`, `:911`; run `cleanup_deadlock`). Lock and attempt
   are taken in opposite orders, which the comment at 907 says must not be.
2. **An interrupted partial change loses its inverse** (`changeJournal.ts:400`; run
   `interrupted_partial_write`). The recovery does not count steps that are
   "partially_applied"; the action becomes "failed", its inverses are erased and
   the history hides it. The header of the file promises the opposite.
3. **New work waits for the backoff of other work** (`scheduler.ts:937`, `:793`; run
   `backoff_delays_new_work`). What is enqueued between the drain's two looks at the
   queue is hidden by a job of higher priority that backs off, and its kick is
   dropped. A comment and a test say that it must not wait.

### Known deviations

Each is reproduced by the constants named here; they have no run of their own.

| Constants | Property | What happens |
|---|---|---|
| `PendingDeletion`: Faults {"mark"}, MaxId 1 | `MarkerPrecedesRows` | the state in memory becomes "committing" before the write that may fail (`pendingDeletionStore.ts:844`); the retry deletes rows whose intent still reads "undoable" |
| Faults {"mark"}, MaxId 1, one crash | `LoneUndoRestoresRows` | the same retry: after a restart the intent can be undone though its rows are gone |
| Faults {"insert"} | `TurnFence` | a conversation deletion that cannot be recorded thaws pending turn deletions (`:1313`) |
| UnreadableRow TRUE | `UndoIsFinal`, `KeepsPromise`, `LoneUndoRestoresRows` | the loader awaits in the middle of its result set and then trusts what it read before (`:1756`): an undone deletion comes back |
| Faults {"insert"}, a writer | `NoWriteAfterDelete` | a failed second deletion thaws the key of a deleted chat and has not bumped its generation (`:1313`, `:1235`) |
| Faults {"insert"}, a writer, two requests | `NoWriteAcrossDecision` | the second request of a deletion already requested bumps no generation (`:1235`), and when it cannot be recorded the key thaws: a request from between the two goes on to write |
| two decisions | `UndoRestoresRows` | Undo of one of two overlapping deletions reports what is gone as restored (`:743`) |
| `ChangeJournal`: Faults {"overlap"} | `RevertedMeansRestored` | an uncertain action is undone while its call still runs, and the call writes after it |
| {"overlap", "resume"} | `WindowExclusive` | the window is reentrant for one action: its retry and its undo share it |
| {"db", "resume"}, MaxFaults 2 | `FailedMeansUntouched`, `RevertedMeansRestored`, `ErasesNoLiveChange` | a retried change that is in the library is recorded as failed when a statement fails before its second write; an undo then passes over it, and its inverse is erased |
| {"db", "repeat"}, MaxEdits 2 | `RevertedMeansRestored` | a step whose post-image was an edit in the middle is undone, its mark is not saved, the step before it is undone too; the user enters the same text again, and the retried undo takes that for its own post-image and puts the undone step's value back |
| `TextIndex`: Races {"cached"} or {"window"} | `StatTellsText`, `NothingForgotten` | the old text is indexed under the new file's size and time, and is never found stale |
| none | - | a paper in the trash is indexed again by the next start or edit (`scheduler.ts:440-446`, `:758-763`); `NoGhosts` speaks of erased papers only |
| {"overlap"} | `NothingForgotten`, `NoGhosts`, `ParkedStaysParked` | the end of an indexing removes the job that a newer change has put there, or restores a row that was deleted |
| {"snapshot"} | `NothingForgotten` | the reconcile deletes the row of a paper that was added after its snapshot |
| {"grace"} | `QueueWatched` | a start over a drain that hangs leaves its kick with that drain, which drops it |
| {"error"} | `QueueWatched` | a drain that fails arms no timer; the queue waits for the next kick |

## Proofs

A theorem holds for every value of the constants the named ASSUMEs of its module
allow. Faults and races that break a property are hypotheses of its theorem; each
of them is a known deviation, a finding or a listed hazard unless something else
is said here. The races of `TextIndex` were each found by TLC to break the property
whose theorem excludes them.

### PendingDeletion

For every set of conversations, turns and requests, every bound, any number of
crashes and every combination of faults but those in the last column:

| Theorem | Statement | Without |
|---|---|---|
| `TypeCorrect` | `[](TypeOK /\ LaneInv)` | |
| `StepsCorrect` | `[]StepInv`: an operation under way has its entry; past the transaction what the intent deletes is gone | |
| `Inductive` | `[]IInv` | |
| `FenceCorrect` | `[]ConversationFence` | |
| `DecisionsDurable` | `DecisionDurable` | |
| `FencesComeBack` | `[]NoFrozenLeak` | |
| `NoneIntoPending` | `NoWriteIntoPendingDeletion` | |
| `TurnsFenced` | `[]TurnFence` | "insert" |
| `WritesIntoExisting` | `[]NoWriteAfterDelete` | "insert" |
| `NoneCross` | `NoWriteAcrossDecision` | "insert" |
| `PromiseKept` | `KeepsPromise` | undecodable rows |
| `UndoneStays` | `UndoIsFinal` | undecodable rows |
| `MarkersPrecedeRows` | `MarkerPrecedesRows` | "mark" |
| `LoneUndoIsTrue` | `LoneUndoRestoresRows` | "mark", undecodable rows |
| `NoneStranded` | `[]Heartbeat` | "select" (hazard at `hooks.ts:356`) |

`ConversationFence` and `DecisionDurable` are not inductive: whether an intent
may be withdrawn depends on where its lane is. `IInv` adds what the lanes know.
`LaneInv`: an operation is about a requested intent of its own conversation, and
unused ids have neither row, entry nor snapshot. `StepInv`: each phase belongs to
one kind of operation, an intent being undone or finalized has its entry, turns
are gone when their conversation is, and from "post", "stale" and "postTurn" on
so is the target. `FenceInv`: a conversation deletion not yet recorded has frozen
its key. The types and the lane part do not need the rest, so they are proved
first and cited; then one lemma per group of actions, one step per action.

*The fence.* `AnyFence` is `ConversationFence` for turns, and for what still waits
to be recorded; a failed INSERT is what breaks it. Without one a request that may
write has a conversation to write into (`WritersAlive`), and one that a deletion
has crossed has an old generation or a frozen key until it gives up
(`CrossedStopped`). That no write starts in a pending deletion needs no such
hypothesis (`BlockInv`): while a deletion of the conversation is queued or loaded
no request may write, whether the fence or the generation stops it; requests begin
after the first load (`FenceFirst`), and since then every row of the table is
loaded (`RowsLoaded`).

*The promise.* The refinement maps every step to a step of `DeletionPromise` or a
stutter. The step that records a decision must find it absent, so `QueueInv`: what
waits to be recorded waits once, and neither table nor store knows it. The step
that deletes rows must find its decision pending, so `RecordInv`: what is loaded is
in the table, and what was undone is neither there nor waiting to be. An
undecodable row lets the loader use what it read before an `await`, and both
fail. `MarkInv`: the table is behind the store only where the marker is being
written, an Undo is of an undoable intent, and a finalization past its marker of
one that is not. `DecidedInv` (for `UndoIsFinal`): a finalization
under way is of an intent whose Undo is over.
`LoneInv`: the target of the only decision about it exists for as
long as that decision can be undone.

*The next attempt.* `HeartInv` is by phase of the start-up: until the first load
nothing is loaded (`LoadInv`), the sweep is the only later load (`BootInv`), and
from its load on every intent has a timer, an operation, or is in the list the
sweep is working off (`SweptInv`).

### ProviderCleanup

For every set of conversations, every finite set of sessions (a table has finitely
many), every bound, all failures and crashes (`ProviderCleanup_proof`):
`TypeCorrect` (`[]TypeOK`, with the unique index), `OneOperation`
(`[]OneOperationPerSession`, direct calls of flows included), `DueRows`
(`[]OperatesOnDueRow`), `OkIsTrue` (`[]OkMeansResolved`), `NoJobForgotten`
(`[]JobsWatched`), `ClaudeLockHeld` (`[]ClaudeOpHoldsLock`); and `ArchivesNeverDeadlock`: with no Claude sessions
`[]NoLockCycle`, so the deadlock of finding 1 needs one.

`RowInv` is inductive without the locks: a session has one live row; an attempt
past its re-reading of the row is about a due one; what is done or about to be had an
operation that resolved, and so it is where a flow was answered "ok". A row
changes under an attempt only by that attempt, as attempts are shared per job.
`LockInv` builds on it: whoever is past the request for the lock of a
conversation holds it, a flow that calls the provider directly among them, and an
attempt on a Claude session that does not take the lock itself is awaited by someone inside it. A release hands the lock to the next
in line and to nobody else, because everyone queues at most once at a time.

### ChangeJournal

For every set of actions, steps and objects and all bounds (`ChangeJournal_proof`,
the last three `ChangeJournalHistory_proof`):

| Theorem | Statement | Without |
|---|---|---|
| `TypeCorrect` | `[]TypeOK` | |
| `WindowCorrect` | `[]WindowExclusive` | "overlap" |
| `EditsSpared` | `UndoSparesEdits` | "overlap" |
| `FailedIsUntouched` | `[]FailedMeansUntouched` | "partial", "resume", "overlap" |
| `OwnerInFlight` | `[]InFlightHasOwner` | "db", "overlap" |
| `RevertedIsRestored` | `[]RevertedMeansRestored` | "overlap", "repeat", "db" with "resume" |
| `RetriedIsUntouched` | `[]FailedMeansUntouched` | "partial", "overlap", "repeat", "db" with "resume" |
| `ErasedIsGone` | `ErasesNoLiveChange` | "partial", "overlap", "repeat", "db" with "resume" |

"Without" names what a theorem leaves out: each of these faults, or the two of them
in one instance.

`UndoSparesEdits` needs two inductive invariants. `WindowInv`: who works on an
object or replays an inverse holds the window, and has opened it. `EditInv`: a step whose
post-image is an edit of the user is one that an undo passes over; the post-image
an undo has read is still the row's; a call that may record has not recorded an
edit; and when an inverse is about to run its object is no edit, because the undo
looks again after its claim. Together they leave no step of an undo that
overwrites an edit.

`FailedMeansUntouched` is about the library, but a value that is not there now can
come back when an undo replays an older pre-image. `KeptInv` is therefore about
every value that is in the library or in a pre-image somebody has stored or read:
the row of its step says that there was a change. It comes with what each phase of
a call knows: steps before the current one are recorded, later ones have no row,
and the current one has left no trace until it is written. A partial effect
(finding 2) breaks it; a retry together with failing statements does too (known
deviation), and without them is what `RetriedIsUntouched` adds. "overlap" is excluded
because the arguments go through the window, which it breaks together with a retry;
whether it breaks `UndoSparesEdits`, `FailedMeansUntouched` or `InFlightHasOwner` is
not known, small instances show no case. With "db" a row stays in flight when the
statement that would settle it fails, until the next start recovers it.

*What an undo brings back.* When an inverse puts a pre-image back, no other step's
value may come back with it that was reported undone. Two kinds of invariants carry
the argument. `FlowInv` says how the rows go with those who work on them: what an
undo has read of its rows is what they still say but for its own doing, a step it is
through with has nothing left unless it failed, and a retry is never refused when no
statement fails. `HistoryInv` is about the past: there are a set `W`, which holds
every value that has been in the library, and for each of them the values `reach[v]`
an undo can lead back to, such that the library holds values of `W`; the pre-image of
a step does not lead back to the step (the history has no cycles); the post-image
leads to the pre-image; a step without a row was never in the library; and what is
there does not lead to a step that failed or was undone. `W` and `reach` are not in
the model, where nothing depends on them: the invariant says that they exist, and
each step of the system is shown to extend them. A write adds the step's value in
front of its pre-image, an edit in the middle one in front of what it replaces, and
an inverse only goes back, so nothing that was gone becomes reachable. Two edits that
leave the same text would join two histories ("repeat").

`OutcomeInv` adds, for the other two theorems, what the rows say of the steps a call
is through with: those before the current one are recorded, an action called without
effect, or impossible to undo, keeps inverses only for changes that were not made.
An inverse goes in three places: in a first row (nothing there yet), at the end of an
undo (nothing left to take back), at a start (the step or its action is final), and
in each what is in place excludes every status but "no_effect".

### TextIndex

For every set of papers and all bounds (`TextIndex_proof`):

| Theorem | Statement | Without |
|---|---|---|
| `TypeCorrect` | `[]TypeOK` | |
| `QueueIsWatched` | `[]QueueWatched` | "grace", "error" |
| `RowsTellTheText` | `[]StatTellsText` | "cached", "window" |
| `ParkedJobsStay` | `ParkedStaysParked` | "overlap" |
| `GonePapersGo` | `[]NoGhosts` | "overlap" |
| `NoPaperForgotten` | `[]NothingForgotten` | "cached", "window", "overlap", "snapshot" |

`TypeOK` alone is not inductive: a failed attempt must not pass the
limit, so `Fresh` says that the job of the paper at work has attempts left.
`LoopInv` (for `QueueWatched`) says that, with neither timer nor drain, every job
waits for the user to be idle or is parked, and the same of a drain that has found
nothing and of the jobs it saw backing off: what became runnable in between has
left a rekick. A reconcile that has queued a paper kicks at its end only, so until
then it is the one who watches (`ReconKicks`). `TextInv`: text in memory is that of
the file or borrowed by the drain, and at the step that writes a row text and stat agree. `ParkInv`: a change
under way has not met its own paper in the drain, and a parked job it is about to
restart has a row.

The last two theorems say that somebody always knows of a paper that is not as the
index has it. `GhostInv`: a row of an erased paper, or a drain that may still write
one, has a change that waits to remove it, or a row has a reconcile that will.
`HandlerInv`: before a start no change waits, and a paper is removed only for a
change that says so. `CoverInv` is about the papers outside the trash (`Visible`):
one with a file is current, queued, named by a change, or the reconcile under way
will still queue it (`Covered`, by the reconcile's phase). `SeenInv`: the snapshot
has every paper that is there, and a removal still waiting for one that came back
is followed by the change that brings it back. `FoundInv`: the row that a change has
read is the one that is there, unless the paper has come back since. `JobInv`: a job about to leave the queue is of a
paper that is indexed as it is or has changed since.

### Only model-checked

Liveness (`EveryDecisionSettles`, `ChatComesBack`, `ActionsSettle`,
`EventuallyIndexed`, `RowsSettle`): fairness and ENABLED are out of the prover's
reach. Every other property of a passing run is stated by a theorem, under the
hypotheses named there. `UndoRestoresRows` is not claimed (known deviations).
Nothing in the models is recursive, so there is no induction over data that the
proofs would leave out.

## Plan

Done: deletion and its fence, provider cleanup, the journal, the text index. What
would come next, in this order:

1. **Proofs**: the journal and the index under the faults and races that are
   excluded but break nothing in the instances ("overlap" of the journal first).
2. **Key ledger and repository**: a key is never given to a second conversation.
3. **Batch jobs of the agent** (`agent/store/batch*`): resumption, no item twice.
4. **Eviction and vectors of the text index**: the size budget against the queue.

## Not modelled

Rendering, preferences, prompts, streaming and model catalogues have no shared
state whose interleaving matters. Codex client, MCP server, relay and MinerU are
mainly protocol I/O. Witnesses of identity (catalog creation time, instance id)
are reduced to "verified, gone, cannot tell". What the modelled modules leave out is
named in their sections above. Undefined behaviour does not arise:
the language has none here. See `PROJECT.json` for the status of every component.

## Running

    tlc -workers 2 -config writes.cfg MCPendingDeletion.tla
    tlc -workers 2 -config cleanup_jobs.cfg MCProviderCleanup.tla
    tlc -workers 2 -config journal.cfg MCChangeJournal.tla
    tlc -workers 2 -config text_index.cfg MCTextIndex.tla
    tlapm PendingDeletion_proof.tla
    tlapm PendingDeletionSafety_proof.tla
    tlapm PendingDeletionFence_proof.tla
    tlapm PendingDeletionPromise_proof.tla
    tlapm ProviderCleanup_proof.tla
    tlapm ChangeJournal_proof.tla
    tlapm ChangeJournalHistory_proof.tla
    tlapm TextIndex_proof.tla
