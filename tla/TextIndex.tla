------------------------------ MODULE TextIndex ------------------------------
(***************************************************************************)
(* The library text index: a table of indexed papers and a queue of papers *)
(* to index, filled in the background.  Changes of the library are handled *)
(* one after another; a reconcile compares the library with the index at   *)
(* every start; a drain takes one job from the queue at a time.  Each of   *)
(* them gives way at every read and write, so their steps interleave.      *)
(*                                                                         *)
(* A paper's file is a version number, 0 when there is no file.  A version *)
(* stands for the text and for the size and time of the file: which of     *)
(* them a row of the index holds is the subject of this module.            *)
(***************************************************************************)
EXTENDS Integers, Sequences, FiniteSets

CONSTANTS Docs,         \* the PDF attachments
          MaxFile,      \* versions of a file
          MaxAttempts,  \* INDEX_MAX_ATTEMPTS
          None,         \* no job, no timer
          Now,          \* a timer without a backoff
          Races,        \* which of "cached", "window", "overlap", "snapshot", "grace",
                        \* "error" may happen
          MaxChanges, MaxReads, MaxBusy, MaxStarts

ASSUME ConstantsAssumption ==
    /\ IsFiniteSet(Docs) /\ None \notin Docs /\ Now \notin Docs /\ None # Now
    /\ {MaxFile, MaxAttempts} \subseteq Nat \ {0}
    /\ {MaxChanges, MaxReads, MaxBusy, MaxStarts} \subseteq Nat

VARIABLES there,    \* the papers that resolve, those in the trash with them
          trash,    \* the papers in the trash
          file,     \* paper -> version of its file
          memory,   \* paper -> version whose text is held in memory, or 0
          quiet,    \* the user is idle and no retrieval is under way
          mode,     \* "off", "on", or "clearing"
          doc,      \* paper -> its row in the index
          queue,    \* paper -> its row in the queue
          notices,  \* changes of the library that wait to be handled
          handler,  \* where the handling of the first of them is
          found,    \* the file recorded in the row it has read, or -1
          reads,    \* papers a question has read: to be written through
          recon,    \* where the reconcile is
          timer,    \* Now, or the job whose backoff it waits for, or None
          drain,    \* where the drain is
          rekick,   \* a kick came while draining
          changes, nreads, busy, starts

library == <<there, trash, file, memory, quiet>>
index == <<doc, queue>>
incoming == <<notices, handler, found, reads, recon>>
drainer == <<timer, drain, rekick>>
bounds == <<changes, nreads, busy, starts>>
vars == <<there, trash, file, memory, quiet, mode, doc, queue, notices, handler,
          found, reads, recon, timer, drain, rekick, changes, nreads, busy, starts>>

NoRow == [text |-> -1, stat |-> -1]
HasRow(d) == doc[d] # NoRow
\* Priorities of a job; from UrgentMin on it runs while the user works, below
\* only while all is quiet.
Prefetch == 0
OfStale == 2        \* found stale by the reconcile
OfChange == 9       \* added or modified
OfRead == 10        \* written through
UrgentMin == 5
NoJob == [priority |-> -1, attempts |-> 0, ready |-> FALSE]
Queued(d) == queue[d] # NoJob

\* Mutant: one attempt too many.
ParkedLate(d) == queue[d].attempts > MaxAttempts

\* A job that has used up its attempts.
Parked(d) == queue[d].attempts >= MaxAttempts

Idle == [phase |-> "idle", doc |-> None, text |-> 0, stat |-> 0, borrowed |-> FALSE,
         current |-> TRUE, waiting |-> {}]
NoRecon == [phase |-> "idle", eligible |-> {}, rows |-> {}, listed |-> [d \in Docs |-> -1],
            stale |-> {}, missing |-> {}]

Init ==
    /\ there \in SUBSET Docs /\ trash = {} /\ file \in [Docs -> 0..1]
    /\ memory = [d \in Docs |-> 0] /\ quiet = FALSE /\ mode = "off"
    /\ doc = [d \in Docs |-> NoRow] /\ queue = [d \in Docs |-> NoJob]
    /\ notices = <<>> /\ handler = "idle" /\ found = -1 /\ reads = {} /\ recon = NoRecon
    /\ timer = None /\ drain = Idle /\ rekick = FALSE
    /\ changes = 0 /\ nreads = 0 /\ busy = 0 /\ starts = 0

Draining == drain.phase # "idle"

\* A kick arms the timer for now, or is remembered by the drain under way.
Kick ==
    /\ timer' = IF mode = "on" /\ ~Draining THEN Now ELSE timer
    /\ rekick' = (rekick \/ (mode = "on" /\ Draining))
    /\ UNCHANGED drain

\* store.enqueue: the higher priority wins, and the row starts afresh.
Enqueue(D, priority) ==
    queue' = [d \in Docs |-> IF d \notin D THEN queue[d] ELSE
        [priority |-> IF queue[d].priority > priority THEN queue[d].priority ELSE priority,
         attempts |-> 0, ready |-> TRUE]]

\* store.deleteDocuments: the row and the job.
Delete(D) ==
    /\ doc' = [d \in Docs |-> IF d \in D THEN NoRow ELSE doc[d]]
    /\ queue' = [d \in Docs |-> IF d \in D THEN NoJob ELSE queue[d]]

\* scheduler.staleReason: the file is there and is not the one recorded.
Stale(d, recorded) == file[d] # 0 /\ recorded # file[d]
-----------------------------------------------------------------------------
\* The library and its user.

Notice(event, d) ==
    notices' = IF mode = "on" THEN Append(notices, <<event, d>>) ELSE notices

\* Nothing in the code keeps the following apart; an instance without a race
\* looks at the schedules where they are.
AtJob(d) == drain.doc = d
InWindow(d) == AtJob(d) /\ drain.phase = "stat"       \* its text is read, its stat is not
Held(d) == memory[d] # 0 /\ ~(AtJob(d) /\ drain.borrowed)
Counted == changes < MaxChanges /\ changes' = changes + 1

\* A file is downloaded or replaced.
FileChanges(d) ==
    /\ d \in there /\ file[d] < MaxFile /\ Counted
    /\ InWindow(d) => "window" \in Races
    /\ Held(d) => "cached" \in Races
    /\ file' = [file EXCEPT ![d] = @ + 1] /\ Notice("modify", d)
    /\ UNCHANGED <<there, trash, memory, quiet, mode, index, handler, found, reads,
                   recon, drainer, nreads, busy, starts>>

\* Its metadata are edited.
Touched(d) ==
    /\ d \in there /\ mode = "on" /\ Counted /\ Notice("modify", d)
    /\ UNCHANGED <<library, mode, index, handler, found, reads, recon, drainer,
                   nreads, busy, starts>>

Added(d) ==
    /\ d \notin there /\ Counted /\ there' = there \union {d}
    /\ mode = "clearing" \/ recon.phase \notin {"idle", "snapshot"} => "snapshot" \in Races
    /\ Notice("add", d)
    /\ UNCHANGED <<trash, file, memory, quiet, mode, index, handler, found, reads, recon,
                   drainer, nreads, busy, starts>>

\* It is moved to the trash, where it still resolves, and restored from it.
Trashed(d) ==
    /\ d \in there \ trash /\ Counted
    /\ trash' = trash \union {d} /\ Notice("delete", d)
    /\ UNCHANGED <<there, file, memory, quiet, mode, index, handler, found, reads, recon,
                   drainer, nreads, busy, starts>>

Restored(d) ==
    /\ d \in trash /\ Counted
    /\ mode = "clearing" => "snapshot" \in Races
    /\ trash' = trash \ {d} /\ Notice("modify", d)
    /\ UNCHANGED <<there, file, memory, quiet, mode, index, handler, found, reads, recon,
                   drainer, nreads, busy, starts>>

\* It is erased.
Erased(d) ==
    /\ d \in there /\ Counted
    /\ there' = there \ {d} /\ trash' = trash \ {d} /\ Notice("delete", d)
    /\ UNCHANGED <<file, memory, quiet, mode, index, handler, found, reads, recon,
                   drainer, nreads, busy, starts>>

\* A question reads the paper.  Only a load that is not in memory is written
\* through to the index.
AgentReads(d) ==
    /\ d \in there /\ file[d] # 0 /\ memory[d] = 0 /\ mode # "off"
    /\ nreads < MaxReads /\ nreads' = nreads + 1
    /\ memory' = [memory EXCEPT ![d] = file[d]]
    /\ reads' = IF mode = "on" THEN reads \union {d} ELSE reads
    /\ UNCHANGED <<there, trash, file, quiet, mode, index, notices, handler, found, recon, drainer,
                   changes, busy, starts>>

BecomesBusy ==
    /\ quiet /\ busy < MaxBusy /\ busy' = busy + 1 /\ quiet' = FALSE
    /\ UNCHANGED <<there, trash, file, memory, mode, index, incoming, drainer,
                   changes, nreads, starts>>

\* onUserIdleChange, or the end of the last retrieval.
BecomesQuiet ==
    /\ ~quiet /\ quiet' = TRUE /\ Kick
    /\ UNCHANGED <<there, trash, file, memory, mode, index, incoming, bounds>>
-----------------------------------------------------------------------------
\* The handling of a change.

Head1 == Head(notices)
HandlerDone == handler' = "idle" /\ notices' = Tail(notices) /\ found' = -1
HandlerAt(p) == handler' = p /\ UNCHANGED <<notices, found>>

HandleNext ==
    /\ mode # "off" /\ handler = "idle" /\ notices # <<>>
    /\ AtJob(Head1[2]) => "overlap" \in Races
    /\ HandlerAt(CASE Head1[1] = "delete" -> "remove"
                   [] Head1[1] = "add" -> "enqueue"
                   [] Head1[1] = "modify" -> "row")
    /\ UNCHANGED <<library, mode, index, reads, recon, drainer, bounds>>

HandleRemove ==
    /\ handler = "remove" /\ HandlerDone /\ Delete({Head1[2]})
    /\ UNCHANGED <<library, mode, reads, recon, drainer, bounds>>

\* An indexed paper is extracted again only if its file is not the one recorded
\* in the row that was read.
HandleRow ==
    /\ handler = "row" /\ UNCHANGED notices
    /\ found' = doc[Head1[2]].stat
    /\ handler' = IF HasRow(Head1[2]) THEN "stat" ELSE "queued"
    /\ UNCHANGED <<library, mode, index, reads, recon, drainer, bounds>>

HandleStat ==
    /\ handler = "stat"
    /\ IF Stale(Head1[2], found) THEN HandlerAt("enqueue") ELSE HandlerDone
    /\ UNCHANGED <<library, mode, index, reads, recon, drainer, bounds>>

\* Mutant: a parked job does not count as queued.
HandleQueuedRevives ==
    /\ handler = "queued"
    /\ IF Queued(Head1[2]) /\ ~Parked(Head1[2]) THEN HandlerDone ELSE HandlerAt("enqueue")
    /\ UNCHANGED <<library, mode, index, reads, recon, drainer, bounds>>

\* A job that waits already, parked or not, is left as it is.
HandleQueued ==
    /\ handler = "queued"
    /\ IF Queued(Head1[2]) THEN HandlerDone ELSE HandlerAt("enqueue")
    /\ UNCHANGED <<library, mode, index, reads, recon, drainer, bounds>>

\* Many papers at once are prefetched.
HandleEnqueue ==
    /\ handler = "enqueue" /\ HandlerDone /\ Kick
    /\ \E priority \in {OfChange, Prefetch} : Enqueue({Head1[2]}, priority)
    /\ UNCHANGED <<library, mode, doc, reads, recon, bounds>>

WriteThrough(d) ==
    /\ mode # "off" /\ d \in reads /\ reads' = reads \ {d}
    /\ Enqueue({d}, OfRead) /\ Kick
    /\ UNCHANGED <<library, mode, doc, notices, handler, found, recon, bounds>>
-----------------------------------------------------------------------------
\* The reconcile of a start.  It sees every paper that resolves, the trash too.

ReconLooks == UNCHANGED <<library, mode, notices, handler, found, reads, drainer, bounds>>

ReconSnapshot ==
    /\ recon.phase = "snapshot" /\ ReconLooks /\ UNCHANGED index
    /\ recon' = [recon EXCEPT !.phase = "documents", !.eligible = there]

\* Mutant: rows of papers that are gone stay.
ReconDocumentsKeeps ==
    /\ recon.phase = "documents" /\ ReconLooks /\ UNCHANGED index
    /\ recon' = [recon EXCEPT !.phase = "stat",
                    !.rows = {d \in recon.eligible : HasRow(d)},
                    !.listed = [d \in Docs |-> doc[d].stat]]

\* Rows of papers that are not in the snapshot go.
ReconDocuments ==
    /\ recon.phase = "documents" /\ ReconLooks
    /\ recon' = [recon EXCEPT !.phase = "stat",
                    !.rows = {d \in recon.eligible : HasRow(d)},
                    !.listed = [d \in Docs |-> doc[d].stat]]
    /\ Delete({d \in Docs \ recon.eligible : HasRow(d)})

ReconStat ==
    /\ recon.phase = "stat" /\ ReconLooks /\ UNCHANGED index
    /\ recon' = [recon EXCEPT !.phase = "stale",
                    !.stale = {d \in recon.rows : Stale(d, recon.listed[d])},
                    !.listed = NoRecon.listed]

\* Mutant: stale papers are looked for and forgotten.
ReconStaleForgets ==
    /\ recon.phase = "stale" /\ ReconLooks /\ UNCHANGED index
    /\ recon' = [recon EXCEPT !.phase = "reset"]

\* Stale papers start afresh, ...
ReconStale ==
    /\ recon.phase = "stale" /\ ReconLooks /\ UNCHANGED doc
    /\ recon' = [recon EXCEPT !.phase = "reset"]
    /\ Enqueue(recon.stale, OfStale)

\* store.resetAttempts: ... with all their attempts.
ReconReset ==
    /\ recon.phase = "reset" /\ ReconLooks /\ UNCHANGED doc
    /\ recon' = [recon EXCEPT !.phase = "queued"]
    /\ queue' = [d \in Docs |-> IF d \in recon.stale /\ Queued(d)
                                 THEN [queue[d] EXCEPT !.attempts = 0, !.ready = TRUE]
                                 ELSE queue[d]]

\* Papers that are neither indexed nor queued are queued.
ReconQueued ==
    /\ recon.phase = "queued" /\ ReconLooks /\ UNCHANGED index
    /\ recon' = [recon EXCEPT !.phase = "missing",
                    !.missing = {d \in recon.eligible \ recon.rows : ~Queued(d)}]

ReconMissing ==
    /\ recon.phase = "missing" /\ recon' = NoRecon
    /\ Enqueue(recon.missing, Prefetch)
    /\ IF recon.stale \union recon.missing = {} THEN UNCHANGED drainer ELSE Kick
    /\ UNCHANGED <<library, mode, doc, notices, handler, found, reads, bounds>>
-----------------------------------------------------------------------------
\* The drain.

Ready(d) == Queued(d) /\ queue[d].ready /\ ~Parked(d)
\* store.dequeueNext takes the oldest job of the highest priority.
First(D) == {d \in D : \A e \in D : queue[e].priority <= queue[d].priority}
Runnable == {d \in Docs : Ready(d) /\ (queue[d].priority >= UrgentMin \/ quiet)}

\* Time passes: a backoff ends.
BackoffEnds(d) ==
    /\ Queued(d) /\ ~queue[d].ready /\ ~Parked(d)
    /\ queue' = [queue EXCEPT ![d].ready = TRUE]
    /\ UNCHANGED <<library, mode, doc, incoming, drainer, bounds>>

\* The timer fires.
DrainStarts ==
    /\ mode = "on" /\ timer # None /\ ~Draining
    /\ timer \in Docs => ~Queued(timer) \/ queue[timer].ready
    /\ timer' = None /\ rekick' = FALSE
    /\ drain' = [Idle EXCEPT !.phase = "pick"]
    /\ UNCHANGED <<library, mode, index, incoming, bounds>>

At(p) == drain' = [drain EXCEPT !.phase = p]

\* Mutant: a kick that came while draining is forgotten.
EndsDeaf(next) ==
    /\ drain' = Idle /\ rekick' = FALSE
    /\ timer' = IF drain.current THEN next ELSE timer

\* The end of every drain: the next one comes at once, with a backoff, or when
\* something kicks.  A stopped drain does not wake the next.
Ends(next) ==
    /\ drain' = Idle /\ rekick' = FALSE
    /\ timer' = IF ~drain.current THEN timer
                ELSE IF next = None /\ rekick THEN Now ELSE next

Pick ==
    /\ drain.phase = "pick" /\ Runnable # {}
    /\ handler # "idle" /\ Head1[2] \in Runnable => "overlap" \in Races
    /\ \E d \in First(Runnable) :
          drain' = [drain EXCEPT !.phase = IF d \in there THEN "text" ELSE "drop", !.doc = d]
    /\ UNCHANGED <<library, mode, index, incoming, timer, rekick, bounds>>

PickNothing ==
    /\ drain.phase = "pick" /\ Runnable = {}
    /\ drain' = [drain EXCEPT !.phase = "quiet",
                    !.waiting = {d \in Docs : Queued(d) /\ ~queue[d].ready}]
    /\ UNCHANGED <<library, mode, index, incoming, timer, rekick, bounds>>

\* Mutant: nobody comes back when a backoff is over.
QuietForGood ==
    /\ drain.phase = "quiet" /\ Ends(None)
    /\ UNCHANGED <<library, mode, index, incoming, bounds>>

\* Nothing to do now: the drain comes back when a backoff that was running when
\* it looked ends.  The job it takes that from is the first of the queue, not
\* the one whose backoff ends first.
Quiet ==
    /\ drain.phase = "quiet"
    /\ LET jobs == {d \in Docs : Queued(d) /\ ~Parked(d)}
       IN \/ jobs = {} /\ Ends(None)
          \/ \E d \in First(jobs) : Ends(IF d \in drain.waiting THEN d ELSE None)
    /\ UNCHANGED <<library, mode, index, incoming, bounds>>

\* The paper is gone.
Drop ==
    /\ drain.phase = "drop"
    /\ queue' = [queue EXCEPT ![drain.doc] = NoJob] /\ Ends(Now)
    /\ UNCHANGED <<library, mode, doc, incoming, bounds>>

\* The text, from memory if it is there.
LoadText ==
    /\ drain.phase = "text"
    /\ LET held == memory[drain.doc]
           text == IF held # 0 THEN held ELSE file[drain.doc]
       IN /\ memory' = [memory EXCEPT ![drain.doc] = text]
          /\ drain' = [drain EXCEPT !.phase = "stat", !.text = text,
                                    !.borrowed = (held = 0)]
    /\ UNCHANGED <<there, trash, file, quiet, mode, index, incoming, timer, rekick, bounds>>

LoadFails ==
    /\ drain.phase = "text" /\ At("failed")
    /\ UNCHANGED <<library, mode, index, incoming, timer, rekick, bounds>>

\* The size and time of the file, once the text is loaded.
ReadStat ==
    /\ drain.phase = "stat"
    /\ drain' = [drain EXCEPT !.stat = file[drain.doc],
          !.phase = IF drain.text = 0 /\ file[drain.doc] = 0 THEN "release" ELSE "row"]
    /\ UNCHANGED <<library, mode, index, incoming, timer, rekick, bounds>>

\* Mutant: the text of an indexed paper is taken for unchanged.
WriteRowStatOnly ==
    /\ drain.phase = "row" /\ At("release")
    /\ doc' = [doc EXCEPT ![drain.doc] =
                  [text |-> IF @ = NoRow THEN drain.text ELSE @.text, stat |-> drain.stat]]
    /\ UNCHANGED <<library, mode, queue, incoming, timer, rekick, bounds>>

\* A new row, or the new size and time of the same text.
WriteRow ==
    /\ drain.phase = "row" /\ At("release")
    /\ doc' = [doc EXCEPT ![drain.doc] = [text |-> drain.text, stat |-> drain.stat]]
    /\ UNCHANGED <<library, mode, queue, incoming, timer, rekick, bounds>>

\* Text that only the index has loaded is dropped.
Release ==
    /\ drain.phase = "release"
    /\ drain' = [drain EXCEPT !.phase = "done", !.borrowed = FALSE]
    /\ memory' = [memory EXCEPT ![drain.doc] = IF drain.borrowed THEN 0 ELSE @]
    /\ UNCHANGED <<there, trash, file, quiet, mode, index, incoming, timer, rekick, bounds>>

\* A drain that was stopped meanwhile leaves the queue alone.
Done ==
    /\ drain.phase = "done"
    /\ IF drain.current
       THEN queue' = [queue EXCEPT ![drain.doc] = NoJob] /\ Ends(Now)
       ELSE UNCHANGED queue /\ Ends(None)
    /\ UNCHANGED <<library, mode, doc, incoming, bounds>>

Failed ==
    /\ drain.phase = "failed"
    /\ IF drain.current
       THEN /\ queue' = IF Queued(drain.doc)
                        THEN [queue EXCEPT ![drain.doc] =
                                 [queue[drain.doc] EXCEPT !.attempts = @ + 1, !.ready = FALSE]]
                        ELSE queue
            /\ Ends(Now)
       ELSE UNCHANGED queue /\ Ends(None)
    /\ UNCHANGED <<library, mode, doc, incoming, bounds>>

Released == [d \in Docs |-> IF AtJob(d) /\ drain.borrowed THEN 0 ELSE memory[d]]

\* An access to the index fails.  While a paper is being indexed that is one
\* more failed attempt; elsewhere the drain ends and nothing wakes the next.
IndexFails ==
    /\ drain.phase \in {"row", "done"} /\ "error" \in Races
    /\ drain' = [drain EXCEPT !.phase = "failed", !.borrowed = FALSE]
    /\ memory' = Released
    /\ UNCHANGED <<there, trash, file, quiet, mode, index, incoming, timer, rekick, bounds>>

DrainFails ==
    /\ drain.phase \in {"pick", "quiet", "drop", "failed"} /\ "error" \in Races
    /\ Ends(None) /\ UNCHANGED <<library, mode, index, incoming, bounds>>

\* Every access of a drain to the index it was started on fails once that is
\* closed.
Closed ==
    /\ drain.phase = "closed" /\ Ends(None) /\ memory' = Released
    /\ UNCHANGED <<there, trash, file, quiet, mode, index, incoming, bounds>>
-----------------------------------------------------------------------------
\* Start, the end of the process, and clearing the index.

StartOver(D, Q) ==
    /\ mode' = "on" /\ doc' = D /\ queue' = Q
    /\ recon' = [NoRecon EXCEPT !.phase = "snapshot"]
    /\ starts < MaxStarts /\ starts' = starts + 1

\* startLibraryTextIndex
Start ==
    /\ mode = "off" /\ StartOver(doc, queue) /\ timer' = Now
    /\ UNCHANGED <<library, notices, handler, found, reads, drain, rekick, changes, nreads, busy>>

\* Zotero quits or crashes: only the two tables stay.
Quit ==
    /\ mode # "off" /\ starts < MaxStarts /\ mode' = "off"
    /\ memory' = [d \in Docs |-> 0] /\ quiet' = FALSE
    /\ notices' = <<>> /\ handler' = "idle" /\ found' = -1 /\ reads' = {} /\ recon' = NoRecon
    /\ timer' = None /\ drain' = Idle /\ rekick' = FALSE
    /\ UNCHANGED <<there, trash, file, index, bounds>>

\* Clearing: the scheduler stops and waits for the drain under way.
ClearStops ==
    /\ mode = "on" /\ starts < MaxStarts /\ mode' = "clearing"
    /\ timer' = None /\ rekick' = FALSE
    /\ drain' = IF Draining THEN [drain EXCEPT !.current = FALSE] ELSE drain
    /\ UNCHANGED <<library, index, incoming, bounds>>

\* Then everything is deleted and started again.  What was handling a change
\* on the closed index gets an error; after ten seconds a drain does, too.
ClearStarts ==
    /\ mode = "clearing" /\ (Draining => "grace" \in Races)
    /\ StartOver([d \in Docs |-> NoRow], [d \in Docs |-> NoJob])
    /\ IF Draining
       THEN timer' = None /\ rekick' = TRUE /\ At("closed")
       ELSE timer' = Now /\ UNCHANGED <<drain, rekick>>
    /\ handler' = "idle" /\ found' = -1
    /\ notices' = IF handler = "idle" THEN notices ELSE Tail(notices)
    /\ UNCHANGED <<library, reads, changes, nreads, busy>>

DrainSteps ==
    \/ DrainStarts \/ Pick \/ PickNothing \/ Quiet \/ Drop \/ LoadText \/ LoadFails
    \/ ReadStat \/ WriteRow \/ Release \/ Done \/ Failed
    \/ IndexFails \/ DrainFails \/ Closed
HandlerSteps ==
    \/ HandleNext \/ HandleRemove \/ HandleRow \/ HandleStat \/ HandleQueued
    \/ HandleEnqueue
ReconSteps ==
    \/ ReconSnapshot \/ ReconDocuments \/ ReconStat
    \/ ReconStale \/ ReconReset \/ ReconQueued \/ ReconMissing
LibrarySteps ==
    \/ \E d \in Docs :
          \/ FileChanges(d) \/ Touched(d) \/ AgentReads(d)
          \/ Added(d) \/ Trashed(d) \/ Restored(d) \/ Erased(d)
    \/ BecomesBusy

Next ==
    \/ LibrarySteps \/ BecomesQuiet \/ HandlerSteps \/ ReconSteps \/ DrainSteps
    \/ \E d \in Docs : WriteThrough(d) \/ BackoffEnds(d)
    \/ Start \/ Quit \/ ClearStops \/ ClearStarts

Spec == Init /\ [][Next]_vars

\* What has begun goes on, timers fire, and the user is idle some time.
Fairness ==
    /\ WF_vars(HandlerSteps) /\ WF_vars(ReconSteps) /\ WF_vars(DrainSteps)
    /\ WF_vars(BecomesQuiet) /\ WF_vars(Start) /\ WF_vars(ClearStarts)
    /\ \A d \in Docs : WF_vars(WriteThrough(d)) /\ WF_vars(BackoffEnds(d))
FairSpec == Spec /\ Fairness
-----------------------------------------------------------------------------
Events == {"add", "modify", "delete"}
Notices == Seq(Events \X Docs)
Timers == Docs \union {None, Now}
Rows == [text : -1..MaxFile, stat : -1..MaxFile]
Jobs == [priority : {-1, Prefetch, OfStale, OfChange, OfRead}, attempts : 0..MaxAttempts,
         ready : BOOLEAN]
ReconPhases == {"idle", "snapshot", "documents", "stat", "stale", "reset", "queued", "missing"}
Recons == [phase : ReconPhases, eligible : SUBSET Docs, rows : SUBSET Docs,
           listed : [Docs -> -1..MaxFile], stale : SUBSET Docs, missing : SUBSET Docs]

AtPaper == {"drop", "text", "stat", "row", "release", "done", "failed"}
Drains ==
    {r \in [phase : {"idle", "pick", "quiet", "closed"} \union AtPaper,
            doc : Docs \union {None}, text : 0..MaxFile, stat : 0..MaxFile,
            borrowed : BOOLEAN, current : BOOLEAN, waiting : SUBSET Docs] :
        r.phase \in AtPaper => r.doc \in Docs}

\* Every variable has the type of what it models: a job under way is one of a
\* paper, a change under way is the first that waits.
TypeOK ==
    /\ there \subseteq Docs /\ trash \subseteq there /\ file \in [Docs -> 0..MaxFile]
    /\ memory \in [Docs -> 0..MaxFile] /\ quiet \in BOOLEAN
    /\ mode \in {"off", "on", "clearing"}
    /\ doc \in [Docs -> Rows] /\ queue \in [Docs -> Jobs]
    /\ notices \in Notices
    /\ handler \in {"idle", "remove", "row", "stat", "queued", "enqueue"}
    /\ handler # "idle" => notices # <<>>
    /\ found \in -1..MaxFile
    /\ reads \subseteq Docs /\ recon \in Recons
    /\ timer \in Timers /\ rekick \in BOOLEAN /\ drain \in Drains
    /\ {changes, nreads, busy, starts} \subseteq Nat

Current(d) == doc[d].text = file[d] /\ doc[d].stat = file[d]
Settled == /\ mode = "on" /\ notices = <<>> /\ handler = "idle" /\ reads = {}
           /\ recon.phase = "idle" /\ ~Draining

\* The reconcile has queued something and kicks when it is done.
ReconKicks == recon.phase \in {"reset", "queued", "missing"} /\ recon.stale # {}

\* A job that may run now is never left without a timer or a drain, or the
\* kick at the end of the reconcile.
QueueWatched == mode = "on" /\ Runnable # {} => timer # None \/ Draining \/ ReconKicks

\* A job whose backoff is over is not kept waiting by another one's.
NoForeignBackoff ==
    mode = "on" /\ ~Draining /\ ~ReconKicks /\ Runnable # {} =>
        \/ timer = Now
        \/ timer \in Docs /\ (Queued(timer) => queue[timer].ready)

\* A row that records the file as it is holds the text of that file: nothing
\* old passes for up to date.
StatTellsText ==
    \A d \in there : HasRow(d) /\ doc[d].stat = file[d] /\ file[d] # 0 => Current(d)

\* Once everything that came in is handled, every paper with a file that is not
\* in the trash is indexed as it is, or waits in the queue, ...
NothingForgotten ==
    Settled => \A d \in there \ trash : file[d] # 0 => Queued(d) \/ Current(d)

\* ... and papers that were erased are not indexed.  One in the trash still may
\* be: the code takes it out when it is trashed and any later change or start
\* brings it back.
NoGhosts == Settled => \A d \in Docs \ there : ~HasRow(d)

\* A paper that could not be extracted is not tried again and again: a parked
\* job starts afresh only for a new file of an indexed paper, a paper that is
\* added or read; an edit of its metadata is no reason, and no start takes it
\* for missing (one that is parked after the reconcile has looked is written
\* over).  New text from MinerU, which is not in this module, is one more reason.
ParkedStaysParked ==
    [][\A d \in Docs : Queued(d) /\ Parked(d) =>
           /\ d \in recon'.missing => d \in recon.missing
           /\ Queued(d)' /\ ~Parked(d)' =>
                 \/ HasRow(d) \/ d \in reads \union recon.stale \union recon.missing
                 \/ notices # <<>> /\ Head1 = <<"add", d>>]_vars

\* In the end every paper with a file is indexed as it is or has used up its
\* attempts, whatever was interrupted on the way.
EventuallyIndexed ==
    \A d \in Docs : <>[](d \in there \ trash /\ file[d] # 0 => Parked(d) \/ Current(d))
=============================================================================
