--------------------------- MODULE TextIndex_proof ---------------------------
(***************************************************************************)
(* Theorems about TextIndex, for every set of papers and every bound.      *)
(* Each names the races it leaves out; the types leave out none.           *)
(***************************************************************************)
EXTENDS TextIndex, SequenceTheorems, TLAPS

\* A job is taken from the queue only while it has attempts left.
Fresh == drain.phase \in AtPaper => queue[drain.doc].attempts < MaxAttempts

\* What the assumptions say of the bounds and of the special values.
LEMMA ConstantFacts ==
    /\ MaxFile \in Nat /\ MaxFile >= 1 /\ MaxAttempts \in Nat /\ MaxAttempts >= 1
    /\ MaxChanges \in Nat /\ MaxReads \in Nat /\ MaxBusy \in Nat /\ MaxStarts \in Nat
    /\ None \notin Docs /\ Now \notin Docs /\ None # Now
BY ConstantsAssumption

\* The missing row, the missing job and the idle drain have their types.
LEMMA RowTypes ==
    /\ NoRow \in Rows /\ NoJob \in Jobs /\ Idle \in Drains /\ NoRow.text = NoRow.stat
    /\ Idle.phase = "idle" /\ Idle.doc = None /\ ~Idle.borrowed /\ Idle.current
BY ConstantFacts DEF NoRow, Rows, NoJob, Jobs, Idle, Drains, AtPaper

\* The queue of changes: one more at its end, or its first one done.
LEMMA NoticeFacts ==
    ASSUME TypeOK, NEW event \in Events, NEW d \in Docs, Notice(event, d)
    PROVE  /\ notices' \in Notices
           /\ notices # <<>> => notices' # <<>> /\ Head(notices') = Head(notices)
<1>1. notices \in Seq(Events \X Docs) /\ <<event, d>> \in Events \X Docs
  BY DEF TypeOK, Notices, Events
<1>2. /\ Append(notices, <<event, d>>) \in Seq(Events \X Docs)
      /\ Append(notices, <<event, d>>) # <<>>
      /\ notices # <<>> => Head(Append(notices, <<event, d>>)) = Head(notices)
  BY <1>1, AppendProperties, EmptySeq
<1> QED BY <1>1, <1>2 DEF Notice, Notices

\* A paper's job has numbers.
LEMMA JobFacts ==
    ASSUME TypeOK, NEW d \in Docs
    PROVE  queue[d] \in Jobs /\ queue[d].priority \in Int /\ queue[d].attempts \in Nat
<1>1. queue[d] \in Jobs
  BY DEF TypeOK
<1>2. queue[d].priority \in {-1, 0, 2, 9, 10}
  BY <1>1 DEF Jobs, Prefetch, OfStale, OfChange, OfRead
<1>3. queue[d].attempts \in 0..MaxAttempts
  BY <1>1 DEF Jobs
<1> QED BY <1>1, <1>2, <1>3, ConstantFacts

\* A change that is handled leaves the chain.
LEMMA HandlerDoneFacts ==
    ASSUME TypeOK, handler # "idle", HandlerDone
    PROVE  notices' \in Notices /\ handler' = "idle" /\ found' \in -1..MaxFile
<1>1. notices \in Seq(Events \X Docs) /\ notices # <<>>
  BY DEF TypeOK, Notices, Events
<1> QED BY <1>1, HeadTailProperties, ConstantFacts DEF HandlerDone, Notices

\* The first of the changes that wait is a change of a paper.
LEMMA HeadFacts ==
    ASSUME TypeOK, notices # <<>>
    PROVE  Head1 \in Events \X Docs /\ Head1[1] \in Events /\ Head1[2] \in Docs
<1>1. notices \in Seq(Events \X Docs)
  BY DEF TypeOK, Notices, Events
<1>2. Head1 \in Events \X Docs
  BY <1>1, HeadTailProperties DEF Head1
<1> QED BY <1>2

\* Jobs that are queued, deleted, and drains that end.
LEMMA EnqueueFacts ==
    ASSUME TypeOK, NEW D, NEW priority \in {Prefetch, OfStale, OfChange, OfRead}, Enqueue(D, priority)
    PROVE  /\ queue' \in [Docs -> Jobs]
           /\ \A d \in Docs \cap D : queue'[d].attempts = 0
           /\ \A d \in Docs \ D : queue'[d] = queue[d]
           /\ D = {} => queue' = queue
<1>1. ASSUME NEW d \in Docs
      PROVE  queue'[d] = IF d \notin D THEN queue[d] ELSE
               [priority |-> IF queue[d].priority > priority THEN queue[d].priority ELSE priority,
                attempts |-> 0, ready |-> TRUE]
  BY DEF Enqueue
<1>2. ASSUME NEW d \in Docs PROVE queue'[d] \in Jobs
  <2>1. queue[d] \in Jobs /\ 0 \in 0..MaxAttempts
    BY ConstantFacts DEF TypeOK
  <2>2. CASE d \notin D
    BY <1>1, <2>1, <2>2
  <2>3. CASE d \in D
    <3> DEFINE higher == IF queue[d].priority > priority THEN queue[d].priority ELSE priority
    <3>1. higher \in {-1, Prefetch, OfStale, OfChange, OfRead}
      BY <2>1 DEF Jobs
    <3>2. queue'[d] = [priority |-> higher, attempts |-> 0, ready |-> TRUE]
      BY <1>1, <2>3
    <3> HIDE DEF higher
    <3> QED BY <2>1, <3>1, <3>2 DEF Jobs
  <2> QED BY <2>2, <2>3
<1> QED BY <1>1, <1>2 DEF Enqueue, TypeOK

\* Rows and jobs of the papers deleted are gone, the others stay.
LEMMA DeleteFacts ==
    ASSUME TypeOK, NEW D, Delete(D)
    PROVE  /\ doc' \in [Docs -> Rows] /\ queue' \in [Docs -> Jobs]
           /\ \A d \in Docs \cap D : doc'[d] = NoRow /\ queue'[d] = NoJob
           /\ \A d \in Docs \ D : doc'[d] = doc[d] /\ queue'[d] = queue[d]
BY RowTypes DEF Delete, TypeOK

\* A kick leaves the drain alone.
LEMMA KickType ==
    ASSUME TypeOK, Kick
    PROVE  timer' \in Timers /\ rekick' \in BOOLEAN /\ drain' = drain
BY DEF Kick, TypeOK, Timers

\* A drain that ends keeps the types.
LEMMA EndsType ==
    ASSUME TypeOK, NEW next \in Timers, Ends(next)
    PROVE  timer' \in Timers /\ rekick' \in BOOLEAN /\ drain' \in Drains
<1>1. drain' = Idle /\ rekick' = FALSE /\ timer' \in {timer, Now, next}
  BY DEF Ends
<1>2. timer \in Timers /\ Now \in Timers
  BY DEF TypeOK, Timers
<1> QED BY <1>1, <1>2, RowTypes
-----------------------------------------------------------------------------
\* The start has the types.
LEMMA TypeInit == Init => TypeOK
<1> SUFFICES ASSUME Init PROVE TypeOK
  OBVIOUS
<1>1. file \in [Docs -> 0..MaxFile] /\ memory \in [Docs -> 0..MaxFile]
  BY ConstantFacts DEF Init
<1>2. doc \in [Docs -> Rows] /\ queue \in [Docs -> Jobs] /\ drain \in Drains
  BY RowTypes DEF Init
<1>3. notices \in Notices
  BY EmptySeq DEF Init, Notices
<1>4. recon \in Recons
  BY ConstantFacts DEF Init, NoRecon, Recons, ReconPhases
<1>5. there \subseteq Docs /\ trash \subseteq there /\ found \in -1..MaxFile /\ timer \in Timers /\ {changes, nreads, busy, starts} \subseteq Nat
  BY ConstantFacts DEF Init, Timers
<1> QED BY <1>1, <1>2, <1>3, <1>4, <1>5 DEF Init, TypeOK

\* The library and its user.
LEMMA TypeLibrary ==
    ASSUME TypeOK, LibrarySteps \/ BecomesQuiet
    PROVE  TypeOK'
<1> USE DEF library, index, incoming, drainer
<1>1. ASSUME NEW d \in Docs, FileChanges(d) PROVE TypeOK'
  <2>1. file[d] + 1 \in 0..MaxFile
    BY <1>1, ConstantFacts DEF FileChanges, TypeOK
  <2>2. file' \in [Docs -> 0..MaxFile]
    BY <1>1, <2>1 DEF FileChanges, TypeOK
  <2>3. Notice("modify", d) /\ "modify" \in Events
    BY <1>1 DEF FileChanges, Events
  <2>4. notices' \in Notices /\ (notices # <<>> => notices' # <<>>)
    BY <2>3, NoticeFacts
  <2> QED BY <1>1, <2>2, <2>4 DEF FileChanges, TypeOK, Counted
<1>2. ASSUME NEW d \in Docs, Touched(d) PROVE TypeOK'
  <2>1. Notice("modify", d) /\ "modify" \in Events
    BY <1>2 DEF Touched, Events
  <2>2. notices' \in Notices /\ (notices # <<>> => notices' # <<>>)
    BY <2>1, NoticeFacts
  <2> QED BY <1>2, <2>2 DEF Touched, TypeOK, Counted
<1>3. ASSUME NEW d \in Docs, Added(d) PROVE TypeOK'
  <2>1. Notice("add", d) /\ "add" \in Events
    BY <1>3 DEF Added, Events
  <2>2. notices' \in Notices /\ (notices # <<>> => notices' # <<>>)
    BY <2>1, NoticeFacts
  <2> QED BY <1>3, <2>2 DEF Added, TypeOK, Counted
<1>4. ASSUME NEW d \in Docs, Trashed(d) \/ Restored(d) \/ Erased(d) PROVE TypeOK'
  <2>1. PICK event \in {"delete", "modify"} : Notice(event, d) /\ event \in Events
    BY <1>4 DEF Trashed, Restored, Erased, Events
  <2>2. notices' \in Notices /\ (notices # <<>> => notices' # <<>>)
    BY <2>1, NoticeFacts
  <2>3. there' \subseteq Docs /\ trash' \subseteq there' /\ changes' \in Nat
    BY <1>4 DEF Trashed, Restored, Erased, Counted, TypeOK
  <2> QED BY <1>4, <2>2, <2>3 DEF Trashed, Restored, Erased, TypeOK, Counted
<1>5. ASSUME NEW d \in Docs, AgentReads(d) PROVE TypeOK'
  <2>1. memory' \in [Docs -> 0..MaxFile] /\ reads' \subseteq Docs
    BY <1>5 DEF AgentReads, TypeOK
  <2> QED BY <1>5, <2>1 DEF AgentReads, TypeOK
<1>6. CASE BecomesBusy
  <2>1. quiet' = FALSE /\ busy' \in Nat
    BY <1>6 DEF BecomesBusy, TypeOK
  <2> QED BY <1>6, <2>1 DEF BecomesBusy, TypeOK
<1>7. CASE BecomesQuiet
  BY <1>7, KickType DEF BecomesQuiet, TypeOK, bounds
<1> QED BY <1>1, <1>2, <1>3, <1>4, <1>5, <1>6, <1>7 DEF LibrarySteps

\* Handling a change and writing through keep the types.
LEMMA TypeHandler ==
    ASSUME TypeOK, HandlerSteps \/ \E d \in Docs : WriteThrough(d)
    PROVE  TypeOK'
<1> USE DEF library, index, incoming, drainer, bounds
<1>1. CASE HandleNext
  <2>1. /\ handler' \in {"remove", "enqueue", "row"} /\ notices # <<>>
        /\ notices' = notices /\ found' = found
    BY <1>1, HeadFacts DEF HandleNext, HandlerAt, Events
  <2> QED BY <1>1, <2>1 DEF HandleNext, TypeOK
<1>2. CASE HandleRemove
  <2>1. handler # "idle" /\ HandlerDone /\ Delete({Head1[2]})
    BY <1>2 DEF HandleRemove
  <2> QED BY <1>2, <2>1, HandlerDoneFacts, DeleteFacts DEF HandleRemove, TypeOK
<1>3. CASE HandleRow
  <2>1. notices # <<>> /\ Head1[2] \in Docs
    BY <1>3, HeadFacts DEF HandleRow, TypeOK
  <2>2. doc[Head1[2]].stat \in -1..MaxFile
    BY <2>1 DEF TypeOK, Rows
  <2> QED BY <1>3, <2>1, <2>2 DEF HandleRow, TypeOK
<1>4. CASE HandleStat
  <2>1. CASE HandlerDone
    BY <1>4, <2>1, HandlerDoneFacts DEF HandleStat, TypeOK
  <2>2. CASE HandlerAt("enqueue")
    BY <1>4, <2>2 DEF HandleStat, HandlerAt, TypeOK
  <2> QED BY <1>4, <2>1, <2>2 DEF HandleStat
<1>5. CASE HandleQueued
  <2>1. CASE HandlerDone
    BY <1>5, <2>1, HandlerDoneFacts DEF HandleQueued, TypeOK
  <2>2. CASE HandlerAt("enqueue")
    BY <1>5, <2>2 DEF HandleQueued, HandlerAt, TypeOK
  <2> QED BY <1>5, <2>1, <2>2 DEF HandleQueued
<1>6. CASE HandleEnqueue
  <2>1. handler # "idle" /\ HandlerDone /\ Kick
    BY <1>6 DEF HandleEnqueue
  <2>2. queue' \in [Docs -> Jobs]
    BY <1>6, EnqueueFacts DEF HandleEnqueue
  <2> QED BY <1>6, <2>1, <2>2, HandlerDoneFacts, KickType DEF HandleEnqueue, TypeOK
<1>7. ASSUME NEW d \in Docs, WriteThrough(d) PROVE TypeOK'
  <2>1. queue' \in [Docs -> Jobs] /\ Kick
    BY <1>7, EnqueueFacts DEF WriteThrough
  <2> QED BY <1>7, <2>1, KickType DEF WriteThrough, TypeOK
<1> QED BY <1>1, <1>2, <1>3, <1>4, <1>5, <1>6, <1>7 DEF HandlerSteps

\* What the reconcile writes.
LEMMA ReconWrites ==
    ASSUME TypeOK
    PROVE  /\ ReconStale => Enqueue(recon.stale, OfStale)
           /\ ReconMissing => Enqueue(recon.missing, Prefetch)
           /\ ReconReset =>
                 /\ queue' \in [Docs -> Jobs]
                 /\ \A d \in Docs : \/ queue'[d] = queue[d]
                                    \/ /\ d \in recon.stale /\ Queued(d)
                                       /\ queue'[d].attempts = 0 /\ queue'[d].ready
                                       /\ queue'[d].priority = queue[d].priority
<1>1. ReconStale => Enqueue(recon.stale, OfStale)
  BY DEF ReconStale
<1>2. ReconMissing => Enqueue(recon.missing, Prefetch)
  BY DEF ReconMissing
<1>3. ASSUME ReconReset, NEW d \in Docs
      PROVE  /\ queue'[d] \in Jobs
             /\ \/ queue'[d] = queue[d]
                \/ /\ d \in recon.stale /\ Queued(d)
                   /\ queue'[d].attempts = 0 /\ queue'[d].ready
                   /\ queue'[d].priority = queue[d].priority
  <2>1. queue[d] \in Jobs /\ 0 \in 0..MaxAttempts
    BY ConstantFacts DEF TypeOK
  <2> DEFINE job == [queue[d] EXCEPT !.attempts = 0, !.ready = TRUE]
  <2>2. job \in Jobs /\ job.attempts = 0 /\ job.ready /\ job.priority = queue[d].priority
    BY <2>1 DEF Jobs
  <2>3. queue'[d] = IF d \in recon.stale /\ Queued(d) THEN job ELSE queue[d]
    BY <1>3 DEF ReconReset
  <2> HIDE DEF job
  <2> QED BY <2>1, <2>2, <2>3
<1>4. ReconReset => queue' \in [Docs -> Jobs]
  <2>1. ReconReset => DOMAIN queue' = Docs /\ queue' = [d \in Docs |-> queue'[d]]
    BY DEF ReconReset
  <2> QED BY <1>3, <2>1
<1> QED BY <1>1, <1>2, <1>3, <1>4

\* The reconcile keeps the types.
LEMMA TypeRecon ==
    ASSUME TypeOK, ReconSteps
    PROVE  TypeOK'
<1> USE DEF library, index, incoming, drainer, bounds, ReconLooks
<1>1. CASE ReconSnapshot
  BY <1>1 DEF ReconSnapshot, TypeOK, Recons, ReconPhases
<1>2. CASE ReconDocuments
  <2>1. recon' \in Recons
    <3>1. \A d \in Docs : doc[d].stat \in -1..MaxFile
      BY DEF TypeOK, Rows
    <3> QED BY <1>2, <3>1 DEF ReconDocuments, TypeOK, Recons, ReconPhases
  <2>2. doc' \in [Docs -> Rows] /\ queue' \in [Docs -> Jobs]
    BY <1>2, DeleteFacts DEF ReconDocuments
  <2> QED BY <1>2, <2>1, <2>2 DEF ReconDocuments, TypeOK
<1>3. CASE ReconStat
  <2>1. NoRecon.listed \in [Docs -> -1..MaxFile]
    BY ConstantFacts DEF NoRecon
  <2> QED BY <1>3, <2>1 DEF ReconStat, TypeOK, Recons, ReconPhases
<1>4. CASE ReconStale \/ ReconReset
  <2>1. queue' \in [Docs -> Jobs]
    BY <1>4, EnqueueFacts, ReconWrites
  <2>2. recon' \in Recons
    BY <1>4 DEF ReconStale, ReconReset, TypeOK, Recons, ReconPhases
  <2> QED BY <1>4, <2>1, <2>2 DEF ReconStale, ReconReset, TypeOK
<1>5. CASE ReconQueued
  BY <1>5 DEF ReconQueued, TypeOK, Recons, ReconPhases
<1>6. CASE ReconMissing
  <2>1. queue' \in [Docs -> Jobs]
    BY <1>6, EnqueueFacts DEF ReconMissing
  <2>2. timer' \in Timers /\ rekick' \in BOOLEAN /\ drain' = drain
    BY <1>6, KickType DEF ReconMissing, TypeOK
  <2>3. recon' \in Recons
    BY <1>6, ConstantFacts DEF ReconMissing, NoRecon, Recons, ReconPhases
  <2> QED BY <1>6, <2>1, <2>2, <2>3 DEF ReconMissing, TypeOK
<1> QED BY <1>1, <1>2, <1>3, <1>4, <1>5, <1>6 DEF ReconSteps

\* A drain that goes on to its next step.
LEMMA PhaseType ==
    ASSUME TypeOK, NEW p \in {"idle", "pick", "quiet", "closed"} \union AtPaper,
           p \in AtPaper => drain.phase \in AtPaper, At(p)
    PROVE  drain' \in Drains
BY DEF At, TypeOK, Drains

\* A drain at a paper has one.
LEMMA DrainDoc ==
    ASSUME TypeOK, drain.phase \in AtPaper
    PROVE  drain.doc \in Docs
BY DEF TypeOK, Drains

\* A drain that starts has the type of a drain.
LEMMA PickType == [Idle EXCEPT !.phase = "pick"] \in Drains
<1>1. ASSUME NEW r \in Drains PROVE [r EXCEPT !.phase = "pick"] \in Drains
  BY DEF Drains, AtPaper
<1> QED BY <1>1, RowTypes

\* What a drain leaves as timer is a timer.
LEMMA NextTypes == /\ None \in Timers /\ Now \in Timers /\ Docs \subseteq Timers
BY DEF Timers

\* The phases of a drain.
LEMMA TypeDrain ==
    ASSUME TypeOK, Fresh, DrainSteps \/ \E d \in Docs : BackoffEnds(d)
    PROVE  TypeOK'
<1> USE DEF library, index, incoming, bounds
<1>1. ASSUME NEW d \in Docs, BackoffEnds(d) PROVE TypeOK'
  <2>1. queue[d] \in Jobs /\ queue' = [queue EXCEPT ![d] = [queue[d] EXCEPT !.ready = TRUE]]
    BY <1>1 DEF BackoffEnds, TypeOK
  <2>2. [queue[d] EXCEPT !.ready = TRUE] \in Jobs
    BY <2>1 DEF Jobs
  <2>3. queue' \in [Docs -> Jobs]
    BY <2>1, <2>2 DEF TypeOK
  <2> QED BY <1>1, <2>3 DEF BackoffEnds, TypeOK, drainer
<1>2. CASE DrainStarts
  <2>1. drain' \in Drains /\ timer' \in Timers
    BY <1>2, NextTypes, PickType DEF DrainStarts
  <2> QED BY <1>2, <2>1 DEF DrainStarts, TypeOK
<1>3. CASE Pick
  <2>1. drain' \in Drains
    <3>1. PICK d \in First(Runnable) :
            drain' = [drain EXCEPT !.phase = IF d \in there THEN "text" ELSE "drop", !.doc = d]
      BY <1>3 DEF Pick
    <3>2. d \in Docs
      BY DEF First, Runnable
    <3> QED BY <3>1, <3>2 DEF TypeOK, Drains, AtPaper
  <2> QED BY <1>3, <2>1 DEF Pick, TypeOK
<1>4. CASE PickNothing
  <2>1. drain' \in Drains
    BY <1>4 DEF PickNothing, TypeOK, Drains, AtPaper
  <2> QED BY <1>4, <2>1 DEF PickNothing, TypeOK
<1>5. CASE Quiet
  <2>1. \E next \in Timers : Ends(next)
    BY <1>5, NextTypes DEF Quiet, First
  <2> QED BY <1>5, <2>1, EndsType DEF Quiet, TypeOK
<1>6. CASE Drop
  <2>1. queue' \in [Docs -> Jobs] /\ Ends(Now)
    BY <1>6, RowTypes DEF Drop, TypeOK
  <2> QED BY <1>6, <2>1, NextTypes, EndsType DEF Drop, TypeOK
<1>7. CASE LoadText
  <2>1. drain.doc \in Docs
    BY <1>7, DrainDoc DEF LoadText, AtPaper
  <2> DEFINE text == IF memory[drain.doc] # 0 THEN memory[drain.doc] ELSE file[drain.doc]
  <2>2. text \in 0..MaxFile
    BY <2>1 DEF TypeOK
  <2>3. /\ memory' = [memory EXCEPT ![drain.doc] = text]
        /\ drain' = [drain EXCEPT !.phase = "stat", !.text = text,
                                    !.borrowed = (memory[drain.doc] = 0)]
    BY <1>7 DEF LoadText
  <2> HIDE DEF text
  <2>4. memory' \in [Docs -> 0..MaxFile]
    BY <2>2, <2>3 DEF TypeOK
  <2>5. drain' \in Drains
    BY <2>1, <2>2, <2>3 DEF TypeOK, Drains, AtPaper
  <2> QED BY <1>7, <2>4, <2>5 DEF LoadText, TypeOK
<1>8. CASE LoadFails
  <2>1. drain' \in Drains
    BY <1>8, PhaseType DEF LoadFails, AtPaper
  <2> QED BY <1>8, <2>1 DEF LoadFails, TypeOK
<1>9. CASE ReadStat
  <2>1. drain.doc \in Docs /\ file[drain.doc] \in 0..MaxFile
    BY <1>9, DrainDoc DEF ReadStat, AtPaper, TypeOK
  <2>2. drain' \in Drains
    BY <1>9, <2>1 DEF ReadStat, TypeOK, Drains, AtPaper
  <2> QED BY <1>9, <2>2 DEF ReadStat, TypeOK
<1>10. CASE WriteRow
  <2>1. [text |-> drain.text, stat |-> drain.stat] \in Rows
    BY ConstantFacts DEF TypeOK, Drains, Rows
  <2>2. doc' \in [Docs -> Rows]
    BY <1>10, <2>1 DEF WriteRow, TypeOK
  <2>3. drain' \in Drains
    BY <1>10, PhaseType DEF WriteRow, AtPaper
  <2> QED BY <1>10, <2>2, <2>3 DEF WriteRow, TypeOK
<1>11. CASE Release
  <2>1. drain' \in Drains
    BY <1>11 DEF Release, TypeOK, Drains, AtPaper
  <2>2. 0 \in 0..MaxFile /\ memory \in [Docs -> 0..MaxFile]
    BY ConstantFacts DEF TypeOK
  <2>3. memory' = [memory EXCEPT ![drain.doc] = IF drain.borrowed THEN 0 ELSE @]
    BY <1>11 DEF Release
  <2>4. memory' \in [Docs -> 0..MaxFile]
    BY <2>2, <2>3
  <2> QED BY <1>11, <2>1, <2>4 DEF Release, TypeOK
<1>12. CASE Done
  <2>1. queue' \in [Docs -> Jobs] /\ \E next \in Timers : Ends(next)
    BY <1>12, RowTypes, NextTypes DEF Done, TypeOK
  <2> QED BY <1>12, <2>1, EndsType DEF Done, TypeOK
<1>13. CASE Failed
  <2>1. queue' \in [Docs -> Jobs]
    <3>1. CASE UNCHANGED queue
      BY <3>1 DEF TypeOK
    <3> DEFINE d == drain.doc
               job == [queue[d] EXCEPT !.attempts = @ + 1, !.ready = FALSE]
    <3>2. CASE queue' = [queue EXCEPT ![d] = job]
      <4>1. queue[d] \in Jobs /\ queue[d].attempts + 1 \in 0..MaxAttempts
        <5>1. d \in Docs /\ queue[d].attempts < MaxAttempts
          BY <1>13, DrainDoc DEF Failed, AtPaper, Fresh
        <5>2. queue[d] \in Jobs
          BY <5>1 DEF TypeOK
        <5>3. queue[d].attempts \in 0..MaxAttempts
          BY <5>2 DEF Jobs
        <5> QED BY <5>1, <5>2, <5>3, ConstantFacts
      <4>2. job \in Jobs
        BY <4>1 DEF Jobs
      <4> QED BY <3>2, <4>2 DEF TypeOK
    <3> QED BY <1>13, <3>1, <3>2 DEF Failed
  <2>2. \E next \in Timers : Ends(next)
    BY <1>13, NextTypes DEF Failed
  <2> QED BY <1>13, <2>1, <2>2, EndsType DEF Failed, TypeOK
<1>14. CASE IndexFails
  <2>1. drain' \in Drains
    BY <1>14 DEF IndexFails, TypeOK, Drains, AtPaper
  <2>2. memory' \in [Docs -> 0..MaxFile]
    BY <1>14, ConstantFacts DEF IndexFails, Released, TypeOK
  <2> QED BY <1>14, <2>1, <2>2 DEF IndexFails, TypeOK
<1>15. CASE DrainFails
  BY <1>15, NextTypes, EndsType DEF DrainFails, TypeOK
<1>16. CASE Closed
  <2>1. memory' \in [Docs -> 0..MaxFile]
    BY <1>16, ConstantFacts DEF Closed, Released, TypeOK
  <2> QED BY <1>16, <2>1, NextTypes, EndsType DEF Closed, TypeOK
<1> QED BY <1>1, <1>2, <1>3, <1>4, <1>5, <1>6, <1>7, <1>8, <1>9, <1>10, <1>11, <1>12,
           <1>13, <1>14, <1>15, <1>16 DEF DrainSteps

\* The process starts and ends, the index is cleared.
LEMMA TypeStart ==
    ASSUME TypeOK, Start \/ Quit \/ ClearStops \/ ClearStarts
    PROVE  TypeOK'
<1> USE DEF library, index, incoming, bounds
<1>1. [NoRecon EXCEPT !.phase = "snapshot"] \in Recons /\ NoRecon \in Recons
  BY ConstantFacts DEF NoRecon, Recons, ReconPhases
<1>2. CASE Start
  BY <1>1, <1>2, NextTypes DEF Start, StartOver, TypeOK
<1>3. CASE Quit
  <2>1. memory' \in [Docs -> 0..MaxFile] /\ notices' \in Notices
    BY <1>3, ConstantFacts, EmptySeq DEF Quit, Notices
  <2>2. found' \in -1..MaxFile /\ drain' \in Drains /\ timer' \in Timers
    BY <1>3, RowTypes, NextTypes, ConstantFacts DEF Quit
  <2> QED BY <1>1, <1>3, <2>1, <2>2 DEF Quit, TypeOK
<1>4. CASE ClearStops
  <2>1. drain' \in Drains
    BY <1>4 DEF ClearStops, TypeOK, Drains
  <2> QED BY <1>4, <2>1, NextTypes DEF ClearStops, TypeOK
<1>5. CASE ClearStarts
  <2>1. doc' \in [Docs -> Rows] /\ queue' \in [Docs -> Jobs]
    BY <1>5, RowTypes DEF ClearStarts, StartOver
  <2>2. drain' \in Drains /\ timer' \in Timers /\ rekick' \in BOOLEAN
    BY <1>5, PhaseType, NextTypes DEF ClearStarts, AtPaper, TypeOK
  <2>3. notices' \in Notices
    <3>1. notices \in Seq(Events \X Docs) /\ (handler # "idle" => notices # <<>>)
      BY DEF TypeOK, Notices
    <3> QED BY <1>5, <3>1, HeadTailProperties DEF ClearStarts, Notices
  <2> QED BY <1>1, <1>5, <2>1, <2>2, <2>3, ConstantFacts DEF ClearStarts, StartOver, TypeOK
<1> QED BY <1>2, <1>3, <1>4, <1>5

\* Every step keeps the types.
LEMMA TypeNext == ASSUME TypeOK, Fresh, [Next]_vars PROVE TypeOK'
<1>1. CASE UNCHANGED vars
  BY <1>1 DEF vars, TypeOK
<1> QED BY <1>1, TypeLibrary, TypeHandler, TypeRecon, TypeDrain, TypeStart DEF Next

\* A failed job has one more attempt behind it.
LEMMA FailedFacts ==
    ASSUME TypeOK, Failed, NEW d \in Docs
    PROVE  \/ queue'[d] = queue[d]
           \/ queue'[d].attempts = queue[d].attempts + 1
<1> DEFINE job == [queue[drain.doc] EXCEPT !.attempts = @ + 1, !.ready = FALSE]
<1>1. \/ queue' = queue
      \/ queue' = [queue EXCEPT ![drain.doc] = job]
  BY Zenon DEF Failed
<1>2. drain.doc = d => job.attempts = queue[d].attempts + 1
  BY DEF TypeOK, Jobs
<1> HIDE DEF job
<1>3. CASE queue' = [queue EXCEPT ![drain.doc] = job]
  BY <1>2, <1>3 DEF TypeOK
<1> QED BY <1>1, <1>3

\* What a step leaves of the number of attempts of a job.
LEMMA AttemptsGrow ==
    ASSUME TypeOK, Fresh, [Next]_vars, NEW d \in Docs
    PROVE  \/ queue'[d].attempts \in {0, queue[d].attempts}
           \/ drain.phase = "failed" /\ drain.doc = d /\ drain' = Idle
<1> USE DEF index
<1>1. NoJob.attempts = 0
  BY DEF NoJob
<1>2. CASE UNCHANGED queue
  BY <1>2
<1>3. ASSUME NEW D, NEW priority \in {Prefetch, OfStale, OfChange, OfRead}, Enqueue(D, priority)
      PROVE  queue'[d].attempts \in {0, queue[d].attempts}
  BY <1>3, EnqueueFacts
<1>4. ASSUME NEW D, Delete(D) PROVE queue'[d].attempts \in {0, queue[d].attempts}
  BY <1>1, <1>4, DeleteFacts
<1>5. CASE HandlerSteps \/ ReconSteps \/ \E e \in Docs : WriteThrough(e)
  <2>1. CASE ReconStale \/ ReconReset \/ ReconMissing
    BY <1>3, <2>1, ReconWrites
  <2> QED BY <1>2, <1>3, <1>4, <1>5, <2>1 DEF HandlerSteps, HandleNext, HandleRemove, HandleRow,
     HandleStat, HandleQueued, HandleEnqueue, ReconSteps, ReconSnapshot, ReconDocuments, ReconStat,
     ReconQueued, WriteThrough
<1>6. CASE LibrarySteps \/ BecomesQuiet
  BY <1>2, <1>6 DEF LibrarySteps, FileChanges, Touched, Added, Trashed, Restored, Erased,
     AgentReads,
     BecomesBusy, BecomesQuiet
<1>7. ASSUME NEW e \in Docs, BackoffEnds(e) PROVE queue'[d].attempts = queue[d].attempts
  BY <1>7 DEF BackoffEnds, TypeOK, Jobs
<1>8. CASE Drop \/ Done
  BY <1>1, <1>8 DEF Drop, Done, TypeOK
<1>9. CASE Failed
  BY <1>2, <1>9 DEF Failed, Ends, TypeOK
<1>10. CASE DrainSteps /\ ~(Drop \/ Done \/ Failed)
  BY <1>2, <1>10 DEF DrainSteps, DrainStarts, Pick, PickNothing, Quiet, LoadText, LoadFails,
     ReadStat, WriteRow, Release, IndexFails, DrainFails, Closed
<1>11. CASE Start \/ Quit \/ ClearStops \/ ClearStarts
  BY <1>1, <1>2, <1>11 DEF Start, Quit, ClearStops, ClearStarts, StartOver
<1> QED BY <1>2, <1>5, <1>6, <1>7, <1>8, <1>9, <1>10, <1>11 DEF Next, vars

\* What a step leaves of the drain.
LEMMA DrainGoesOn ==
    ASSUME TypeOK, [Next]_vars, drain'.phase \in AtPaper
    PROVE  \/ drain.phase \in AtPaper /\ drain'.doc = drain.doc
           \/ Pick
<1> USE DEF drainer, AtPaper
<1>1. CASE UNCHANGED drain
  BY <1>1
<1>2. CASE HandlerSteps \/ ReconSteps \/ LibrarySteps \/ BecomesQuiet
            \/ \E d \in Docs : WriteThrough(d) \/ BackoffEnds(d)
  BY <1>1, <1>2 DEF HandlerSteps, HandleNext, HandleRemove, HandleRow, HandleStat,
     HandleQueued, HandleEnqueue, ReconSteps, ReconSnapshot, ReconDocuments, ReconStat,
     ReconStale, ReconReset, ReconQueued, ReconMissing, ReconLooks, WriteThrough, LibrarySteps,
     FileChanges, Touched, Added, Trashed, Restored, Erased, AgentReads,
     BecomesBusy, BecomesQuiet, BackoffEnds, Kick
<1>3. CASE Start \/ Quit \/ ClearStops \/ ClearStarts
  BY <1>1, <1>3, RowTypes DEF Start, Quit, ClearStops, ClearStarts, StartOver, At, TypeOK, Drains
<1>4. CASE DrainStarts \/ PickNothing
  BY <1>4, RowTypes DEF DrainStarts, PickNothing, TypeOK, Drains, Idle
<1>6. CASE Quiet \/ Drop \/ Done \/ Failed \/ DrainFails \/ Closed
  <2>1. drain' = Idle
    BY <1>6 DEF Quiet, Drop, Done, Failed, DrainFails, Closed, Ends
  <2> QED BY <2>1, RowTypes
<1>5. CASE LoadText \/ LoadFails \/ ReadStat \/ WriteRow \/ Release \/ IndexFails
  BY <1>5 DEF LoadText, LoadFails, ReadStat, WriteRow, Release, IndexFails, At, TypeOK, Drains
<1> QED BY <1>1, <1>2, <1>3, <1>4, <1>5, <1>6 DEF Next, DrainSteps, vars

\* Every step leaves the job at work with attempts to spare.
LEMMA FreshNext == ASSUME TypeOK, Fresh, [Next]_vars PROVE Fresh'
<1> SUFFICES ASSUME drain'.phase \in AtPaper PROVE queue'[drain'.doc].attempts < MaxAttempts
  BY DEF Fresh
<1>1. CASE drain.phase \in AtPaper /\ drain'.doc = drain.doc
  <2>1. drain.doc \in Docs /\ drain' # Idle /\ queue[drain.doc].attempts < MaxAttempts
    BY <1>1, DrainDoc, RowTypes DEF Fresh, AtPaper
  <2> QED BY <1>1, <2>1, AttemptsGrow, ConstantFacts
<1>2. CASE Pick
  <2>1. drain'.doc \in Docs /\ Ready(drain'.doc) /\ queue' = queue
    BY <1>2 DEF Pick, First, Runnable, TypeOK, Drains, index
  <2> QED BY <2>1, ConstantFacts DEF Ready, Parked, TypeOK, Jobs
<1> QED BY <1>1, <1>2, DrainGoesOn

\* Every variable keeps its type, whichever races happen.
THEOREM TypeCorrect == Spec => []TypeOK
<1>1. Init => Fresh
  BY DEF Init, Fresh, Idle, AtPaper
<1> QED BY <1>1, TypeInit, TypeNext, FreshNext, PTL DEF Spec
-----------------------------------------------------------------------------
\* Nothing is to be done for this paper before something kicks: it waits for
\* the user to be idle, has no job, or its job has used up its attempts.
Waits(d) == Queued(d) /\ ~Parked(d) => queue[d].priority < UrgentMin /\ ~quiet

LoopInv ==
    /\ drain.phase # "closed"
    /\ mode = "off" => ~Draining
    /\ Draining /\ ~drain.current => mode = "clearing"
    /\ mode = "on" /\ ~Draining /\ timer = None => ReconKicks \/ \A d \in Docs : Waits(d)
    /\ mode = "on" /\ drain.phase = "quiet" /\ ~rekick =>
          ReconKicks \/ \A d \in Docs : Waits(d) \/ d \in drain.waiting

\* No paper has more to be done, and timer and drain are as they were.
LEMMA LoopKept ==
    ASSUME LoopInv, UNCHANGED <<mode, drainer>>, ReconKicks => ReconKicks',
           ReconKicks' \/ \A d \in Docs : Waits(d) => Waits(d)'
    PROVE  LoopInv'
BY DEF LoopInv, Draining, drainer

\* Work that comes in arms the timer or is remembered.
LEMMA LoopKicked ==
    ASSUME LoopInv, Kick, UNCHANGED mode
    PROVE  LoopInv'
BY ConstantFacts DEF LoopInv, Kick, Draining

\* A drain that goes on is one whose end looks at the queue again.
LEMMA LoopDrains ==
    ASSUME LoopInv, Draining, UNCHANGED mode, drain'.current = drain.current,
           drain'.phase \notin {"idle", "quiet", "closed"}
    PROVE  LoopInv'
BY DEF LoopInv, Draining

\* The drain of a scheduler that runs comes back at once, or everything waits.
LEMMA LoopEnds ==
    ASSUME LoopInv, Draining, UNCHANGED mode, NEW next \in Timers, Ends(next),
           mode = "on" => next # None \/ rekick \/ ReconKicks' \/ \A d \in Docs : Waits(d)'
    PROVE  LoopInv'
<1>1. drain' = Idle /\ ~Draining' /\ drain'.phase = "idle" /\ drain'.current
  BY RowTypes DEF Ends, Draining
<1>2. mode = "on" => timer' # None \/ ReconKicks' \/ \A d \in Docs : Waits(d)'
  BY ConstantFacts DEF LoopInv, Draining, Ends
<1> QED BY <1>1, <1>2 DEF LoopInv

\* When the queue is asked for the first backoff and none was running, nothing
\* waits but work for later.
LEMMA LoopQuiet == ASSUME TypeOK, LoopInv, Quiet PROVE LoopInv'
<1> DEFINE jobs == {d \in Docs : Queued(d) /\ ~Parked(d)}
<1>1. /\ Draining /\ mode' = mode /\ queue' = queue /\ quiet' = quiet
      /\ ReconKicks' = ReconKicks
  BY DEF Quiet, Draining, library, index, incoming, ReconKicks
<1>2. ASSUME NEW d \in Docs PROVE Waits(d)' = Waits(d)
  BY <1>1 DEF Waits, Queued, Parked
<1>3. CASE jobs = {} /\ Ends(None)
  <2>1. \A d \in Docs : Waits(d)'
    BY <1>2, <1>3 DEF Waits
  <2> QED BY <1>1, <1>3, <2>1, NextTypes, LoopEnds
<1>4. ASSUME NEW d \in First(jobs), Ends(IF d \in drain.waiting THEN d ELSE None)
      PROVE  LoopInv'
  <2>1. d \in Docs /\ d # None /\ d \in Timers
    BY NextTypes, ConstantFacts DEF First
  <2>2. CASE d \in drain.waiting
    BY <1>1, <1>4, <2>1, <2>2, LoopEnds
  <2>3. CASE d \notin drain.waiting
    <3>1. SUFFICES ASSUME mode = "on", ~rekick, ~ReconKicks, NEW e \in Docs PROVE Waits(e)'
      BY <1>1, <1>4, <2>3, NextTypes, LoopEnds
    <3>2. Waits(d) /\ d \in jobs /\ (e \in jobs => queue[e].priority <= queue[d].priority)
      BY <2>1, <2>3, <3>1 DEF LoopInv, Quiet, First
    <3>3. queue[d].priority \in Int /\ queue[e].priority \in Int
      BY <2>1, JobFacts
    <3> QED BY <1>2, <3>2, <3>3 DEF Waits, UrgentMin
  <2> QED BY <2>2, <2>3
<1> QED BY <1>3, <1>4 DEF Quiet

\* A step of the drain leaves no runnable job without a timer or a rekick.
LEMMA LoopDrain ==
    ASSUME TypeOK, LoopInv, {"grace", "error"} \cap Races = {}, DrainSteps
    PROVE  LoopInv'
<1> USE DEF library, index
<1>1. CASE DrainStarts
  <2>1. mode = "on" /\ mode' = "on" /\ drain'.phase = "pick" /\ drain'.current
    BY <1>1, RowTypes DEF DrainStarts, Idle
  <2> QED BY <2>1 DEF LoopInv, Draining
<1>2. CASE PickNothing
  <2>1. /\ mode' = mode /\ queue' = queue /\ quiet' = quiet /\ rekick' = rekick
        /\ drain'.phase = "quiet" /\ drain'.current = drain.current /\ Draining
        /\ drain'.waiting = {d \in Docs : Queued(d) /\ ~queue[d].ready}
    BY <1>2 DEF PickNothing, Draining, TypeOK, Drains
  <2>2. ASSUME NEW d \in Docs PROVE Waits(d)' \/ d \in drain'.waiting
    <3>1. queue[d].priority \in Int
      BY JobFacts
    <3>2. d \notin Runnable
      BY <1>2 DEF PickNothing
    <3> QED BY <2>1, <3>1, <3>2 DEF Waits, Runnable, Ready, Queued, Parked, UrgentMin
  <2> QED BY <2>1, <2>2 DEF LoopInv, Draining
<1>3. CASE Quiet
  BY <1>3, LoopQuiet
<1>4. CASE Pick \/ LoadText \/ LoadFails \/ ReadStat \/ WriteRow \/ Release
  BY <1>4, LoopDrains DEF Pick, LoadText, LoadFails, ReadStat, WriteRow, Release, At, Draining,
     TypeOK, Drains
<1>5. CASE Drop
  BY <1>5, LoopEnds, NextTypes, ConstantFacts DEF Drop, Draining
<1>6. CASE Done
  <2>1. Draining /\ mode' = mode /\ (~drain.current => mode # "on")
    BY <1>6 DEF Done, Draining, LoopInv
  <2> QED BY <1>6, <2>1, LoopEnds, NextTypes, ConstantFacts DEF Done
<1>7. CASE Failed
  <2>1. Draining /\ mode' = mode /\ (~drain.current => mode # "on")
    BY <1>7 DEF Failed, Draining, LoopInv
  <2> QED BY <1>7, <2>1, LoopEnds, NextTypes, ConstantFacts DEF Failed
<1>8. ~IndexFails /\ ~DrainFails /\ ~Closed
  BY DEF IndexFails, DrainFails, Closed, LoopInv
<1> QED BY <1>1, <1>2, <1>3, <1>4, <1>5, <1>6, <1>7, <1>8 DEF DrainSteps

\* Nor does any other step.
LEMMA LoopNext ==
    ASSUME TypeOK, LoopInv, {"grace", "error"} \cap Races = {}, [Next]_vars
    PROVE  LoopInv'
<1> USE DEF library, index, incoming, bounds
<1>1. ASSUME UNCHANGED <<mode, queue, quiet, drainer>>, ReconKicks => ReconKicks' PROVE LoopInv'
  BY <1>1, LoopKept DEF Waits, Queued, Parked
<1>2. ASSUME NEW D, Delete(D), UNCHANGED <<mode, quiet, drainer>>, ReconKicks => ReconKicks'
      PROVE  LoopInv'
  <2>1. ASSUME NEW d \in Docs, Waits(d) PROVE Waits(d)'
    BY <1>2, <2>1, DeleteFacts DEF Waits, Queued, Parked
  <2> QED BY <1>2, <2>1, LoopKept
<1>3. CASE UNCHANGED vars
  BY <1>1, <1>3 DEF vars, drainer, ReconKicks
<1>4. CASE LibrarySteps
  <2>1. CASE BecomesBusy
    BY <2>1, LoopKept DEF BecomesBusy, Waits, Queued, Parked, ReconKicks
  <2>2. UNCHANGED recon
    BY <1>4 DEF LibrarySteps, FileChanges, Touched, Added, Trashed, Restored, Erased, AgentReads,
       BecomesBusy
  <2>3. ReconKicks' = ReconKicks
    BY <2>2 DEF ReconKicks
  <2> QED BY <1>1, <1>4, <2>1, <2>3 DEF LibrarySteps, FileChanges, Touched, Added, Trashed,
     Restored, Erased, AgentReads
<1>5. CASE BecomesQuiet
  BY <1>5, LoopKicked DEF BecomesQuiet
<1>6. CASE HandlerSteps
  <2>1. ReconKicks' = ReconKicks
    BY <1>6 DEF HandlerSteps, HandleNext, HandleRemove, HandleRow, HandleStat, HandleQueued,
       HandleEnqueue, ReconKicks
  <2> QED BY <1>1, <1>2, <1>6, <2>1, LoopKicked DEF HandlerSteps, HandleNext, HandleRemove,
      HandleRow, HandleStat, HandleQueued, HandleEnqueue
<1>7. CASE ReconSteps
  <2> USE DEF ReconLooks
  <2>1. CASE ReconSnapshot \/ ReconDocuments \/ ReconStat
    <3>1. ~ReconKicks
      BY <2>1 DEF ReconSnapshot, ReconDocuments, ReconStat, ReconKicks
    <3> QED BY <1>1, <1>2, <2>1, <3>1 DEF ReconSnapshot, ReconDocuments, ReconStat
  <2>2. CASE ReconStale
    <3>1. recon'.phase = "reset" /\ recon'.stale = recon.stale /\ ~ReconKicks
      BY <2>2 DEF ReconStale, TypeOK, Recons, ReconKicks
    <3>2. CASE recon.stale = {}
      <4>1. queue' = queue
        BY <2>2, <3>2, EnqueueFacts DEF ReconStale
      <4> QED BY <1>1, <2>2, <3>1, <4>1 DEF ReconStale
    <3>3. CASE recon.stale # {}
      BY <2>2, <3>1, <3>3, LoopKept DEF ReconStale, ReconKicks
    <3> QED BY <3>2, <3>3
  <2>3. CASE ReconReset
    <3>1. recon'.phase = "queued" /\ recon.phase = "reset" /\ recon'.stale = recon.stale
      BY <2>3 DEF ReconReset, TypeOK, Recons
    <3>2. CASE recon.stale = {}
      <4>1. \A d \in Docs : queue'[d] = queue[d]
        BY <2>3, <3>2, ReconWrites
      <4>2. \A d \in Docs : Waits(d) => Waits(d)'
        BY <2>3, <4>1 DEF ReconReset, Waits, Queued, Parked
      <4> QED BY <2>3, <3>1, <4>2, LoopKept DEF ReconReset, ReconKicks
    <3>3. CASE recon.stale # {}
      BY <2>3, <3>1, <3>3, LoopKept DEF ReconReset, ReconKicks
    <3> QED BY <3>2, <3>3
  <2>4. CASE ReconQueued
    <3>1. recon'.phase = "missing" /\ recon'.stale = recon.stale
      BY <2>4 DEF ReconQueued, TypeOK, Recons
    <3> QED BY <1>1, <2>4, <3>1 DEF ReconQueued, ReconKicks
  <2>5. CASE ReconMissing
    <3>1. CASE Kick
      BY <2>5, <3>1, LoopKicked DEF ReconMissing
    <3>2. CASE UNCHANGED drainer /\ recon.stale = {} /\ recon.missing = {}
      <4>1. queue' = queue /\ ~ReconKicks
        BY <2>5, <3>2, EnqueueFacts DEF ReconMissing, ReconKicks
      <4> QED BY <1>1, <2>5, <3>2, <4>1 DEF ReconMissing
    <3> QED BY <2>5, <3>1, <3>2 DEF ReconMissing
  <2> QED BY <1>7, <2>1, <2>2, <2>3, <2>4, <2>5 DEF ReconSteps
<1>8. CASE DrainSteps
  BY <1>8, LoopDrain
<1>9. ASSUME NEW d \in Docs, WriteThrough(d) PROVE LoopInv'
  BY <1>9, LoopKicked DEF WriteThrough
<1>10. ASSUME NEW d \in Docs, BackoffEnds(d) PROVE LoopInv'
  <2>1. ASSUME NEW e \in Docs, Waits(e) PROVE Waits(e)'
    <3>1. queue'[e].priority = queue[e].priority /\ queue'[e].attempts = queue[e].attempts
      BY <1>10 DEF BackoffEnds, TypeOK, Jobs
    <3>2. quiet' = quiet /\ (Queued(e)' => Queued(e))
      BY <1>10 DEF BackoffEnds, TypeOK, Queued
    <3> QED BY <2>1, <3>1, <3>2 DEF Waits, Parked
  <2> QED BY <1>10, <2>1, LoopKept DEF BackoffEnds, ReconKicks
<1>11. CASE Start
  BY <1>11, ConstantFacts DEF Start, StartOver, LoopInv, Draining
<1>12. CASE Quit
  BY <1>12, RowTypes DEF Quit, LoopInv, Draining
<1>13. CASE ClearStops
  <2>1. drain'.phase = drain.phase /\ mode' = "clearing"
    BY <1>13 DEF ClearStops, TypeOK, Drains
  <2> QED BY <2>1 DEF LoopInv, Draining
<1>14. CASE ClearStarts
  BY <1>14, ConstantFacts DEF ClearStarts, StartOver, LoopInv, Draining
<1> QED BY <1>3, <1>4, <1>5, <1>6, <1>7, <1>8, <1>9, <1>10, <1>11, <1>12, <1>13, <1>14 DEF Next

\* A job that may run is never left without a timer or a drain, unless the
\* index is cleared while a drain takes longer than ten seconds, or an access
\* to the index fails between two jobs.
THEOREM QueueIsWatched ==
    ASSUME {"grace", "error"} \cap Races = {}
    PROVE  Spec => []QueueWatched
<1>1. Init => TypeOK /\ Fresh /\ LoopInv
  BY TypeInit, RowTypes DEF Init, Fresh, AtPaper, LoopInv, Draining
<1>2. TypeOK /\ Fresh /\ LoopInv /\ [Next]_vars => (TypeOK /\ Fresh /\ LoopInv)'
  BY TypeNext, FreshNext, LoopNext
<1>3. TypeOK /\ LoopInv => QueueWatched
  <2> SUFFICES ASSUME TypeOK, LoopInv, mode = "on", timer = None, ~Draining, ~ReconKicks,
                      NEW d \in Runnable
               PROVE  FALSE
    BY DEF QueueWatched
  <2>1. Waits(d) /\ d \in Docs
    BY DEF LoopInv, Runnable
  <2>2. queue[d].priority \in Int
    BY <2>1, JobFacts
  <2> QED BY <2>1, <2>2 DEF Waits, Runnable, Ready, UrgentMin
<1> QED BY <1>1, <1>2, <1>3, PTL DEF Spec
-----------------------------------------------------------------------------
\* What is read of a file is one version of it: the text in memory is the
\* file's unless the drain has borrowed it for a file that is changed since.
TextInv ==
    /\ \A d \in Docs : memory[d] # 0 => memory[d] = file[d] \/ (AtJob(d) /\ drain.borrowed)
    /\ drain.borrowed => drain.phase \in {"stat", "row", "release", "closed"}
    /\ drain.phase = "stat" => drain.text = file[drain.doc]
    /\ drain.phase = "row" => drain.text = drain.stat
    /\ \A d \in Docs : doc[d].text = doc[d].stat

\* Files, memory and the drain are left alone, rows at most deleted.
LEMMA TextKept ==
    ASSUME TextInv, UNCHANGED <<file, memory, drain>>,
           \A d \in Docs : doc'[d] = doc[d] \/ doc'[d] = NoRow
    PROVE  TextInv'
BY RowTypes DEF TextInv, AtJob

\* A drain ends and leaves nothing in memory that it has borrowed.
LEMMA TextEnds ==
    ASSUME TypeOK, TextInv, drain' = Idle, UNCHANGED <<file, doc>>,
           (memory' = memory /\ ~drain.borrowed) \/ memory' = Released
    PROVE  TextInv'
<1>1. ASSUME NEW d \in Docs, memory'[d] # 0 PROVE memory'[d] = file'[d]
  <2>1. CASE memory' = memory /\ ~drain.borrowed
    BY <1>1, <2>1 DEF TextInv
  <2>2. CASE memory' = Released
    BY <1>1, <2>2 DEF Released, TextInv
  <2> QED BY <2>1, <2>2
<1> QED BY <1>1, RowTypes DEF TextInv

\* A step of the drain writes a row whose text and stat agree.
LEMMA TextDrain ==
    ASSUME TypeOK, TextInv, DrainSteps
    PROVE  TextInv'
<1> USE DEF library, index
<1>1. CASE DrainStarts
  BY <1>1, RowTypes DEF DrainStarts, Draining, TextInv, AtJob, Idle
<1>2. CASE Pick
  <2>1. /\ drain'.borrowed = drain.borrowed /\ ~drain.borrowed
        /\ drain'.phase \in {"text", "drop"}
    BY <1>2 DEF Pick, TextInv, TypeOK, Drains
  <2> QED BY <1>2, <2>1 DEF Pick, TextInv
<1>3. CASE PickNothing
  BY <1>3 DEF PickNothing, TextInv, AtJob, TypeOK, Drains
<1>4. CASE Quiet \/ Drop \/ Done \/ Failed \/ DrainFails
  BY <1>4, TextEnds DEF Quiet, Drop, Done, Failed, DrainFails, Ends, TextInv
<1>5. CASE LoadText
  <2> DEFINE text == IF memory[drain.doc] # 0 THEN memory[drain.doc] ELSE file[drain.doc]
  <2>1. drain.doc \in Docs /\ ~drain.borrowed
    BY <1>5, DrainDoc DEF LoadText, AtPaper, TextInv
  <2>2. text = file[drain.doc]
    BY <2>1 DEF TextInv
  <2>3. /\ memory' = [memory EXCEPT ![drain.doc] = text]
        /\ drain' = [drain EXCEPT !.phase = "stat", !.text = text,
                                    !.borrowed = (memory[drain.doc] = 0)]
        /\ file' = file /\ doc' = doc
    BY <1>5 DEF LoadText
  <2> HIDE DEF text
  <2>4. /\ drain'.phase = "stat" /\ drain'.text = file[drain.doc]
        /\ drain'.doc = drain.doc
    BY <2>2, <2>3 DEF TypeOK, Drains
  <2>5. \A d \in Docs : memory'[d] # 0 => memory'[d] = file[d]
    BY <2>1, <2>2, <2>3 DEF TextInv, TypeOK
  <2> QED BY <2>3, <2>4, <2>5 DEF TextInv
<1>6. CASE LoadFails
  BY <1>6 DEF LoadFails, At, TextInv, AtJob, TypeOK, Drains
<1>7. CASE ReadStat
  BY <1>7 DEF ReadStat, TextInv, AtJob, TypeOK, Drains
<1>8. CASE WriteRow
  BY <1>8 DEF WriteRow, At, TextInv, AtJob, TypeOK, Drains
<1>9. CASE Release
  <2>1. /\ ~drain'.borrowed /\ drain'.phase = "done" /\ file' = file /\ doc' = doc
        /\ memory' = [memory EXCEPT ![drain.doc] = IF drain.borrowed THEN 0 ELSE @]
    BY <1>9 DEF Release, TypeOK, Drains
  <2>2. \A d \in Docs : memory'[d] # 0 => memory'[d] = file[d]
    BY <2>1 DEF TextInv, AtJob, TypeOK
  <2> QED BY <2>1, <2>2 DEF TextInv
<1>10. CASE IndexFails
  <2>1. ~drain'.borrowed /\ drain'.phase = "failed" /\ file' = file /\ doc' = doc
    BY <1>10 DEF IndexFails, TypeOK, Drains
  <2>2. \A d \in Docs : memory'[d] # 0 => memory'[d] = file[d]
    BY <1>10 DEF IndexFails, Released, TextInv
  <2> QED BY <2>1, <2>2 DEF TextInv
<1>11. CASE Closed
  BY <1>11, TextEnds DEF Closed, Ends
<1> QED BY <1>1, <1>2, <1>3, <1>4, <1>5, <1>6, <1>7, <1>8, <1>9, <1>10, <1>11 DEF DrainSteps

\* So does any other step.
LEMMA TextNext ==
    ASSUME TypeOK, TextInv, {"cached", "window"} \cap Races = {}, [Next]_vars
    PROVE  TextInv'
<1> USE DEF library, index, incoming, bounds, drainer
<1>1. ASSUME UNCHANGED <<file, memory, drain, doc>> PROVE TextInv'
  BY <1>1, TextKept
<1>2. ASSUME NEW D, Delete(D), UNCHANGED <<file, memory, drain>> PROVE TextInv'
  <2>1. \A d \in Docs : doc'[d] = doc[d] \/ doc'[d] = NoRow
    BY <1>2, DeleteFacts
  <2> QED BY <1>2, <2>1, TextKept
<1>3. CASE UNCHANGED vars
  BY <1>1, <1>3 DEF vars
<1>4. ASSUME NEW d \in Docs, FileChanges(d) PROVE TextInv'
  <2>1. /\ memory[d] = 0 \/ (AtJob(d) /\ drain.borrowed)
        /\ ~(AtJob(d) /\ drain.phase = "stat")
        /\ \A e \in Docs \ {d} : file'[e] = file[e]
        /\ UNCHANGED <<memory, drain, doc>>
    BY <1>4 DEF FileChanges, Held, InWindow, TypeOK
  <2>2. drain.phase = "stat" => drain.doc \in Docs
    BY DrainDoc DEF AtPaper
  <2> QED BY <2>1, <2>2 DEF TextInv, AtJob
<1>5. ASSUME NEW d \in Docs, AgentReads(d) PROVE TextInv'
  <2>1. memory' = [memory EXCEPT ![d] = file[d]] /\ UNCHANGED <<file, drain, doc>>
    BY <1>5 DEF AgentReads
  <2>2. \A e \in Docs : memory'[e] = memory[e] \/ memory'[e] = file[e]
    BY <2>1 DEF TypeOK
  <2> QED BY <2>1, <2>2 DEF TextInv, AtJob
<1>6. CASE LibrarySteps
  BY <1>1, <1>4, <1>5, <1>6 DEF LibrarySteps, Touched, Added, Trashed, Restored, Erased,
     BecomesBusy
<1>7. CASE BecomesQuiet
  BY <1>1, <1>7 DEF BecomesQuiet, Kick
<1>8. CASE HandlerSteps
  BY <1>1, <1>2, <1>8 DEF HandlerSteps, HandleNext, HandleRemove, HandleRow, HandleStat,
     HandleQueued, HandleEnqueue, Kick
<1>9. CASE ReconSteps
  BY <1>1, <1>2, <1>9 DEF ReconSteps, ReconSnapshot, ReconDocuments, ReconStat, ReconStale,
     ReconReset, ReconQueued, ReconMissing, ReconLooks, Kick
<1>10. CASE DrainSteps
  BY <1>10, TextDrain
<1>11. ASSUME NEW d \in Docs, WriteThrough(d) \/ BackoffEnds(d) PROVE TextInv'
  BY <1>1, <1>11 DEF WriteThrough, BackoffEnds, Kick
<1>12. CASE Start
  BY <1>1, <1>12 DEF Start, StartOver
<1>13. CASE Quit
  BY <1>13, RowTypes DEF Quit, TextInv
<1>14. CASE ClearStops
  BY <1>14 DEF ClearStops, TextInv, AtJob, TypeOK, Drains
<1>15. CASE ClearStarts
  <2>1. /\ memory' = memory /\ file' = file /\ doc' = [d \in Docs |-> NoRow]
        /\ drain' = drain \/ drain' = [drain EXCEPT !.phase = "closed"]
    BY <1>15 DEF ClearStarts, StartOver, At
  <2>2. /\ drain'.doc = drain.doc /\ drain'.borrowed = drain.borrowed
        /\ drain' = drain \/ drain'.phase = "closed"
    BY <2>1 DEF TypeOK, Drains
  <2> QED BY <2>1, <2>2, RowTypes DEF TextInv, AtJob
<1> QED BY <1>3, <1>6, <1>7, <1>8, <1>9, <1>10, <1>11, <1>12, <1>13, <1>14, <1>15 DEF Next

\* A row that records the file as it is holds its text, unless the file changes
\* while its text is held in memory or between the reading of its text and of
\* its size and time.
THEOREM RowsTellTheText ==
    ASSUME {"cached", "window"} \cap Races = {}
    PROVE  Spec => []StatTellsText
<1>1. Init => TypeOK /\ Fresh /\ TextInv
  BY TypeInit, RowTypes DEF Init, Fresh, AtPaper, TextInv
<1>2. TypeOK /\ Fresh /\ TextInv /\ [Next]_vars => (TypeOK /\ Fresh /\ TextInv)'
  BY TypeNext, FreshNext, TextNext
<1>3. TypeOK /\ TextInv => StatTellsText
  BY DEF TypeOK, TextInv, StatTellsText, Current
<1> QED BY <1>1, <1>2, <1>3, PTL DEF Spec
-----------------------------------------------------------------------------
\* A change that is handled concerns a paper that no job is at, and makes a
\* parked one start afresh only when it is indexed.
ParkInv ==
    /\ handler # "idle" => ~AtJob(Head1[2])
    /\ handler \in {"row", "stat", "queued"} => Head1[1] = "modify"
    /\ handler = "enqueue" => Head1[1] \in {"add", "modify"}
    /\ handler = "stat" \/ (handler = "enqueue" /\ Head1[1] = "modify") =>
          (Queued(Head1[2]) /\ Parked(Head1[2]) => HasRow(Head1[2]))

\* The change stays, no job gets at its paper, and its row stays if its job does.
LEMMA ParkKept ==
    ASSUME TypeOK, ParkInv, UNCHANGED handler, handler # "idle" => Head1' = Head1,
           drain'.doc \in {drain.doc, None},
           \A d \in Docs : ~AtJob(d) => \/ queue'[d] = queue[d] /\ doc'[d] = doc[d]
                                        \/ ~(Queued(d)' /\ Parked(d)')
    PROVE  ParkInv'
<1>1. CASE handler = "idle"
  BY <1>1 DEF ParkInv
<1>2. CASE handler # "idle"
  <2>1. Head1 = Head1' /\ Head1[2] \in Docs /\ ~AtJob(Head1[2])
    BY <1>2, HeadFacts DEF ParkInv, TypeOK
  <2>2. ~AtJob(Head1[2])'
    BY <2>1, ConstantFacts DEF AtJob
  <2>3. Queued(Head1[2])' /\ Parked(Head1[2])' =>
            /\ queue'[Head1[2]] = queue[Head1[2]] /\ doc'[Head1[2]] = doc[Head1[2]]
    BY <2>1
  <2>4. Queued(Head1[2])' /\ Parked(Head1[2])' =>
            /\ Queued(Head1[2]) /\ Parked(Head1[2])
            /\ HasRow(Head1[2]) => HasRow(Head1[2])'
    BY <2>1, <2>3 DEF Queued, Parked, HasRow
  <2> QED BY <1>2, <2>1, <2>2, <2>4 DEF ParkInv
<1> QED BY <1>1, <1>2

\* What is queued afresh is not parked, and what is deleted is not queued.
LEMMA AfreshFacts ==
    ASSUME TypeOK, NEW D
    PROVE  /\ \A priority \in {Prefetch, OfStale, OfChange, OfRead} : Enqueue(D, priority) =>
                 \A d \in Docs : queue'[d] = queue[d] \/ (d \in D /\ ~Parked(d)')
           /\ Delete(D) => \A d \in Docs : \/ queue'[d] = queue[d] /\ doc'[d] = doc[d]
                                           \/ ~Queued(d)'
<1>1. ASSUME NEW priority \in {Prefetch, OfStale, OfChange, OfRead}, Enqueue(D, priority),
             NEW d \in Docs, queue'[d] # queue[d]
      PROVE  d \in D /\ ~Parked(d)'
  <2>1. d \in D /\ queue'[d].attempts = 0
    BY <1>1, EnqueueFacts
  <2> QED BY <2>1, ConstantFacts DEF Parked
<1>2. ASSUME Delete(D), NEW d \in Docs
      PROVE  (queue'[d] = queue[d] /\ doc'[d] = doc[d]) \/ ~Queued(d)'
  BY <1>2, DeleteFacts DEF Queued
<1> QED BY <1>1, <1>2

\* A step of the drain does not meet the paper of a change under way.
LEMMA ParkDrain ==
    ASSUME TypeOK, ParkInv, "overlap" \notin Races, DrainSteps
    PROVE  ParkInv'
<1> USE DEF library, index, incoming
<1>1. handler' = handler /\ Head1' = Head1
  BY DEF DrainSteps, DrainStarts, Pick, PickNothing, Quiet, Drop, LoadText, LoadFails, ReadStat,
     WriteRow, Release, Done, Failed, IndexFails, DrainFails, Closed, Head1
<1>2. CASE Pick
  <2>1. PICK d \in First(Runnable) : drain'.doc = d
    BY <1>2 DEF Pick, TypeOK, Drains
  <2>2. handler # "idle" => Head1[2] # d
    BY <1>2, <2>1 DEF Pick, First
  <2>3. queue' = queue /\ doc' = doc
    BY <1>2 DEF Pick
  <2> QED BY <1>1, <2>1, <2>2, <2>3 DEF ParkInv, AtJob, Queued, Parked, HasRow
<1>3. CASE ~Pick
  <2>1. drain'.doc \in {drain.doc, None}
    BY <1>3, RowTypes, ZenonT(60) DEF DrainSteps, DrainStarts, PickNothing, Quiet, Drop,
       LoadText, LoadFails,
     ReadStat, WriteRow, Release, Done, Failed, IndexFails, DrainFails, Closed, Ends, At,
     TypeOK, Drains, Idle
  <2>2. ASSUME NEW d \in Docs, ~AtJob(d) PROVE queue'[d] = queue[d] /\ doc'[d] = doc[d]
    BY <1>3, <2>2 DEF DrainSteps, DrainStarts, PickNothing, Quiet, Drop, LoadText, LoadFails,
     ReadStat, WriteRow, Release, Done, Failed, IndexFails, DrainFails, Closed, AtJob, TypeOK
  <2> QED BY <1>1, <2>1, <2>2, ParkKept
<1> QED BY <1>2, <1>3

\* A step of the handler restarts a parked job only for a row it has seen.
LEMMA ParkHandler ==
    ASSUME TypeOK, ParkInv, "overlap" \notin Races, HandlerSteps
    PROVE  ParkInv'
<1> USE DEF index, drainer
<1>1. CASE handler' = "idle"
  BY <1>1 DEF ParkInv
<1>2. ASSUME handler' # "idle", UNCHANGED <<notices, index, drainer>>
      PROVE  /\ Head1' = Head1 /\ AtJob(Head1[2])' = AtJob(Head1[2])
             /\ (Queued(Head1[2]) /\ Parked(Head1[2]) => HasRow(Head1[2]))'
                   = (Queued(Head1[2]) /\ Parked(Head1[2]) => HasRow(Head1[2]))
  BY <1>2 DEF Head1, AtJob, Queued, Parked, HasRow
<1>3. CASE HandleNext
  <2>1. /\ notices # <<>> /\ ~AtJob(Head1[2]) /\ notices' = notices
        /\ handler' = "remove" \/ (handler' = "enqueue" /\ Head1[1] = "add")
             \/ (handler' = "row" /\ Head1[1] = "modify")
    BY <1>3, HeadFacts DEF HandleNext, HandlerAt, Events
  <2> QED BY <1>2, <1>3, <2>1 DEF HandleNext, ParkInv
<1>4. CASE HandleRow
  BY <1>2, <1>4 DEF HandleRow, ParkInv
<1>5. CASE HandleStat
  BY <1>1, <1>2, <1>5 DEF HandleStat, HandlerAt, HandlerDone, ParkInv
<1>6. CASE HandleQueued
  BY <1>1, <1>2, <1>6 DEF HandleQueued, HandlerAt, HandlerDone, ParkInv
<1> QED BY <1>1, <1>3, <1>4, <1>5, <1>6 DEF HandlerSteps, HandleRemove, HandleEnqueue, HandlerDone

\* Every step keeps what is said of parked jobs.
LEMMA ParkNext ==
    ASSUME TypeOK, ParkInv, "overlap" \notin Races, [Next]_vars
    PROVE  ParkInv'
<1> USE DEF library, index, incoming, bounds, drainer
<1>1. ASSUME UNCHANGED <<handler, notices, drain, queue, doc>> PROVE ParkInv'
  BY <1>1, ParkKept DEF Head1
<1>2. ASSUME NEW d \in Docs, NEW event \in Events, Notice(event, d),
             UNCHANGED <<handler, drain, queue, doc>>
      PROVE  ParkInv'
  <2>1. handler # "idle" => Head1' = Head1
    BY <1>2, NoticeFacts DEF Head1, TypeOK
  <2> QED BY <1>2, <2>1, ParkKept
<1>3. ASSUME NEW D, UNCHANGED <<handler, notices, drain>>,
             Delete(D) \/ \E priority \in {Prefetch, OfStale, OfChange, OfRead} :
                              Enqueue(D, priority) /\ UNCHANGED doc
      PROVE  ParkInv'
  <2>1. ASSUME NEW d \in Docs
        PROVE  (queue'[d] = queue[d] /\ doc'[d] = doc[d]) \/ ~(Queued(d)' /\ Parked(d)')
    BY <1>3, AfreshFacts
  <2> QED BY <1>3, <2>1, ParkKept DEF Head1
<1>4. CASE UNCHANGED vars
  BY <1>1, <1>4 DEF vars
<1>5. CASE LibrarySteps
  <2>1. CASE BecomesBusy \/ \E d \in Docs : AgentReads(d)
    BY <1>1, <2>1 DEF BecomesBusy, AgentReads
  <2>2. ASSUME NEW d \in Docs, FileChanges(d) \/ Touched(d) PROVE ParkInv'
    BY <1>2, <2>2 DEF FileChanges, Touched, Events
  <2>3. ASSUME NEW d \in Docs, Added(d) PROVE ParkInv'
    BY <1>2, <2>3 DEF Added, Events
  <2>4. ASSUME NEW d \in Docs, Trashed(d) \/ Restored(d) \/ Erased(d) PROVE ParkInv'
    BY <1>2, <2>4 DEF Trashed, Restored, Erased, Events
  <2> QED BY <1>5, <2>1, <2>2, <2>3, <2>4 DEF LibrarySteps
<1>6. CASE BecomesQuiet
  BY <1>1, <1>6 DEF BecomesQuiet, Kick
<1>7. CASE ReconSteps
  <2> USE DEF ReconLooks
  <2>1. CASE ReconStale \/ ReconMissing
    <3>1. UNCHANGED <<handler, notices, drain, doc>>
      BY <2>1 DEF ReconStale, ReconMissing, Kick
    <3> QED BY <1>3, <2>1, <3>1, ReconWrites
  <2>2. CASE ReconReset
    <3>1. \A d \in Docs : queue'[d] = queue[d] \/ ~Parked(d)'
      BY <2>2, ReconWrites, ConstantFacts DEF Parked
    <3> QED BY <2>2, <3>1, ParkKept DEF ReconReset, Head1
  <2> QED BY <1>1, <1>3, <1>7, <2>1, <2>2 DEF ReconSteps, ReconSnapshot, ReconDocuments,
      ReconStat, ReconQueued
<1>8. ASSUME NEW d \in Docs, WriteThrough(d) PROVE ParkInv'
  BY <1>3, <1>8 DEF WriteThrough, Kick
<1>9. ASSUME NEW d \in Docs, BackoffEnds(d) PROVE ParkInv'
  <2>1. ASSUME NEW e \in Docs
        PROVE  queue'[e] = queue[e] \/ ~Parked(e)'
    BY <1>9 DEF BackoffEnds, Parked, TypeOK, Jobs
  <2> QED BY <1>9, <2>1, ParkKept DEF BackoffEnds, Head1
<1>10. CASE Start
  BY <1>1, <1>10 DEF Start, StartOver
<1>11. CASE Quit \/ ClearStarts
  BY <1>11 DEF Quit, ClearStarts, ParkInv
<1>12. CASE ClearStops
  <2>1. drain'.doc = drain.doc
    BY <1>12 DEF ClearStops, TypeOK, Drains
  <2> QED BY <1>12, <2>1, ParkKept DEF ClearStops, Head1
<1> QED BY <1>4, <1>5, <1>6, <1>7, <1>8, <1>9, <1>10, <1>11, <1>12, ParkDrain, ParkHandler DEF Next

\* What a step does to the reconcile.
LEMMA ReconStep ==
    ASSUME TypeOK, [Next]_vars
    PROVE  \/ UNCHANGED recon
           \/ ReconSteps
           \/ recon' = NoRecon /\ Quit
           \/ recon'.phase = "snapshot" /\ (Start \/ ClearStarts)
BY DEF Next, vars, library, incoming, LibrarySteps, FileChanges, Touched, Added, Trashed,
   Restored, Erased,
   AgentReads, BecomesBusy, BecomesQuiet, HandlerSteps, HandleNext, HandleRemove, HandleRow,
   HandleStat, HandleQueued, HandleEnqueue, DrainSteps, DrainStarts, Pick, PickNothing, Quiet,
   Drop, LoadText, LoadFails, ReadStat, WriteRow, Release, Done, Failed, IndexFails, DrainFails,
   Closed, WriteThrough, BackoffEnds, Start, StartOver, Quit, ClearStops, ClearStarts, NoRecon

\* A paper that has a job is not taken for missing.
LEMMA MissingStep ==
    ASSUME TypeOK, [Next]_vars, NEW d \in Docs, Queued(d), d \in recon'.missing
    PROVE  d \in recon.missing
<1>1. NoRecon.missing = {} /\ [NoRecon EXCEPT !.phase = "snapshot"].missing = {}
  BY DEF NoRecon
<1>2. CASE ReconSteps
  BY <1>1, <1>2 DEF ReconSteps, ReconSnapshot, ReconDocuments, ReconStat, ReconStale, ReconReset,
     ReconQueued, ReconMissing, TypeOK, Recons
<1>3. CASE Start \/ ClearStarts
  BY <1>1, <1>3 DEF Start, ClearStarts, StartOver
<1> QED BY <1>1, <1>2, <1>3, ReconStep

\* A step that makes a parked job start afresh has one of the reasons.
LEMMA ParkStep ==
    ASSUME TypeOK, ParkInv, [Next]_vars, NEW d \in Docs,
           Queued(d), Parked(d), Queued(d)', ~Parked(d)'
    PROVE  \/ HasRow(d) \/ d \in reads \union recon.stale \union recon.missing
           \/ notices # <<>> /\ Head1 = <<"add", d>>
<1> USE DEF library, index, incoming, bounds, drainer
<1>1. queue'[d] # queue[d]
  BY DEF Parked
<1>2. ASSUME NEW D, Delete(D) PROVE FALSE
  BY <1>1, <1>2, AfreshFacts
<1>3. ASSUME NEW D, NEW priority \in {Prefetch, OfStale, OfChange, OfRead}, Enqueue(D, priority)
      PROVE  d \in D
  BY <1>1, <1>3, AfreshFacts
<1>4. CASE HandleEnqueue
  <2>1. d = Head1[2] /\ notices # <<>> /\ handler = "enqueue"
    BY <1>3, <1>4 DEF HandleEnqueue, TypeOK
  <2>2. Head1 = <<Head1[1], Head1[2]>>
    BY <2>1, HeadFacts
  <2> QED BY <2>1, <2>2 DEF ParkInv
<1>5. CASE HandlerSteps
  BY <1>1, <1>2, <1>4, <1>5 DEF HandlerSteps, HandleNext, HandleRemove, HandleRow, HandleStat,
     HandleQueued
<1>6. CASE ReconSteps
  BY <1>1, <1>2, <1>3, <1>6, ReconWrites DEF ReconSteps, ReconSnapshot, ReconDocuments,
     ReconStat, ReconQueued, ReconLooks
<1>7. ASSUME NEW e \in Docs, WriteThrough(e) PROVE d \in reads
  BY <1>3, <1>7 DEF WriteThrough
<1>8. ~\E e \in Docs : BackoffEnds(e)
  BY DEF BackoffEnds, Parked, TypeOK, Jobs
<1>9. ~(Drop \/ Done)
  BY <1>1, RowTypes DEF Drop, Done, Queued, TypeOK
<1>10. ~Failed
  <2> SUFFICES ASSUME Failed PROVE FALSE
    OBVIOUS
  <2>1. queue'[d].attempts = queue[d].attempts + 1
    BY <1>1, FailedFacts
  <2> QED BY <2>1, JobFacts, ConstantFacts DEF Parked
<1>11. CASE DrainSteps
  BY <1>1, <1>9, <1>10, <1>11 DEF DrainSteps, DrainStarts, Pick, PickNothing, Quiet, LoadText,
     LoadFails, ReadStat, WriteRow, Release, IndexFails, DrainFails, Closed
<1>12. ~(LibrarySteps \/ BecomesQuiet)
  BY <1>1 DEF LibrarySteps, FileChanges, Touched, Added, Trashed, Restored, Erased, AgentReads,
     BecomesBusy,
     BecomesQuiet
<1>13. ~(Start \/ Quit \/ ClearStops \/ ClearStarts)
  BY <1>1, RowTypes DEF Start, Quit, ClearStops, ClearStarts, StartOver, Queued
<1> QED BY <1>1, <1>5, <1>6, <1>7, <1>8, <1>11, <1>12, <1>13 DEF Next, vars

\* A parked job starts afresh only for a reason, when a change of a paper is not
\* handled while the paper is being indexed.
THEOREM ParkedJobsStay ==
    ASSUME "overlap" \notin Races
    PROVE  Spec => ParkedStaysParked
<1>1. Init => TypeOK /\ Fresh /\ ParkInv
  BY TypeInit, RowTypes DEF Init, Fresh, AtPaper, ParkInv
<1>2. TypeOK /\ Fresh /\ ParkInv /\ [Next]_vars => (TypeOK /\ Fresh /\ ParkInv)'
  BY TypeNext, FreshNext, ParkNext
<1>3. TypeOK /\ ParkInv /\ [Next]_vars =>
        [\A d \in Docs : Queued(d) /\ Parked(d) =>
           /\ d \in recon'.missing => d \in recon.missing
           /\ Queued(d)' /\ ~Parked(d)' =>
                 \/ HasRow(d) \/ d \in reads \union recon.stale \union recon.missing
                 \/ notices # <<>> /\ Head1 = <<"add", d>>]_vars
  BY ParkStep, MissingStep
<1> QED BY <1>1, <1>2, <1>3, PTL DEF Spec, ParkedStaysParked
-----------------------------------------------------------------------------
(***************************************************************************)
(* Nothing is forgotten.  A paper that is not as the index has it is known *)
(* to a change that waits, to the reconcile, or to the queue; one that is  *)
(* gone, to a change or to the reconcile.                                  *)
(***************************************************************************)
Waiting(event, d) == \E i \in 1..Len(notices) : notices[i] = <<event, d>>
Changed(d) == Waiting("add", d) \/ Waiting("modify", d)

\* The papers that the user sees.
Visible == there \ trash

\* A paper that came back after it was trashed or erased.
Followed(d) ==
    \A i \in 1..Len(notices) : notices[i] = <<"delete", d>> =>
        \E j \in 1..Len(notices) :
            j > i /\ notices[j] \in {<<"add", d>>, <<"modify", d>>}

\* Nothing is under way before a start.
HandlerInv ==
    /\ mode = "off" => notices = <<>> /\ ~Draining
    /\ handler = "remove" => Head1[1] = "delete"

GhostInv ==
    mode = "on" => \A d \in Docs \ there :
        /\ HasRow(d) => \/ Waiting("delete", d) \/ recon.phase = "snapshot"
                        \/ recon.phase = "documents" /\ d \notin recon.eligible
        /\ AtJob(d) /\ drain.phase \in {"text", "stat", "row"} => Waiting("delete", d)

\* A reconcile under way has seen every paper that is there.
Seen == recon.phase \in ReconPhases \ {"idle", "snapshot"}
SeenInv ==
    mode # "off" =>
        /\ Seen => there \subseteq recon.eligible
        /\ \A d \in Visible : Followed(d)

\* A job that is about to leave the queue is one whose paper is indexed as it
\* is, or has changed since.
JobInv ==
    mode = "on" => \A d \in Visible : file[d] # 0 /\ AtJob(d) =>
        /\ drain.phase \in {"release", "done"} => Current(d) \/ Changed(d)
        /\ drain.phase = "drop" => Changed(d)
        /\ drain.phase = "row" => drain.stat = file[d] \/ Changed(d)

\* The row that a change has read is the one that is there, or the paper has
\* come back since.
FoundInv ==
    mode = "on" /\ handler = "stat" /\ Head1[2] \in there =>
        doc[Head1[2]].stat = found \/ Waiting("add", Head1[2])

\* The reconcile is going to queue the paper if it must be.
Covered(d) ==
    \/ recon.phase \in {"snapshot", "documents"}
    \/ recon.phase = "stat" /\ (d \in recon.rows => Stale(d, recon.listed[d]))
    \/ recon.phase = "stale" /\ d \in recon.stale \union (recon.eligible \ recon.rows)
    \/ recon.phase \in {"reset", "queued"} /\ d \in recon.eligible \ recon.rows
    \/ recon.phase = "missing" /\ d \in recon.missing

CoverInv ==
    mode = "on" => \A d \in Visible : file[d] # 0 =>
        Changed(d) \/ Current(d) \/ Queued(d) \/ Covered(d)

\* One more change waits, the others still do.
LEMMA NoticeWaits ==
    ASSUME TypeOK, NEW event \in Events, NEW d \in Docs, Notice(event, d)
    PROVE  /\ mode = "on" => Waiting(event, d)'
           /\ \A e \in Events, x \in Docs : Waiting(e, x) => Waiting(e, x)'
           /\ \A x \in Docs : Followed(x) /\ (event # "delete" \/ x # d) => Followed(x)'
           /\ mode = "on" /\ event \in {"add", "modify"} => Followed(d)'
<1> DEFINE longer == Append(notices, <<event, d>>)
<1>1. notices \in Seq(Events \X Docs) /\ <<event, d>> \in Events \X Docs
  BY DEF TypeOK, Notices, Events
<1>2. /\ Len(notices) \in Nat /\ Len(longer) = Len(notices) + 1
      /\ longer[Len(notices) + 1] = <<event, d>>
      /\ \A i \in 1..Len(notices) : longer[i] = notices[i]
  BY <1>1, AppendProperties, LenProperties
<1> HIDE DEF longer
<1>3. CASE mode # "on"
  <2>1. notices' = notices
    BY <1>3 DEF Notice
  <2> QED BY <1>3, <2>1 DEF Waiting, Followed
<1>4. CASE mode = "on"
  <2>1. notices' = longer
    BY <1>4 DEF Notice, longer
  <2>2. Len(notices) + 1 \in 1..Len(longer) /\ 1..Len(notices) \subseteq 1..Len(longer)
    BY <1>2
  <2>3. Waiting(event, d)' /\ \A e \in Events, x \in Docs : Waiting(e, x) => Waiting(e, x)'
    BY <1>2, <2>1, <2>2 DEF Waiting
  <2>4. ASSUME NEW x \in Docs, Followed(x), event # "delete" \/ x # d
        PROVE  Followed(x)'
    <3>1. ASSUME NEW i \in 1..Len(longer), longer[i] = <<"delete", x>>
          PROVE  \E j \in 1..Len(longer) :
                     j > i /\ longer[j] \in {<<"add", x>>, <<"modify", x>>}
      <4>1. i \in 1..Len(notices)
        BY <1>2, <2>4, <3>1
      <4> QED BY <1>2, <2>2, <2>4, <3>1, <4>1 DEF Followed
    <3> QED BY <2>1, <3>1 DEF Followed
  <2>5. ASSUME event \in {"add", "modify"} PROVE Followed(d)'
    <3>1. ASSUME NEW i \in 1..Len(longer), longer[i] = <<"delete", d>>
          PROVE  i < Len(notices) + 1
      BY <1>2, <2>5, <3>1
    <3> QED BY <1>2, <2>1, <2>2, <2>5, <3>1 DEF Followed
  <2> QED BY <2>3, <2>4, <2>5
<1> QED BY <1>3, <1>4

\* The first change is handled, the others still wait.
LEMMA TailWaits ==
    ASSUME TypeOK, notices # <<>>, notices' = Tail(notices)
    PROVE  /\ \A e \in Events, x \in Docs :
                 Waiting(e, x) => Waiting(e, x)' \/ Head1 = <<e, x>>
           /\ \A x \in Docs : Followed(x) => Followed(x)'
           /\ \A x \in Docs : Followed(x) /\ Head1 = <<"delete", x>> => Changed(x)'
<1> DEFINE rest == Tail(notices)
<1>1. notices \in Seq(Events \X Docs)
  BY DEF TypeOK, Notices, Events
<1>2. /\ Len(notices) \in Nat \ {0} /\ Len(rest) = Len(notices) - 1 /\ Head1 = notices[1]
      /\ \A i \in 1..Len(rest) : rest[i] = notices[i + 1]
  BY <1>1, HeadTailProperties, EmptySeq, LenProperties DEF Head1
<1> HIDE DEF rest
<1>3. \A i \in 1..Len(notices) : i = 1 \/ (i - 1 \in 1..Len(rest) /\ rest[i - 1] = notices[i])
  BY <1>2
<1>4. \A i \in 1..Len(rest) : i + 1 \in 1..Len(notices) /\ i \in Int
  BY <1>2
<1>5. notices' = rest
  BY DEF rest
<1>6. ASSUME NEW e \in Events, NEW x \in Docs, Waiting(e, x), Head1 # <<e, x>>
      PROVE  Waiting(e, x)'
  <2>1. PICK i \in 1..Len(notices) : notices[i] = <<e, x>>
    BY <1>6 DEF Waiting
  <2>2. i - 1 \in 1..Len(rest) /\ rest[i - 1] = <<e, x>>
    BY <1>2, <1>3, <1>6, <2>1
  <2> QED BY <1>5, <2>2 DEF Waiting
<1>7. ASSUME NEW x \in Docs, Followed(x), NEW i \in 1..Len(notices), notices[i] = <<"delete", x>>,
             NEW k \in Int, k = i - 1
      PROVE  \E j \in 1..Len(rest) :
                 j > k /\ rest[j] \in {<<"add", x>>, <<"modify", x>>}
  <2>1. PICK j \in 1..Len(notices) :
               j > i /\ notices[j] \in {<<"add", x>>, <<"modify", x>>}
    BY <1>7 DEF Followed
  <2>2. j # 1 /\ i \in Int /\ j \in Int
    BY <2>1
  <2>3. /\ j - 1 \in 1..Len(rest) /\ j - 1 > k
        /\ rest[j - 1] \in {<<"add", x>>, <<"modify", x>>}
    BY <1>3, <1>7, <2>1, <2>2
  <2> QED BY <2>3
<1>8. ASSUME NEW x \in Docs, Followed(x) PROVE Followed(x)'
  <2>1. ASSUME NEW i \in 1..Len(rest), rest[i] = <<"delete", x>>
        PROVE  \E j \in 1..Len(rest) :
                   j > i /\ rest[j] \in {<<"add", x>>, <<"modify", x>>}
    <3>1. i + 1 \in 1..Len(notices) /\ notices[i + 1] = <<"delete", x>>
      BY <1>2, <1>4, <2>1
    <3>2. i \in Int /\ i = (i + 1) - 1
      OBVIOUS
    <3> QED BY <1>7, <1>8, <3>1, <3>2
  <2> QED BY <1>5, <2>1 DEF Followed
<1>9. ASSUME NEW x \in Docs, Followed(x), Head1 = <<"delete", x>> PROVE Changed(x)'
  <2>1. 1 \in 1..Len(notices) /\ notices[1] = <<"delete", x>> /\ 0 \in Int /\ 0 = 1 - 1
    BY <1>2, <1>9
  <2>2. \E j \in 1..Len(rest) : rest[j] \in {<<"add", x>>, <<"modify", x>>}
    BY <1>7, <1>9, <2>1
  <2> QED BY <1>5, <2>2 DEF Changed, Waiting
<1> QED BY <1>6, <1>8, <1>9

\* What a step does to the changes that wait.
LEMMA NoticesStep ==
    ASSUME TypeOK, [Next]_vars
    PROVE  \/ UNCHANGED <<notices, handler, found>>
           \/ UNCHANGED <<mode, handler, found, doc, queue, recon, drain>> /\
              \E d \in Docs, event \in Events : Notice(event, d)
           \/ HandlerSteps \/ Quit \/ ClearStarts
<1> USE DEF library, index, incoming, drainer
<1>1. CASE UNCHANGED vars \/ ReconSteps \/ BecomesQuiet \/ Start \/ ClearStops
  BY <1>1 DEF vars, ReconSteps, ReconSnapshot, ReconDocuments, ReconStat, ReconStale, ReconReset,
     ReconQueued, ReconMissing, ReconLooks, BecomesQuiet,
     Start, ClearStops
<1>2. CASE LibrarySteps
  BY <1>2 DEF LibrarySteps, FileChanges, Touched, Added, Trashed, Restored, Erased, AgentReads,
     BecomesBusy, Events
<1>3. CASE DrainSteps
  BY <1>3 DEF DrainSteps, DrainStarts, Pick, PickNothing, Quiet, Drop, LoadText, LoadFails,
     ReadStat, WriteRow, Release, Done, Failed, IndexFails, DrainFails, Closed
<1>4. CASE \E d \in Docs : WriteThrough(d) \/ BackoffEnds(d)
  BY <1>4 DEF WriteThrough, BackoffEnds
<1> QED BY <1>1, <1>2, <1>3, <1>4 DEF Next

\* A step of the handler moves on, or ends the change.
LEMMA HandlerFacts ==
    ASSUME TypeOK, HandlerSteps
    PROVE  /\ UNCHANGED <<there, trash, file, mode, recon, drain>>
           /\ \/ HandlerDone /\ handler # "idle" /\ notices # <<>>
              \/ UNCHANGED <<notices, doc, queue>> /\ (handler' = "remove" => Head1[1] = "delete")
<1> USE DEF library, index, drainer
<1>1. CASE HandleNext
  <2>1. notices # <<>> /\ UNCHANGED notices
    BY <1>1 DEF HandleNext, HandlerAt
  <2>2. handler' = "remove" => Head1[1] = "delete"
    BY <1>1, <2>1, HeadFacts DEF HandleNext, HandlerAt, Events
  <2> QED BY <1>1, <2>1, <2>2 DEF HandleNext
<1>2. CASE ~HandleNext
  BY <1>2 DEF HandlerSteps, HandleRemove, HandleRow, HandleStat, HandleQueued, HandleEnqueue,
     HandlerAt, Kick, TypeOK
<1> QED BY <1>1, <1>2

\* A change waits until it is handled.
LEMMA WaitsStep ==
    ASSUME TypeOK, [Next]_vars, ~Quit
    PROVE  /\ \A e \in Events, x \in Docs :
                 \/ Waiting(e, x) => Waiting(e, x)'
                 \/ Head1 = <<e, x>> /\ HandlerSteps /\ handler # "idle" /\ HandlerDone
                 \/ ClearStarts
           /\ \A x \in Docs : Followed(x) => Followed(x)' \/ Trashed(x) \/ Erased(x)
<1>1. CASE UNCHANGED notices
  BY <1>1 DEF Waiting, Followed
<1>2. CASE /\ notices # <<>> /\ notices' = Tail(notices)
           /\ ClearStarts \/ (HandlerSteps /\ handler # "idle" /\ HandlerDone)
  BY <1>2, TailWaits
<1>3. ASSUME NEW d \in Docs, FileChanges(d) \/ Touched(d) \/ Added(d) \/ Restored(d)
      PROVE  /\ \A e \in Events, x \in Docs : Waiting(e, x) => Waiting(e, x)'
             /\ \A x \in Docs : Followed(x) => Followed(x)'
  <2>1. \E event \in Events : Notice(event, d) /\ event # "delete"
    BY <1>3 DEF FileChanges, Touched, Added, Restored, Events
  <2> QED BY <2>1, NoticeWaits
<1>4. ASSUME NEW d \in Docs, Trashed(d) \/ Erased(d)
      PROVE  /\ \A e \in Events, x \in Docs : Waiting(e, x) => Waiting(e, x)'
             /\ \A x \in Docs : Followed(x) => Followed(x)' \/ Trashed(x) \/ Erased(x)
  <2>1. Notice("delete", d) /\ "delete" \in Events
    BY <1>4 DEF Trashed, Erased, Events
  <2> QED BY <1>4, <2>1, NoticeWaits
<1>5. CASE LibrarySteps
  <2>1. CASE BecomesBusy \/ \E d \in Docs : AgentReads(d)
    BY <1>1, <2>1 DEF BecomesBusy, AgentReads, incoming
  <2> QED BY <1>3, <1>4, <1>5, <2>1 DEF LibrarySteps
<1>6. CASE HandlerSteps
  BY <1>1, <1>2, <1>6, HandlerFacts DEF HandlerDone
<1>7. CASE ClearStarts
  <2>1. handler # "idle" => notices # <<>>
    BY DEF TypeOK
  <2> QED BY <1>1, <1>2, <1>7, <2>1 DEF ClearStarts
<1>8. CASE UNCHANGED vars \/ ReconSteps \/ BecomesQuiet \/ Start \/ ClearStops
  BY <1>1, <1>8 DEF vars, ReconSteps, ReconSnapshot, ReconDocuments, ReconStat, ReconStale,
     ReconReset, ReconQueued, ReconMissing, ReconLooks,
     BecomesQuiet, Start, ClearStops, incoming
<1>9. CASE DrainSteps \/ \E d \in Docs : WriteThrough(d) \/ BackoffEnds(d)
  BY <1>1, <1>9 DEF DrainSteps, DrainStarts, Pick, PickNothing, Quiet, Drop, LoadText, LoadFails,
     ReadStat, WriteRow, Release, Done, Failed, IndexFails, DrainFails, Closed, WriteThrough,
     BackoffEnds, incoming
<1> QED BY <1>5, <1>6, <1>7, <1>8, <1>9 DEF Next

\* What a step does to the row and the job of a paper.
LEMMA RowStep ==
    ASSUME TypeOK, [Next]_vars, NEW d \in Docs
    PROVE  /\ \/ doc'[d] = doc[d]
              \/ doc'[d] = NoRow /\ HandleRemove /\ Head1[2] = d
              \/ doc'[d] = NoRow /\ ReconDocuments /\ d \notin recon.eligible
              \/ doc'[d] = NoRow /\ ClearStarts
              \/ WriteRow /\ AtJob(d) /\ doc'[d] = [text |-> drain.text, stat |-> drain.stat]
           /\ Queued(d) => \/ Queued(d)'
                           \/ HandleRemove /\ Head1[2] = d
                           \/ ReconDocuments /\ d \notin recon.eligible
                           \/ ClearStarts
                           \/ (Drop \/ Done) /\ AtJob(d)
<1> USE DEF index
<1>1. ASSUME NEW D, Delete(D), d \notin D PROVE doc'[d] = doc[d] /\ queue'[d] = queue[d]
  BY <1>1, DeleteFacts
<1>2. ASSUME NEW D, Delete(D), d \in D PROVE doc'[d] = NoRow
  BY <1>2, DeleteFacts
<1>3. ASSUME NEW D, NEW priority \in {Prefetch, OfStale, OfChange, OfRead}, Enqueue(D, priority), Queued(d)
      PROVE  Queued(d)'
  <2>1. queue'[d] = queue[d] \/ queue'[d].ready
    BY <1>3 DEF Enqueue
  <2> QED BY <1>3, <2>1 DEF Queued, NoJob
<1>4. CASE UNCHANGED <<doc, queue>>
  BY <1>4 DEF Queued
<1>5. CASE HandleRemove
  BY <1>1, <1>2, <1>5 DEF HandleRemove, Queued
<1>6. CASE ReconDocuments
  <2>1. Delete({e \in Docs \ recon.eligible : HasRow(e)})
    BY <1>6 DEF ReconDocuments
  <2>2. CASE d \in recon.eligible
    BY <1>1, <2>1, <2>2 DEF Queued
  <2>3. CASE d \notin recon.eligible
    BY <1>1, <1>2, <1>6, <2>1, <2>3
  <2> QED BY <2>2, <2>3
<1>7. CASE HandleEnqueue \/ ReconStale \/ ReconMissing \/ \E e \in Docs : WriteThrough(e)
  <2>1. UNCHANGED doc
    BY <1>7 DEF HandleEnqueue, ReconStale, ReconMissing, WriteThrough
  <2>2. \E D : \E priority \in {Prefetch, OfStale, OfChange, OfRead} : Enqueue(D, priority)
    BY <1>7, ReconWrites DEF HandleEnqueue, WriteThrough
  <2> QED BY <1>3, <2>1, <2>2
<1>19. CASE ReconReset
  <2>1. Queued(d) => Queued(d)'
    <3>1. CASE queue'[d] = queue[d]
      BY <3>1 DEF Queued
    <3>2. CASE queue'[d].ready
      BY <3>2 DEF Queued, NoJob
    <3> QED BY <1>19, <3>1, <3>2, ReconWrites
  <2> QED BY <1>19, <2>1 DEF ReconReset
<1>8. ASSUME NEW e \in Docs, BackoffEnds(e)
      PROVE  doc'[d] = doc[d] /\ (Queued(d) => Queued(d)')
  <2>1. d # e => queue'[d] = queue[d]
    BY <1>8 DEF BackoffEnds, TypeOK
  <2>2. d = e => queue'[d].ready
    BY <1>8 DEF BackoffEnds, TypeOK, Jobs
  <2> QED BY <1>8, <2>1, <2>2 DEF BackoffEnds, Queued, NoJob
<1>9. CASE WriteRow
  BY <1>9 DEF WriteRow, AtJob, TypeOK, Queued
<1>10. CASE Drop \/ Done
  BY <1>10 DEF Drop, Done, AtJob, TypeOK, Queued
<1>11. CASE Failed
  <2>1. queue'[d] = queue[d] \/ queue'[d].attempts = queue[d].attempts + 1
    BY <1>11, FailedFacts
  <2>2. queue[d].attempts \in Nat /\ NoJob.attempts = 0
    BY JobFacts DEF NoJob
  <2> QED BY <1>11, <2>1, <2>2 DEF Failed, Queued
<1>12. CASE ClearStarts
  BY <1>12 DEF ClearStarts, StartOver
<1>13. CASE Start
  BY <1>4, <1>13 DEF Start, StartOver
<1>14. CASE LibrarySteps \/ BecomesQuiet \/ Quit \/ ClearStops
  BY <1>4, <1>14 DEF LibrarySteps, FileChanges, Touched, Added, Trashed, Restored, Erased,
     AgentReads, BecomesBusy,
     BecomesQuiet, Quit, ClearStops
<1>15. CASE HandlerSteps
  BY <1>4, <1>5, <1>7, <1>15 DEF HandlerSteps, HandleNext, HandleRow, HandleStat, HandleQueued
<1>16. CASE ReconSteps
  BY <1>4, <1>6, <1>7, <1>16, <1>19 DEF ReconSteps, ReconSnapshot, ReconStat, ReconQueued
<1>17. CASE DrainSteps
  BY <1>4, <1>9, <1>10, <1>11, <1>17 DEF DrainSteps, DrainStarts, Pick, PickNothing, Quiet,
     LoadText, LoadFails, ReadStat, Release, IndexFails, DrainFails, Closed
<1>18. CASE UNCHANGED vars
  BY <1>4, <1>18 DEF vars
<1> QED BY <1>7, <1>8, <1>12, <1>13, <1>14, <1>15, <1>16, <1>17, <1>18 DEF Next

\* Every step keeps what is said of the change under way.
LEMMA HandlerNext == ASSUME TypeOK, HandlerInv, [Next]_vars PROVE HandlerInv'
<1> USE DEF library, index, drainer, incoming
<1>1. ASSUME mode' = "off" PROVE notices' = <<>> /\ ~Draining'
  <2>1. CASE Quit
    BY <2>1, RowTypes DEF Quit, Draining
  <2>2. CASE ~Quit
    <3>1. mode = "off" /\ notices = <<>> /\ ~Draining /\ handler = "idle"
      <4>1. mode = "off"
        BY <1>1, <2>2 DEF Next, vars, LibrarySteps, FileChanges, Touched, Added, Trashed,
           Restored, Erased,
           AgentReads, BecomesBusy, BecomesQuiet, HandlerSteps, HandleNext, HandleRemove,
           HandleRow, HandleStat, HandleQueued, HandleEnqueue, ReconSteps, ReconSnapshot,
           ReconDocuments, ReconStat, ReconStale, ReconReset, ReconQueued, ReconMissing,
           ReconLooks, DrainSteps, DrainStarts, Pick, PickNothing,
           Quiet, Drop, LoadText, LoadFails, ReadStat, WriteRow, Release, Done, Failed,
           IndexFails, DrainFails, Closed, WriteThrough, BackoffEnds, Start, StartOver,
           ClearStops, ClearStarts
      <4> QED BY <4>1 DEF HandlerInv, TypeOK
    <3>2. CASE LibrarySteps
      BY <3>1, <3>2 DEF LibrarySteps, FileChanges, Touched, Added, Trashed, Restored, Erased,
         AgentReads,
         BecomesBusy, Notice, Draining
    <3>3. ~HandlerSteps /\ ~DrainSteps
      BY <3>1 DEF HandlerSteps, HandleNext, HandleRemove, HandleRow, HandleStat, HandleQueued,
         HandleEnqueue, DrainSteps, DrainStarts, Pick, PickNothing, Quiet, Drop, LoadText,
         LoadFails, ReadStat, WriteRow, Release, Done, Failed, IndexFails, DrainFails, Closed,
         Draining
    <3>4. ~Start /\ ~ClearStops /\ ~ClearStarts
      BY <1>1, <3>1 DEF Start, StartOver, ClearStops, ClearStarts
    <3> QED BY <2>2, <3>1, <3>2, <3>3, <3>4 DEF Next, vars, BecomesQuiet, ReconSteps,
            ReconSnapshot, ReconDocuments, ReconStat, ReconStale, ReconReset, ReconQueued,
            ReconMissing, ReconLooks, WriteThrough, BackoffEnds,
            Kick, Draining
  <2> QED BY <2>1, <2>2
<1>2. ASSUME handler' = "remove" PROVE Head1'[1] = "delete"
  <2>1. CASE UNCHANGED <<notices, handler>>
    BY <1>2, <2>1 DEF HandlerInv, Head1
  <2>2. ASSUME UNCHANGED handler, NEW d \in Docs, NEW event \in Events, Notice(event, d)
        PROVE  Head1'[1] = "delete"
    <3>1. notices # <<>> /\ Head1[1] = "delete"
      BY <1>2, <2>2 DEF HandlerInv, TypeOK
    <3> QED BY <2>2, <3>1, NoticeFacts DEF Head1
  <2>3. CASE HandlerSteps
    BY <1>2, <2>3, HandlerFacts DEF Head1, HandlerDone
  <2>4. ~Quit /\ ~ClearStarts
    BY <1>2 DEF Quit, ClearStarts
  <2> QED BY <2>1, <2>2, <2>3, <2>4, NoticesStep
<1> QED BY <1>1, <1>2 DEF HandlerInv

\* The scheduler is running afterwards: it was, or the index is started.
LEMMA Starts ==
    ASSUME TypeOK, HandlerInv, [Next]_vars, mode' = "on", mode # "on"
    PROVE  /\ Start \/ ClearStarts
           /\ recon'.phase = "snapshot" /\ drain'.phase \in {"idle", "closed"}
<1> USE DEF library, index
<1>1. Start \/ ClearStarts
  BY DEF Next, vars, LibrarySteps, FileChanges, Touched, Added, Trashed, Restored, Erased,
     AgentReads, BecomesBusy, BecomesQuiet, HandlerSteps, HandleNext, HandleRemove,
     HandleRow, HandleStat, HandleQueued, HandleEnqueue, ReconSteps, ReconSnapshot,
     ReconDocuments, ReconStat, ReconStale, ReconReset, ReconQueued, ReconMissing, ReconLooks,
     DrainSteps, DrainStarts, Pick, PickNothing,
     Quiet, Drop, LoadText, LoadFails, ReadStat, WriteRow, Release, Done, Failed,
     IndexFails, DrainFails, Closed, WriteThrough, BackoffEnds, Quit, ClearStops
<1>2. recon'.phase = "snapshot"
  BY <1>1 DEF Start, ClearStarts, StartOver, NoRecon
<1>3. CASE Start
  BY <1>1, <1>2, <1>3 DEF Start, HandlerInv, Draining
<1>4. CASE ClearStarts
  <2>1. Draining => drain'.phase = "closed"
    BY <1>4 DEF ClearStarts, At, TypeOK, Drains
  <2>2. ~Draining => drain'.phase = "idle"
    BY <1>4 DEF ClearStarts, Draining
  <2> QED BY <1>1, <1>2, <2>1, <2>2
<1> QED BY <1>1, <1>3, <1>4

\* The scheduler does not stop before it has run.
LEMMA ModeStep ==
    ASSUME TypeOK, [Next]_vars, mode = "off"
    PROVE  mode' \in {"off", "on"}
BY DEF Next, vars, library, LibrarySteps, FileChanges, Touched, Added, Trashed, Restored, Erased,
   AgentReads, BecomesBusy, BecomesQuiet, HandlerSteps, HandleNext, HandleRemove, HandleRow,
   HandleStat, HandleQueued, HandleEnqueue, ReconSteps, ReconSnapshot, ReconDocuments, ReconStat,
   ReconStale, ReconReset, ReconQueued, ReconMissing, ReconLooks, DrainSteps, DrainStarts, Pick,
   PickNothing, Quiet, Drop, LoadText, LoadFails, ReadStat, WriteRow, Release, Done, Failed,
   IndexFails, DrainFails, Closed, WriteThrough, BackoffEnds, Start, StartOver, Quit, ClearStops,
   ClearStarts

\* Only the library's own steps change it.
LEMMA LibraryKept ==
    ASSUME TypeOK, [Next]_vars, ~LibrarySteps
    PROVE  UNCHANGED <<there, trash, file>>
BY DEF Next, vars, library, BecomesQuiet, HandlerSteps, HandleNext, HandleRemove, HandleRow,
   HandleStat, HandleQueued, HandleEnqueue, ReconSteps, ReconSnapshot, ReconDocuments, ReconStat,
   ReconStale, ReconReset, ReconQueued, ReconMissing, ReconLooks, DrainSteps, DrainStarts, Pick,
   PickNothing, Quiet, Drop, LoadText, LoadFails, ReadStat, WriteRow, Release, Done, Failed,
   IndexFails, DrainFails, Closed, WriteThrough, BackoffEnds, Start, StartOver, Quit, ClearStops,
   ClearStarts

\* What a step does to the library.
LEMMA LibraryStep ==
    ASSUME TypeOK, [Next]_vars, NEW d \in Docs
    PROVE  /\ d \in there' => d \in there \/ Added(d)
           /\ d \in there => d \in there' \/ Erased(d)
           /\ d \in Visible' => d \in Visible \/ Added(d) \/ Restored(d)
           /\ d \in Visible => d \in Visible' \/ Trashed(d) \/ Erased(d)
           /\ file'[d] # file[d] => FileChanges(d)
<1>1. CASE LibrarySteps
  BY <1>1 DEF LibrarySteps, FileChanges, Touched, Added, Trashed, Restored, Erased, AgentReads,
     BecomesBusy, library, Visible, TypeOK
<1>2. CASE ~LibrarySteps
  BY <1>2, LibraryKept DEF Visible
<1> QED BY <1>1, <1>2

\* Only papers are in the library.
LEMMA ThereFacts == ASSUME TypeOK, [Next]_vars PROVE there' \subseteq Docs /\ Visible' \subseteq Docs
<1>1. there' \subseteq Docs
  <2>1. CASE LibrarySteps
    BY <2>1 DEF LibrarySteps, FileChanges, Touched, Added, Trashed, Restored, Erased, AgentReads,
       BecomesBusy, library, TypeOK
  <2>2. CASE ~LibrarySteps
    BY <2>2, LibraryKept DEF TypeOK
  <2> QED BY <2>1, <2>2
<1> QED BY <1>1 DEF Visible

\* What a step does to the job that a drain is at.
LEMMA JobStep ==
    ASSUME TypeOK, [Next]_vars, NEW d \in Docs, AtJob(d)', drain'.phase \in AtPaper
    PROVE  \/ AtJob(d) /\ drain'.phase = drain.phase /\ drain'.stat = drain.stat
           \/ Pick /\ drain'.phase = IF d \in there THEN "text" ELSE "drop"
           \/ AtJob(d) /\ drain'.phase = "stat" /\ drain.phase = "text"
           \/ drain'.phase = "failed"
           \/ /\ ReadStat /\ AtJob(d) /\ drain'.stat = file[d]
              /\ drain'.phase = "row" \/ (drain'.phase = "release" /\ file[d] = 0)
           \/ AtJob(d) /\ WriteRow /\ drain'.phase = "release"
           \/ AtJob(d) /\ Release /\ drain'.phase = "done"
<1> USE DEF drainer, AtPaper, AtJob
<1>1. CASE UNCHANGED drain
  BY <1>1
<1>2. CASE HandlerSteps \/ ReconSteps \/ LibrarySteps \/ BecomesQuiet
            \/ \E e \in Docs : WriteThrough(e) \/ BackoffEnds(e)
  BY <1>1, <1>2 DEF HandlerSteps, HandleNext, HandleRemove, HandleRow, HandleStat,
     HandleQueued, HandleEnqueue, ReconSteps, ReconSnapshot, ReconDocuments, ReconStat,
     ReconStale, ReconReset, ReconQueued, ReconMissing, ReconLooks, WriteThrough, LibrarySteps,
     FileChanges, Touched, Added, Trashed, Restored, Erased, AgentReads,
     BecomesBusy, BecomesQuiet, BackoffEnds, Kick
<1>3. CASE Start \/ Quit \/ ClearStops \/ ClearStarts
  BY <1>1, <1>3, RowTypes DEF Start, Quit, ClearStops, ClearStarts, StartOver, At, TypeOK, Drains
<1>4. CASE DrainStarts \/ PickNothing
  BY <1>4, RowTypes DEF DrainStarts, PickNothing, TypeOK, Drains, Idle
<1>9. CASE Quiet \/ Drop \/ Done \/ Failed \/ DrainFails \/ Closed
  <2>1. drain' = Idle
    BY <1>9 DEF Quiet, Drop, Done, Failed, DrainFails, Closed, Ends
  <2> QED BY <2>1, RowTypes
<1>5. CASE Pick
  BY <1>5 DEF Pick, TypeOK, Drains
<1>6. CASE LoadText \/ LoadFails \/ IndexFails
  BY <1>6 DEF LoadText, LoadFails, IndexFails, At, TypeOK, Drains
<1>7. CASE ReadStat
  BY <1>7 DEF ReadStat, TypeOK, Drains
<1>8. CASE WriteRow \/ Release
  BY <1>8 DEF WriteRow, Release, At, TypeOK, Drains
<1> QED BY <1>1, <1>2, <1>3, <1>4, <1>5, <1>6, <1>7, <1>8, <1>9 DEF Next, DrainSteps, vars

\* Changes are not handled while their paper is being indexed.
LEMMA ChangeOfJobWaits ==
    ASSUME TypeOK, ParkInv, [Next]_vars, ~Quit, ~ClearStarts, NEW d \in Docs, AtJob(d),
           NEW event \in Events, Waiting(event, d)
    PROVE  Waiting(event, d)'
<1>1. handler # "idle" => Head1 # <<event, d>>
  BY DEF ParkInv
<1> QED BY <1>1, WaitsStep

\* Every step keeps a name on what is left of a removed paper.
LEMMA GhostNext ==
    ASSUME TypeOK, ParkInv, HandlerInv, GhostInv, [Next]_vars
    PROVE  GhostInv'
<1> SUFFICES ASSUME mode' = "on", NEW d \in Docs, d \notin there'
             PROVE  /\ HasRow(d)' => \/ Waiting("delete", d)' \/ recon'.phase = "snapshot"
                                     \/ recon'.phase = "documents" /\ d \notin recon'.eligible
                    /\ AtJob(d)' /\ drain'.phase \in {"text", "stat", "row"} =>
                          Waiting("delete", d)'
  BY DEF GhostInv
<1>1. CASE mode # "on"
  BY <1>1, Starts
<1>2. CASE mode = "on"
  <2>1. ~Quit /\ ~ClearStarts /\ ~Start
    BY <1>2 DEF Quit, ClearStarts, Start
  <2>2. CASE Erased(d)
    <3>1. Notice("delete", d) /\ "delete" \in Events
      BY <2>2 DEF Erased, Events
    <3> QED BY <1>2, <3>1, NoticeWaits
  <2>3. CASE ~Erased(d)
    <3>1. d \notin there /\ "delete" \in Events
      BY <2>3, LibraryStep DEF Events
    <3>2. CASE HandlerSteps /\ handler # "idle" /\ HandlerDone /\ Head1 = <<"delete", d>>
      <4>1. Head1[1] = "delete" /\ Head1[2] = d /\ handler = "remove"
        BY <3>2 DEF ParkInv, TypeOK
      <4>2. HandleRemove /\ UNCHANGED drain /\ ~AtJob(d)
        BY <3>2, <4>1 DEF HandlerSteps, HandleNext, HandleRemove, HandleRow, HandleStat,
           HandleQueued, HandleEnqueue, drainer, ParkInv
      <4>3. doc'[d] = NoRow
        BY <4>1, <4>2, DeleteFacts DEF HandleRemove
      <4> QED BY <4>2, <4>3 DEF HasRow, AtJob
    <3>3. CASE ~(HandlerSteps /\ handler # "idle" /\ HandlerDone /\ Head1 = <<"delete", d>>)
      <4>1. Waiting("delete", d) => Waiting("delete", d)'
        BY <2>1, <3>1, <3>3, WaitsStep
      <4>2. ASSUME AtJob(d)', drain'.phase \in {"text", "stat", "row"}
            PROVE  Waiting("delete", d)'
        <5>1. AtJob(d) /\ drain.phase \in {"text", "stat", "row"}
          BY <3>1, <4>2, JobStep DEF AtPaper, ReadStat
        <5> QED BY <1>2, <3>1, <4>1, <5>1 DEF GhostInv
      <4>3. ASSUME HasRow(d)', ~Waiting("delete", d)'
            PROVE  \/ recon'.phase = "snapshot"
                   \/ recon'.phase = "documents" /\ d \notin recon'.eligible
        <5>1. HasRow(d)
          <6>1. ~(WriteRow /\ AtJob(d))
            BY <1>2, <3>1, <4>1, <4>3 DEF GhostInv, WriteRow
          <6> QED BY <2>1, <4>3, <6>1, RowStep DEF HasRow
        <5>2. \/ recon.phase = "snapshot"
              \/ recon.phase = "documents" /\ d \notin recon.eligible
          BY <1>2, <3>1, <4>1, <4>3, <5>1 DEF GhostInv
        <5>3. ~ReconDocuments
          <6> SUFFICES ASSUME ReconDocuments PROVE FALSE
            OBVIOUS
          <6>1. Delete({e \in Docs \ recon.eligible : HasRow(e)}) /\ d \notin recon.eligible
            BY <5>2 DEF ReconDocuments
          <6> QED BY <4>3, <5>1, <6>1, DeleteFacts DEF HasRow
        <5>4. CASE ReconSnapshot
          BY <3>1, <5>4 DEF ReconSnapshot, TypeOK, Recons
        <5>5. ~(ReconStat \/ ReconStale \/ ReconReset \/ ReconQueued \/ ReconMissing)
          BY <5>2 DEF ReconStat, ReconStale, ReconReset, ReconQueued, ReconMissing, ReconLooks
        <5> QED BY <2>1, <5>2, <5>3, <5>4, <5>5, ReconStep DEF ReconSteps
      <4> QED BY <4>2, <4>3
    <3> QED BY <3>2, <3>3
  <2> QED BY <2>2, <2>3
<1> QED BY <1>1, <1>2

\* Once everything that came in is handled, papers that are erased are not
\* indexed, when a change of a paper is not handled while the paper is being
\* indexed.
THEOREM GonePapersGo ==
    ASSUME "overlap" \notin Races
    PROVE  Spec => []NoGhosts
<1> DEFINE IInv == TypeOK /\ Fresh /\ ParkInv /\ HandlerInv /\ GhostInv
<1>1. Init => IInv
  BY TypeInit, RowTypes DEF Init, Fresh, AtPaper, ParkInv, HandlerInv, GhostInv, Draining
<1>2. IInv /\ [Next]_vars => IInv'
  BY TypeNext, FreshNext, ParkNext, HandlerNext, GhostNext
<1>3. IInv => NoGhosts
  BY DEF NoGhosts, Settled, GhostInv, Waiting, HandlerInv, TypeOK
<1> QED BY <1>1, <1>2, <1>3, PTL DEF Spec

\* A paper that comes in or changes is a change that waits.
News(d) == Added(d) \/ Restored(d) \/ FileChanges(d)
LEMMA NewsWaits ==
    ASSUME TypeOK, mode = "on", NEW d \in Docs, News(d)
    PROVE  /\ Changed(d)' /\ Followed(d)'
           /\ Added(d) => Waiting("add", d)'
<1>1. CASE Added(d)
  BY <1>1, NoticeWaits DEF Added, Changed, Events
<1>2. CASE Restored(d) \/ FileChanges(d)
  <2>1. Notice("modify", d) /\ "modify" \in Events
    BY <1>2 DEF Restored, FileChanges, Events
  <2>2. ~Added(d)
    BY <1>2 DEF Restored, FileChanges, Added, TypeOK
  <2> QED BY <2>1, <2>2, NoticeWaits DEF Changed
<1> QED BY <1>1, <1>2 DEF News

\* Every step keeps what the snapshot of the reconcile says.
LEMMA SeenNext ==
    ASSUME TypeOK, HandlerInv, SeenInv, "snapshot" \notin Races, [Next]_vars
    PROVE  SeenInv'
<1> SUFFICES ASSUME mode' # "off"
             PROVE  /\ Seen' => there' \subseteq recon'.eligible
                    /\ \A d \in Visible' : Followed(d)'
  BY DEF SeenInv
<1>1. CASE mode = "off"
  <2>1. Start
    <3>1. CASE mode' = "on"
      BY <1>1, <3>1, Starts DEF ClearStarts
    <3>2. CASE mode' = "clearing"
      BY <1>1, <3>2, ModeStep
    <3> QED BY <1>1, <3>1, <3>2, ModeStep
  <2>2. recon'.phase = "snapshot" /\ notices' = <<>>
    BY <1>1, <2>1 DEF Start, StartOver, NoRecon, HandlerInv
  <2> QED BY <2>2 DEF Followed, Seen
<1>2. CASE mode # "off"
  <2>1. ~Quit
    BY DEF Quit
  <2>2. ASSUME NEW d \in Docs, Added(d) \/ Restored(d) PROVE mode = "on"
    BY <1>2, <2>2 DEF Added, Restored, TypeOK
  <2>3. ASSUME NEW d \in Docs, Added(d) PROVE UNCHANGED recon /\ ~Seen
    BY <2>3 DEF Added, Seen, incoming
  <2>4. ASSUME NEW d \in Visible' PROVE Followed(d)'
    <3>1. d \in Docs
      BY <2>4, ThereFacts
    <3>2. CASE Added(d) \/ Restored(d)
      BY <2>2, <3>1, <3>2, NewsWaits DEF News
    <3>3. CASE d \in Visible
      <4>1. ~Trashed(d) /\ ~Erased(d)
        BY <2>4 DEF Trashed, Erased, Visible
      <4> QED BY <1>2, <2>1, <3>1, <3>3, <4>1, WaitsStep DEF SeenInv
    <3> QED BY <2>4, <3>1, <3>2, <3>3, LibraryStep
  <2>5. ASSUME Seen', NEW d \in Docs, d \in there'
        PROVE  d \in recon'.eligible
    <3>1. CASE UNCHANGED recon
      <4>1. Seen /\ ~Added(d)
        BY <2>3, <2>5, <3>1 DEF Seen
      <4> QED BY <1>2, <2>5, <3>1, <4>1, LibraryStep DEF SeenInv
    <3>2. CASE ReconSteps
      <4>1. d \in there
        BY <2>5, <3>2 DEF ReconSteps, ReconSnapshot, ReconDocuments, ReconStat, ReconStale,
           ReconReset, ReconQueued, ReconMissing, ReconLooks, library
      <4>2. CASE ReconSnapshot
        BY <4>1, <4>2 DEF ReconSnapshot, TypeOK, Recons
      <4>3. CASE ReconDocuments \/ ReconStat \/ ReconStale \/ ReconReset \/ ReconQueued
        <5>1. recon'.eligible = recon.eligible /\ Seen
          BY <4>3 DEF ReconDocuments, ReconStat, ReconStale, ReconReset, ReconQueued, TypeOK,
             Recons, Seen, ReconPhases
        <5> QED BY <1>2, <4>1, <5>1 DEF SeenInv
      <4>4. ~ReconMissing
        BY <2>5 DEF ReconMissing, NoRecon, Seen
      <4> QED BY <3>2, <4>2, <4>3, <4>4 DEF ReconSteps
    <3>3. recon'.phase # "snapshot"
      BY <2>5 DEF Seen
    <3> QED BY <2>1, <3>1, <3>2, <3>3, ReconStep
  <2>6. there' \subseteq Docs
    BY ThereFacts
  <2> QED BY <2>4, <2>5, <2>6
<1> QED BY <1>1, <1>2

\* Every step keeps what is said of the jobs.
LEMMA JobNext ==
    ASSUME TypeOK, ParkInv, HandlerInv, TextInv, SeenInv, JobInv, [Next]_vars
    PROVE  JobInv'
<1> SUFFICES ASSUME mode' = "on", NEW d \in Docs, d \in Visible', file'[d] # 0, AtJob(d)'
             PROVE  /\ drain'.phase \in {"release", "done"} => Current(d)' \/ Changed(d)'
                    /\ drain'.phase = "drop" => Changed(d)'
                    /\ drain'.phase = "row" => drain'.stat = file'[d] \/ Changed(d)'
  BY ThereFacts DEF JobInv
<1>1. CASE mode # "on"
  BY <1>1, Starts
<1>2. CASE mode = "on" /\ News(d)
  BY <1>2, NewsWaits
<1>3. CASE mode = "on" /\ ~News(d)
  <2>1. d \in Visible /\ d \in there /\ file'[d] = file[d] /\ ~Quit /\ ~ClearStarts
    BY <1>3, LibraryStep DEF Quit, ClearStarts, News, Visible
  <2>2. AtJob(d) /\ Changed(d) => Changed(d)'
    BY <2>1, ChangeOfJobWaits DEF Changed, Events
  <2>3. SUFFICES ASSUME drain'.phase \in AtPaper, ~Changed(d)'
                 PROVE  /\ drain'.phase \in {"release", "done"} => Current(d)'
                        /\ drain'.phase # "drop"
                        /\ drain'.phase = "row" => drain'.stat = file'[d]
    BY DEF AtPaper
  <2>4. ASSUME AtJob(d), Current(d), ~WriteRow PROVE Current(d)'
    <3>1. ~(HandleRemove /\ Head1[2] = d)
      BY <2>4 DEF ParkInv, HandleRemove
    <3>2. ~(ReconDocuments /\ d \notin recon.eligible)
      BY <1>3, <2>1 DEF SeenInv, ReconDocuments, Seen, ReconPhases
    <3>3. doc'[d] = doc[d]
      BY <2>1, <2>4, <3>1, <3>2, RowStep
    <3> QED BY <2>1, <2>4, <3>3 DEF Current
  <2>5. CASE AtJob(d) /\ drain'.phase = drain.phase /\ drain'.stat = drain.stat
    <3>1. ~WriteRow
      BY <2>5 DEF WriteRow, At, TypeOK, Drains
    <3> QED BY <1>3, <2>1, <2>2, <2>3, <2>4, <2>5, <3>1 DEF JobInv
  <2>6. CASE WriteRow /\ AtJob(d) /\ drain'.phase = "release"
    <3>1. drain.text = drain.stat /\ drain.stat = file[d]
      BY <1>3, <2>1, <2>2, <2>3, <2>6 DEF JobInv, TextInv, WriteRow
    <3>2. doc'[d] = [text |-> drain.text, stat |-> drain.stat]
      BY <2>6 DEF WriteRow, AtJob, TypeOK
    <3> QED BY <2>1, <2>6, <3>1, <3>2 DEF Current
  <2>7. CASE Release /\ AtJob(d) /\ drain'.phase = "done"
    <3>1. drain.phase = "release" /\ ~WriteRow
      BY <2>7 DEF Release, WriteRow
    <3> QED BY <1>3, <2>1, <2>2, <2>3, <2>4, <2>7, <3>1 DEF JobInv
  <2>8. CASE ReadStat /\ AtJob(d) /\ drain'.stat = file[d]
              /\ (drain'.phase = "row" \/ (drain'.phase = "release" /\ file[d] = 0))
    BY <2>1, <2>8
  <2>9. CASE Pick /\ drain'.phase = IF d \in there THEN "text" ELSE "drop"
    BY <2>1, <2>9
  <2> QED BY <2>3, <2>5, <2>6, <2>7, <2>8, <2>9, JobStep
<1> QED BY <1>1, <1>2, <1>3

\* Every step keeps what is said of the row that was read.
LEMMA FoundNext ==
    ASSUME TypeOK, ParkInv, HandlerInv, SeenInv, FoundInv, [Next]_vars
    PROVE  FoundInv'
<1> SUFFICES ASSUME mode' = "on", handler' = "stat", Head1'[2] \in there'
             PROVE  doc'[Head1'[2]].stat = found' \/ Waiting("add", Head1[2])'
  BY DEF FoundInv
<1>1. mode = "on" /\ ~Quit /\ ~ClearStarts /\ ~Start
  <2>1. ~Quit /\ ~ClearStarts
    BY DEF Quit, ClearStarts
  <2>2. ~Start
    BY DEF Start, HandlerInv, TypeOK
  <2> QED BY <2>1, <2>2, Starts
<1>2. CASE HandlerSteps
  <2>1. ~HandleNext
    BY HeadFacts DEF HandleNext, HandlerAt, Events
  <2>2. HandleRow
    BY <1>2, <2>1 DEF HandlerSteps, HandleRemove, HandleStat, HandleQueued, HandleEnqueue,
       HandlerAt, HandlerDone
  <2> QED BY <2>2 DEF HandleRow, Head1, index
<1>3. CASE ~HandlerSteps
  <2>1. handler = "stat" /\ notices # <<>> /\ found' = found /\ Head1' = Head1
    <3>1. CASE UNCHANGED <<notices, handler, found>>
      BY <3>1 DEF Head1, TypeOK
    <3>2. ASSUME UNCHANGED <<handler, found>>, NEW e \in Docs, NEW event \in Events,
                 Notice(event, e)
          PROVE  handler = "stat" /\ notices # <<>> /\ found' = found /\ Head1' = Head1
      BY <3>2, NoticeFacts DEF Head1, TypeOK
    <3> QED BY <1>1, <1>3, <3>1, <3>2, NoticesStep
  <2>2. PICK d \in Docs : d = Head1[2] /\ d \in there'
    BY <2>1, HeadFacts
  <2>3. CASE Added(d)
    BY <1>1, <2>1, <2>2, <2>3, NewsWaits DEF News
  <2>4. CASE ~Added(d)
    <3>1. d \in there /\ ~AtJob(d)
      BY <2>1, <2>2, <2>4, LibraryStep DEF ParkInv
    <3>2. Waiting("add", d) => Waiting("add", d)'
      BY <1>1, <1>3, <2>2, WaitsStep DEF Events
    <3>3. ~HandleRemove /\ ~(ReconDocuments /\ d \notin recon.eligible)
      BY <1>1, <1>3, <3>1 DEF HandlerSteps, SeenInv, ReconDocuments, Seen, ReconPhases
    <3>4. doc'[d] = doc[d]
      BY <1>1, <2>2, <3>1, <3>3, RowStep
    <3> QED BY <1>1, <2>1, <2>2, <3>1, <3>2, <3>4 DEF FoundInv
  <2> QED BY <2>3, <2>4
<1> QED BY <1>2, <1>3

\* A change is handled only when its paper is indexed as it is, queued, or
\* removed and added again.
LEMMA HandledChange ==
    ASSUME TypeOK, ParkInv, HandlerInv, TextInv, FoundInv, mode = "on",
           HandlerSteps, HandlerDone, handler # "idle",
           NEW d \in Docs, Head1[2] = d, d \in there, file[d] # 0, Followed(d)
    PROVE  Changed(d)' \/ Current(d)' \/ Queued(d)'
<1>0. notices # <<>> /\ notices' = Tail(notices)
  BY DEF TypeOK, HandlerDone
<1>1. CASE HandleRemove
  <2>1. Head1 = <<"delete", d>>
    <3>1. Head1[1] = "delete"
      BY <1>1 DEF HandleRemove, HandlerInv
    <3> QED BY <1>0, <3>1, HeadFacts
  <2> QED BY <1>0, <2>1, TailWaits
<1>2. CASE HandleStat
  <2>1. handler = "stat" /\ ~Stale(d, found) /\ UNCHANGED <<doc, file>>
    BY <1>2 DEF HandleStat, HandlerDone, HandlerAt, library, index
  <2>2. CASE doc[d].stat = found
    BY <2>1, <2>2 DEF Stale, Current, TextInv
  <2>3. CASE Waiting("add", d)
    <3>1. Head1 # <<"add", d>>
      BY <2>1 DEF ParkInv
    <3> QED BY <1>0, <2>3, <3>1, TailWaits DEF Changed, Events
  <2> QED BY <2>1, <2>2, <2>3 DEF FoundInv
<1>3. CASE HandleQueued
  BY <1>3 DEF HandleQueued, HandlerDone, HandlerAt, index, Queued
<1>4. CASE HandleEnqueue
  <2>1. PICK priority \in {OfChange, Prefetch} : Enqueue({d}, priority)
    BY <1>4 DEF HandleEnqueue
  <2>2. queue'[d].ready
    BY <2>1 DEF Enqueue
  <2> QED BY <2>2 DEF Queued, NoJob
<1> QED BY <1>1, <1>2, <1>3, <1>4 DEF HandlerSteps, HandleNext, HandleRow, HandlerAt, HandlerDone

\* What the reconcile knows of a paper, it knows at its next step, or the paper
\* is indexed as it is, or queued.
LEMMA ReconCovers ==
    ASSUME TypeOK, TextInv, ReconSteps, NEW d \in Docs, file[d] # 0,
           Seen => d \in recon.eligible, Covered(d)
    PROVE  Current(d)' \/ Queued(d)' \/ Covered(d)'
<1> USE DEF library, index, ReconLooks
<1>1. CASE ReconSnapshot
  BY <1>1 DEF ReconSnapshot, TypeOK, Recons, Covered
<1>2. CASE ReconDocuments
  <2>1. d \in recon.eligible
    BY <1>2 DEF ReconDocuments, Seen, ReconPhases
  <2>2. doc'[d] = doc[d] /\ file' = file
    BY <1>2, <2>1, DeleteFacts DEF ReconDocuments
  <2>3. recon'.phase = "stat" /\ recon'.listed[d] = doc[d].stat
    BY <1>2 DEF ReconDocuments, TypeOK, Recons
  <2>4. CASE doc[d].stat = file[d]
    BY <2>2, <2>4 DEF Current, TextInv
  <2>5. CASE doc[d].stat # file[d]
    BY <2>2, <2>3, <2>5 DEF Covered, Stale
  <2> QED BY <2>4, <2>5
<1>3. CASE ReconStat
  <2>1. /\ recon'.phase = "stale" /\ recon'.eligible = recon.eligible /\ recon'.rows = recon.rows
        /\ recon'.stale = {e \in recon.rows : Stale(e, recon.listed[e])}
    BY <1>3 DEF ReconStat, TypeOK, Recons
  <2>2. d \in recon.eligible /\ (d \in recon.rows => Stale(d, recon.listed[d]))
    BY <1>3 DEF ReconStat, Covered, Seen, ReconPhases
  <2> QED BY <2>1, <2>2 DEF Covered
<1>4. CASE ReconStale
  <2>1. /\ recon'.phase = "reset" /\ recon'.eligible = recon.eligible /\ recon'.rows = recon.rows
        /\ d \in recon.stale \union (recon.eligible \ recon.rows)
    BY <1>4 DEF ReconStale, TypeOK, Recons, Covered
  <2>2. CASE d \in recon.stale
    <3>1. queue'[d].ready
      BY <1>4, <2>2 DEF ReconStale, Enqueue
    <3> QED BY <3>1 DEF Queued, NoJob
  <2> QED BY <2>1, <2>2 DEF Covered
<1>5. CASE ReconReset
  BY <1>5 DEF ReconReset, TypeOK, Recons, Covered
<1>6. CASE ReconQueued
  <2>1. /\ recon'.phase = "missing" /\ d \in recon.eligible \ recon.rows
        /\ recon'.missing = {e \in recon.eligible \ recon.rows : ~Queued(e)}
    BY <1>6 DEF ReconQueued, TypeOK, Recons, Covered
  <2> QED BY <1>6, <2>1 DEF ReconQueued, Covered, Queued
<1>7. CASE ReconMissing
  <2>1. d \in recon.missing
    BY <1>7 DEF ReconMissing, Covered
  <2>2. queue'[d].ready
    BY <1>7, <2>1 DEF ReconMissing, Enqueue
  <2> QED BY <2>2 DEF Queued, NoJob
<1> QED BY <1>1, <1>2, <1>3, <1>4, <1>5, <1>6, <1>7 DEF ReconSteps

\* Every step keeps a name on a paper whose row is not current.
LEMMA CoverNext ==
    ASSUME TypeOK, ParkInv, HandlerInv, TextInv, SeenInv, JobInv, FoundInv, CoverInv, [Next]_vars
    PROVE  CoverInv'
<1> SUFFICES ASSUME mode' = "on", NEW d \in Docs, d \in Visible', file'[d] # 0
             PROVE  Changed(d)' \/ Current(d)' \/ Queued(d)' \/ Covered(d)'
  BY ThereFacts DEF CoverInv
<1>1. CASE mode # "on"
  BY <1>1, Starts DEF Covered
<1>2. CASE mode = "on" /\ News(d)
  BY <1>2, NewsWaits
<1>3. CASE mode = "on" /\ ~News(d)
  <2>1. /\ d \in Visible /\ d \in there /\ file'[d] = file[d]
        /\ ~Quit /\ ~ClearStarts /\ ~Start
    BY <1>3, LibraryStep DEF Quit, ClearStarts, Start, News, Visible
  <2>2. Followed(d) /\ (Seen => d \in recon.eligible)
    BY <1>3, <2>1 DEF SeenInv
  \* A change of the paper is handled, the job leaves the queue, or neither.
  <2>3. CASE HandlerSteps /\ HandlerDone /\ handler # "idle" /\ Head1[2] = d
    BY <1>3, <2>1, <2>2, <2>3, HandledChange
  <2>4. CASE ~(HandlerSteps /\ HandlerDone /\ handler # "idle" /\ Head1[2] = d)
    <3>1. Changed(d) => Changed(d)'
      BY <2>1, <2>4, WaitsStep DEF Changed, Events
    <3>2. ~(HandleRemove /\ Head1[2] = d)
      BY <2>4 DEF HandleRemove, HandlerSteps
    <3>3. ~(ReconDocuments /\ d \notin recon.eligible)
      BY <2>2 DEF ReconDocuments, Seen, ReconPhases
    <3>4. Current(d) => Current(d)' \/ Changed(d)'
      <4>1. CASE WriteRow /\ AtJob(d)
        <5>1. drain.text = drain.stat /\ (drain.stat = file[d] \/ Changed(d))
          BY <1>3, <2>1, <4>1 DEF JobInv, TextInv, WriteRow
        <5>2. doc'[d] = [text |-> drain.text, stat |-> drain.stat]
          BY <4>1 DEF WriteRow, AtJob, TypeOK
        <5> QED BY <2>1, <3>1, <5>1, <5>2 DEF Current
      <4>2. CASE ~(WriteRow /\ AtJob(d))
        <5>1. doc'[d] = doc[d]
          BY <2>1, <3>2, <3>3, <4>2, RowStep
        <5> QED BY <2>1, <5>1 DEF Current
      <4> QED BY <4>1, <4>2
    <3>5. Queued(d) => Queued(d)' \/ Current(d)' \/ Changed(d)'
      <4>1. (Drop \/ Done) /\ AtJob(d) => Current(d) \/ Changed(d)
        BY <1>3, <2>1 DEF JobInv, Drop, Done
      <4> QED BY <2>1, <3>1, <3>2, <3>3, <3>4, <4>1, RowStep
    <3>6. CASE Changed(d) \/ Current(d) \/ Queued(d)
      BY <3>1, <3>4, <3>5, <3>6
    <3>7. CASE Covered(d)
      <4>1. CASE ReconSteps
        <5>1. file[d] # 0
          BY <2>1
        <5> QED BY <2>2, <3>7, <4>1, <5>1, ReconCovers
      <4>2. CASE UNCHANGED recon
        BY <2>1, <3>7, <4>2 DEF Covered, Stale
      <4> QED BY <2>1, <4>1, <4>2, ReconStep
    <3> QED BY <1>3, <2>1, <3>6, <3>7 DEF CoverInv
  <2> QED BY <2>3, <2>4
<1> QED BY <1>1, <1>2, <1>3

\* Once everything that came in is handled, every paper with a file is indexed
\* as it is or waits in the queue: after changes, starts, crashes and clearings
\* of the index alike, when none of the four races on a paper happens.
THEOREM NoPaperForgotten ==
    ASSUME {"cached", "window", "overlap", "snapshot"} \cap Races = {}
    PROVE  Spec => []NothingForgotten
<1> DEFINE IInv == /\ TypeOK /\ Fresh /\ ParkInv /\ HandlerInv /\ TextInv
                   /\ SeenInv /\ JobInv /\ FoundInv /\ CoverInv
<1>1. Init => IInv
  <2> SUFFICES ASSUME Init PROVE IInv
    OBVIOUS
  <2>1. TypeOK /\ Fresh /\ ParkInv /\ HandlerInv
    BY TypeInit, RowTypes DEF Init, Fresh, AtPaper, ParkInv, HandlerInv, Draining
  <2>2. TextInv
    BY RowTypes DEF Init, TextInv
  <2>3. SeenInv /\ JobInv /\ FoundInv /\ CoverInv
    BY DEF Init, SeenInv, JobInv, FoundInv, CoverInv
  <2> QED BY <2>1, <2>2, <2>3
<1>2. IInv /\ [Next]_vars => IInv'
  <2> SUFFICES ASSUME IInv, [Next]_vars PROVE IInv'
    OBVIOUS
  <2>1. TypeOK' /\ Fresh' /\ HandlerInv'
    BY TypeNext, FreshNext, HandlerNext
  <2>2. ParkInv' /\ TextInv' /\ SeenInv'
    BY ParkNext, TextNext, SeenNext
  <2>3. JobInv' /\ FoundInv' /\ CoverInv'
    BY JobNext, FoundNext, CoverNext
  <2> QED BY <2>1, <2>2, <2>3
<1>3. IInv => NothingForgotten
  BY DEF NothingForgotten, Settled, CoverInv, Covered, Visible, Changed, Waiting, HandlerInv,
     TypeOK
<1> QED BY <1>1, <1>2, <1>3, PTL DEF Spec
=============================================================================
