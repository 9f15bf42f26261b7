------------------------------ MODULE WriteFence ------------------------------
(***************************************************************************)
(* The process-local write fence of a conversation, shared/                *)
(* conversationWriteFence.ts, and the requests that write through it.      *)
(*                                                                         *)
(* The fence has three parts: a frozen flag per conversation key, a write  *)
(* generation per key, and a lock per key.  A request reads the generation *)
(* once, early, and every later write of it runs inside the lock and is    *)
(* dropped when the key is frozen or the generation has moved.             *)
(*                                                                         *)
(* A generation only grows while the process lives, so of a captured       *)
(* number only one thing matters: whether the key was bumped since.  That  *)
(* is the field "current" of a writer, which a bump resets; the numbers    *)
(* themselves are not kept.                                                *)
(***************************************************************************)

CONSTANTS
    Conv,      \* conversation keys
    Writer     \* concurrent requests (sends, retries, provider callbacks)

VARIABLES
    frozen,    \* the keys whose writes are frozen
    writer     \* what each request is doing, and to which conversation

fence == <<frozen, writer>>

-------------------------------------------------------------------------------
\* A request waits for the pending turn deletions of its chat, then prepares,
\* then captures a generation, is ready to write, and writes inside the lock.
WriterPhase == {"idle", "waiting", "preparing", "captured", "ready", "writing"}

\* "crossed" is a history field: a deletion of the conversation was requested
\* after this request captured its generation.
WriterRecord ==
    [phase : WriterPhase, key : Conv, current : BOOLEAN, crossed : BOOLEAN]

FenceTypeOK ==
    /\ frozen \subseteq Conv
    /\ writer \in [Writer -> WriterRecord]

\* Writers that hold a captured generation.
Captured(w) == writer[w].phase \in {"captured", "ready", "writing"}

\* bumpConversationWriteGeneration for a set of keys: no generation captured
\* for one of them is current.
BumpAll(keys) ==
    [w \in Writer |->
        [writer[w] EXCEPT !.current = @ /\ writer[w].key \notin keys]]

Bump(k) == BumpAll({k})

\* A deletion of k is requested: it crosses the requests of k under way and,
\* if it bumps the generation, what they captured is no longer current.
Cross(k, bump) ==
    [w \in Writer |->
        IF writer[w].key = k /\ Captured(w)
        THEN [writer[w] EXCEPT !.crossed = TRUE, !.current = @ /\ ~bump]
        ELSE writer[w]]

\* withConversationWriteLock(k): no writer is inside k's critical section.
NoWriterInside(k) ==
    \A w \in Writer : writer[w].key = k => writer[w].phase # "writing"

MoveTo(w, phase) == writer' = [writer EXCEPT ![w].phase = phase]

\* The request is over, and its captured generation forgotten.
AtRest(w) ==
    [phase |-> "idle", key |-> writer[w].key, current |-> FALSE, crossed |-> FALSE]

Finish(w) == writer' = [writer EXCEPT ![w] = AtRest(w)]

-------------------------------------------------------------------------------
\* conversationGeneration = getConversationWriteGeneration(conversationKey)
CaptureGeneration(w) ==
    /\ writer[w].phase = "preparing"
    /\ writer' = [writer EXCEPT ![w] =
          [phase |-> "captured", key |-> @.key, current |-> TRUE, crossed |-> FALSE]]
    /\ UNCHANGED frozen

\* Mutant: the write looks at the frozen flag only.
EnterWriteIfThawed(w) ==
    /\ writer[w].phase = "ready"
    /\ NoWriterInside(writer[w].key)
    /\ IF writer[w].key \in frozen THEN Finish(w) ELSE MoveTo(w, "writing")
    /\ UNCHANGED frozen

\* Mutant: the write looks at the generation only.
EnterWriteIfCurrent(w) ==
    /\ writer[w].phase = "ready"
    /\ NoWriterInside(writer[w].key)
    /\ IF writer[w].current THEN MoveTo(w, "writing") ELSE Finish(w)
    /\ UNCHANGED frozen

\* The check a write makes as soon as it owns the lock: dropped, or inside.
EnterWrite(w) ==
    /\ writer[w].phase = "ready"
    /\ NoWriterInside(writer[w].key)
    /\ IF writer[w].key \in frozen \/ ~writer[w].current
       THEN Finish(w)
       ELSE MoveTo(w, "writing")
    /\ UNCHANGED frozen

\* The rows are written and the lock is released.  A request writes more than
\* once (its question, its answer, upkeep): it may come back.
LeaveWrite(w) ==
    /\ writer[w].phase = "writing"
    /\ Finish(w) \/ MoveTo(w, "ready")
    /\ UNCHANGED frozen
===============================================================================
