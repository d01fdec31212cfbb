----------------------------- MODULE EventLogger -----------------------------
(***************************************************************************)
(* The event log of one process: EventLogger.log puts an entry in a        *)
(* bounded queue and returns; a background task saves them in batches.     *)
(*                                                                         *)
(* All of it runs on one event loop, so the code between two awaits is one *)
(* step.  An entry stands for one call of log() whose level passes the     *)
(* filter, with the LogEntry it builds: its _id is given there, once.      *)
(* flush_interval = 0 (the tests) is the case in which Wake always follows *)
(* Take at once.                                                           *)
(***************************************************************************)
EXTENDS Integers, Sequences, FiniteSets

CONSTANTS Entries,    \* the log entries
          QueueSize,  \* queue_size
          BatchSize   \* batch_size

ASSUME SizesArePositive == QueueSize \in Nat \ {0} /\ BatchSize \in Nat \ {0}

VARIABLES
    queue,       \* asyncio.Queue: the entries nobody has taken
    unfinished,  \* asyncio.Queue._unfinished_tasks: put minus task_done
    worker,      \* the await _run is in, "none" without a task
    batch,       \* the worker's local batch
    attempt,     \* _write's loop variable
    stopping,    \* where stop() is, "no" when it is not running
    dropped,     \* EventLogger.dropped
    stored,      \* the collection `logs`, by _id
    \* History, read by the properties only.
    accepted,    \* entries put in the queue
    rejected,    \* entries dropped because the queue was full
    discarded,   \* entries of a batch whose third attempt failed
    lost,        \* entries of a batch that a cancellation interrupted
    leaked,      \* how many of those never got their task_done
    late         \* entries accepted after the flush of the stop under way

vars == <<queue, unfinished, worker, batch, attempt, stopping, dropped, stored,
          accepted, rejected, discarded, lost, leaked, late>>
shutdown == <<stopping, lost, leaked, late>>

Elems(s) == {s[i] : i \in 1..Len(s)}

SequencesOK ==
    /\ queue \in Seq(Entries) /\ Len(queue) <= QueueSize
    /\ batch \in Seq(Entries) /\ Len(batch) <= BatchSize

WorkerOK ==
    /\ worker \in {"none", "get", "sleep", "write", "backoff"}
    /\ worker \in {"none", "get"} => Len(batch) = 0
    /\ worker \in {"sleep", "write", "backoff"} => Len(batch) > 0
    /\ attempt \in 1..3
    /\ worker = "backoff" => attempt < 3
    /\ stopping \in {"no", "flushing", "flushed", "expired"}
    /\ stopping # "no" => worker # "none"

RecordsOK ==
    /\ unfinished \in Nat
    /\ dropped \in Nat
    /\ leaked \in Nat
    /\ stored \subseteq Entries
    /\ accepted \subseteq Entries
    /\ rejected \subseteq Entries
    /\ discarded \subseteq Entries
    /\ lost \subseteq Entries
    /\ late \subseteq Entries

TypeOK == SequencesOK /\ WorkerOK /\ RecordsOK
-----------------------------------------------------------------------------
Init ==
    /\ queue = <<>>
    /\ unfinished = 0
    /\ worker = "none"
    /\ batch = <<>>
    /\ attempt = 1
    /\ stopping = "no"
    /\ dropped = 0
    /\ stored = {}
    /\ accepted = {}
    /\ rejected = {}
    /\ discarded = {}
    /\ lost = {}
    /\ leaked = 0
    /\ late = {}

\* Mutant of Log: a full queue evicts its oldest entry.
LogEvicts(e) ==
    /\ e \notin accepted \cup rejected
    /\ queue' = Append(IF Len(queue) < QueueSize THEN queue ELSE Tail(queue), e)
    /\ unfinished' = unfinished + 1
    /\ accepted' = accepted \cup {e}
    /\ UNCHANGED <<worker, batch, attempt, stopping, dropped, stored,
                   rejected, discarded, lost, leaked, late>>

(***************************************************************************)
(* log(): put_nowait, or one more dropped entry when the queue is full.    *)
(***************************************************************************)
Log(e) ==
    /\ e \notin accepted \cup rejected
    /\ \/ /\ Len(queue) < QueueSize
          /\ queue' = Append(queue, e)
          /\ unfinished' = unfinished + 1
          /\ accepted' = accepted \cup {e}
          /\ late' = IF stopping = "flushed" THEN late \cup {e} ELSE late
          /\ UNCHANGED <<dropped, rejected>>
       \/ /\ Len(queue) >= QueueSize
          /\ dropped' = dropped + 1
          /\ rejected' = rejected \cup {e}
          /\ UNCHANGED <<queue, unfinished, accepted, late>>
    /\ UNCHANGED <<worker, batch, attempt, stopping, stored, discarded, lost, leaked>>

(***************************************************************************)
(* start(): a task, unless there is one.  The application starts the log   *)
(* before it serves and stops it after, never both at once.                *)
(***************************************************************************)
Start ==
    /\ worker = "none"
    /\ worker' = "get"
    /\ UNCHANGED <<queue, unfinished, batch, attempt, dropped, stored,
                   accepted, rejected, discarded, shutdown>>
-----------------------------------------------------------------------------
(***************************************************************************)
(* The worker: one entry, a pause that lets more of them gather, then as   *)
(* many as there are up to batch_size.                                     *)
(***************************************************************************)
Take ==
    /\ worker = "get"
    /\ queue # <<>>
    /\ batch' = <<Head(queue)>>
    /\ queue' = Tail(queue)
    /\ worker' = "sleep"
    /\ UNCHANGED <<unfinished, attempt, dropped, stored, accepted, rejected, discarded, shutdown>>

\* Mutant of Room: everything that is queued.
RoomUnbounded == Len(queue)

\* How many more entries the batch takes.
Room == IF Len(queue) < BatchSize - Len(batch) THEN Len(queue) ELSE BatchSize - Len(batch)

\* Mutant of Wake: the batch is filled from the newest end of the queue.
WakeTakesNewest ==
    /\ worker = "sleep"
    /\ batch' = batch \o SubSeq(queue, Len(queue) - Room + 1, Len(queue))
    /\ queue' = SubSeq(queue, 1, Len(queue) - Room)
    /\ worker' = "write"
    /\ attempt' = 1
    /\ UNCHANGED <<unfinished, dropped, stored, accepted, rejected, discarded, shutdown>>

Wake ==
    /\ worker = "sleep"
    /\ batch' = batch \o SubSeq(queue, 1, Room)
    /\ queue' = SubSeq(queue, Room + 1, Len(queue))
    /\ worker' = "write"
    /\ attempt' = 1
    /\ UNCHANGED <<unfinished, dropped, stored, accepted, rejected, discarded, shutdown>>

\* Mutant of BatchDone: one task_done for the whole batch.
BatchDoneOnce ==
    /\ unfinished' = unfinished - 1
    /\ batch' = <<>>
    /\ worker' = "get"

\* `finally`: task_done for each entry of the batch, and back to the queue.
BatchDone ==
    /\ unfinished' = unfinished - Len(batch)
    /\ batch' = <<>>
    /\ worker' = "get"

(***************************************************************************)
(* insert_many.  The entries carry their _id, so once any of them is in    *)
(* the database the call can only raise (duplicate key); being unordered   *)
(* it still inserts the others.                                            *)
(***************************************************************************)
WriteSucceeds ==
    /\ worker = "write"
    /\ Elems(batch) \cap stored = {}
    /\ stored' = stored \cup Elems(batch)
    /\ BatchDone
    /\ UNCHANGED <<queue, attempt, dropped, accepted, rejected, discarded, shutdown>>

\* Mutants of GiveUp: a lost batch counts as one; it is counted as lost and
\* written again all the same.
GiveUpCountsOne ==
    /\ dropped' = dropped + 1
    /\ discarded' = discarded \cup Elems(batch)
    /\ BatchDone

GiveUpTriesAgain ==
    /\ dropped' = dropped + Len(batch)
    /\ discarded' = discarded \cup Elems(batch)
    /\ worker' = "backoff"
    /\ UNCHANGED <<unfinished, batch>>

\* The third attempt failed: the batch is dropped.
GiveUp ==
    /\ dropped' = dropped + Len(batch)
    /\ discarded' = discarded \cup Elems(batch)
    /\ BatchDone

\* It raises, whatever it had inserted.
WriteRaises ==
    /\ worker = "write"
    /\ \E S \in SUBSET Elems(batch) : stored' = stored \cup S
    /\ \/ /\ attempt < 3
          /\ worker' = "backoff"
          /\ UNCHANGED <<unfinished, batch, dropped, discarded>>
       \/ attempt = 3 /\ GiveUp
    /\ UNCHANGED <<queue, attempt, accepted, rejected, shutdown>>

\* Mutant of Retry: the attempts are not counted.
RetryForever ==
    /\ worker = "backoff"
    /\ worker' = "write"
    /\ UNCHANGED <<queue, unfinished, batch, attempt, dropped, stored,
                   accepted, rejected, discarded, shutdown>>

Retry ==
    /\ worker = "backoff"
    /\ worker' = "write"
    /\ attempt' = attempt + 1
    /\ UNCHANGED <<queue, unfinished, batch, dropped, stored,
                   accepted, rejected, discarded, shutdown>>
-----------------------------------------------------------------------------
(***************************************************************************)
(* stop(): wait for the queue to be finished, but not longer than the      *)
(* timeout, and then cancel the worker wherever it is.                     *)
(***************************************************************************)
Stop ==
    /\ worker # "none"
    /\ stopping = "no"
    /\ stopping' = "flushing"
    /\ UNCHANGED <<queue, unfinished, worker, batch, attempt, dropped, stored,
                   accepted, rejected, discarded, lost, leaked, late>>

\* Mutants of FlushEnds: it waits for an empty queue instead of join(); it has
\* no timeout.
FlushEndsOnEmptyQueue ==
    /\ stopping = "flushing"
    /\ stopping' = IF queue = <<>> THEN "flushed" ELSE "expired"
    /\ late' = {}
    /\ UNCHANGED <<queue, unfinished, worker, batch, attempt, dropped, stored,
                   accepted, rejected, discarded, lost, leaked>>

FlushEndsNoTimeout ==
    /\ stopping = "flushing"
    /\ unfinished = 0
    /\ stopping' = "flushed"
    /\ late' = {}
    /\ UNCHANGED <<queue, unfinished, worker, batch, attempt, dropped, stored,
                   accepted, rejected, discarded, lost, leaked>>

FlushEnds ==
    /\ stopping = "flushing"
    /\ stopping' = IF unfinished = 0 THEN "flushed" ELSE "expired"
    /\ late' = {}
    /\ UNCHANGED <<queue, unfinished, worker, batch, attempt, dropped, stored,
                   accepted, rejected, discarded, lost, leaked>>

(***************************************************************************)
(* CancelledError in the worker.  Only the write stands inside the `try`   *)
(* whose `finally` calls task_done; the insert may have got anywhere.      *)
(***************************************************************************)
Cancel ==
    /\ stopping \in {"flushed", "expired"}
    /\ IF worker = "sleep"
       THEN leaked' = leaked + Len(batch) /\ UNCHANGED unfinished
       ELSE unfinished' = unfinished - Len(batch) /\ UNCHANGED leaked
    /\ IF worker = "write"
       THEN \E S \in SUBSET Elems(batch) : stored' = stored \cup S
       ELSE UNCHANGED stored
    /\ lost' = lost \cup Elems(batch)
    /\ batch' = <<>>
    /\ worker' = "none"
    /\ stopping' = "no"
    /\ UNCHANGED <<queue, attempt, dropped, accepted, rejected, discarded, late>>

Worker == Take \/ Wake \/ WriteSucceeds \/ WriteRaises \/ Retry

Next == (\E e \in Entries : Log(e)) \/ Start \/ Worker \/ Stop \/ FlushEnds \/ Cancel

Spec == Init /\ [][Next]_vars

(***************************************************************************)
(* The loop runs the worker whenever its await is over: a pause ends, the  *)
(* driver answers or raises (it has timeouts).  wait_for ends by its own   *)
(* timeout, and a cancelled task is resumed.  Nobody has to log anything,  *)
(* nor start or stop the log.                                              *)
(***************************************************************************)
Fairness == WF_vars(Worker) /\ WF_vars(FlushEnds) /\ WF_vars(Cancel)

FairSpec == Spec /\ Fairness
-----------------------------------------------------------------------------
InHand == Elems(queue) \cup Elems(batch)

(***************************************************************************)
(* asyncio's count of unfinished entries is exactly those queued, those in *)
(* the worker's batch, and those a cancelled worker took without ever      *)
(* calling task_done.  flush() waits for it to be 0.                       *)
(***************************************************************************)
UnfinishedCount == unfinished = Len(queue) + Len(batch) + leaked

(***************************************************************************)
(* No entry vanishes and none is in two places: an accepted entry is       *)
(* queued, in the batch, stored, or on record as discarded or interrupted; *)
(* a rejected entry is nowhere, and no queued entry is stored yet.         *)
(***************************************************************************)
NothingVanishes ==
    /\ accepted \subseteq InHand \cup stored \cup discarded \cup lost
    /\ InHand \cup stored \cup discarded \cup lost \subseteq accepted
    /\ rejected \cap accepted = {}
    /\ Elems(queue) \cap (Elems(batch) \cup stored) = {}
    /\ InHand \cap (discarded \cup lost) = {}
    /\ Cardinality(InHand) = Len(queue) + Len(batch)

(***************************************************************************)
(* `dropped` counts every entry the log gave up, once: those that found    *)
(* the queue full and those whose batch failed three times.                *)
(***************************************************************************)
DroppedCount ==
    /\ dropped = Cardinality(rejected) + Cardinality(discarded)
    /\ rejected \cap discarded = {}

(***************************************************************************)
(* When stop()'s flush has ended by itself, every entry logged before that *)
(* moment has left the process: only later ones can still be interrupted.  *)
(***************************************************************************)
FlushedMeansSettled == stopping = "flushed" => InHand \subseteq late

(***************************************************************************)
(* Bad news about an entry is final: once the log gives one up, as         *)
(* discarded or interrupted, no later write of the worker stores it.       *)
(***************************************************************************)
GivenUpIsFinal == [][stored' \cap (discarded \cup lost \cup rejected) =
                     stored \cap (discarded \cup lost \cup rejected)]_vars

(***************************************************************************)
(* The event log implements the write-behind buffer: what waits is the     *)
(* batch followed by the queue.                                            *)
(***************************************************************************)
Buffer == INSTANCE WriteBehind WITH pending <- batch \o queue, saved <- stored
ImplementsWriteBehind == Buffer!Spec

(***************************************************************************)
(* However the log database behaves, a running worker gets through all it  *)
(* was given: three failed attempts are the worst that holds an entry.     *)
(***************************************************************************)
WorkerDrains == (worker # "none") ~> (InHand = {} \/ worker = "none")

(***************************************************************************)
(* stop() ends, whatever the database does.                                *)
(***************************************************************************)
StopEnds == (stopping # "no") ~> (worker = "none")

(***************************************************************************)
(* "self.dropped: eventos descartados por cola llena o base de logs caída" *)
(* and "Se perdieron %d eventos": an entry counted there is not stored.    *)
(***************************************************************************)
DroppedAreGone == stored \cap (rejected \cup discarded) = {}
=============================================================================
