------------------------- MODULE EventLogger_proofs --------------------------
(***************************************************************************)
(* Proofs about EventLogger, for any set of entries, any queue size and    *)
(* any batch size.                                                         *)
(***************************************************************************)
EXTENDS EventLogger, FunctionTheorems, FiniteSetTheorems, SequenceTheorems, TLAPS

(***************************************************************************)
(* What the three steps that move entries do to the two sequences.  Each   *)
(* one keeps the order of what waits, batch first.                         *)
(***************************************************************************)
LEMMA SeqTypes ==
    ASSUME TypeOK
    PROVE  /\ queue \in Seq(Entries) /\ Len(queue) \in Nat
           /\ batch \in Seq(Entries) /\ Len(batch) \in Nat
           /\ QueueSize \in Nat \ {0} /\ BatchSize \in Nat \ {0}
           /\ Len(queue) <= QueueSize /\ Len(batch) <= BatchSize
           /\ Len(batch) = 0 <=> batch = <<>>
<1>1. /\ queue \in Seq(Entries) /\ batch \in Seq(Entries)
      /\ Len(queue) <= QueueSize /\ Len(batch) <= BatchSize
  BY DEF TypeOK, SequencesOK
<1>2. Len(queue) \in Nat /\ Len(batch) \in Nat
  BY <1>1, LenProperties
<1>3. Len(batch) = 0 <=> batch = <<>>
  BY <1>1, EmptySeq
<1> QED BY <1>1, <1>2, <1>3, SizesArePositive

LEMMA LogShape ==
    ASSUME TypeOK, NEW e \in Entries
    PROVE  /\ Append(queue, e) \in Seq(Entries)
           /\ Len(Append(queue, e)) = Len(queue) + 1
           /\ batch \o Append(queue, e) = Append(batch \o queue, e)
<1>1. queue \in Seq(Entries) /\ batch \in Seq(Entries) /\ <<e>> \in Seq(Entries)
  BY SeqTypes
<1>2. Append(queue, e) = queue \o <<e>>
  BY <1>1, AppendIsConcat
<1>3. batch \o queue \in Seq(Entries)
  BY <1>1, ConcatProperties
<1>4. Append(batch \o queue, e) = (batch \o queue) \o <<e>>
  BY <1>3, AppendIsConcat
<1>5. (batch \o queue) \o <<e>> = batch \o (queue \o <<e>>)
  BY <1>1, ConcatAssociative
<1> QED BY <1>1, <1>2, <1>4, <1>5, AppendProperties

LEMMA TakeShape ==
    ASSUME TypeOK, Take
    PROVE  /\ batch' \in Seq(Entries) /\ Len(batch') = 1
           /\ queue' \in Seq(Entries) /\ Len(queue') = Len(queue) - 1
           /\ batch' \o queue' = batch \o queue
<1>1. /\ queue \in Seq(Entries) /\ queue # <<>> /\ batch = <<>>
      /\ batch' = <<Head(queue)>> /\ queue' = Tail(queue)
  BY SeqTypes DEF Take, TypeOK, WorkerOK
<1>2. /\ Head(queue) \in Entries /\ Tail(queue) \in Seq(Entries)
      /\ Len(Tail(queue)) = Len(queue) - 1
      /\ \A i \in 1..Len(Tail(queue)) : Tail(queue)[i] = queue[i + 1]
  BY <1>1, HeadTailProperties
<1>3. batch' \in Seq(Entries) /\ Len(batch') = 1
  BY <1>1, <1>2
<1>4. batch \o queue = queue
  BY <1>1, ConcatEmptySeq
<1>5. batch' \o queue' = queue
  <2>1. Len(queue) \in Nat \ {0}
    BY <1>1, EmptySeq
  <2>2. SubSeq(queue, 1, Len(queue)) = queue
    BY <1>1, SubSeqFull
  <2>3. queue = <<queue[1]>> \o SubSeq(queue, 2, Len(queue))
    BY <1>1, <2>1, <2>2, SubSeqRecursiveFirst
  <2>4. Head(queue) = queue[1] /\ Tail(queue) = SubSeq(queue, 2, Len(queue))
    BY <1>1, <2>1, <2>2, HeadTailOfSubSeq
  <2> QED BY <1>1, <2>3, <2>4
<1> QED BY <1>1, <1>2, <1>3, <1>4, <1>5

LEMMA RoomBounds ==
    ASSUME TypeOK
    PROVE  Room \in 0..Len(queue) /\ Len(batch) + Room <= BatchSize
  BY SeqTypes DEF Room

LEMMA WakeShape ==
    ASSUME TypeOK, Wake
    PROVE  /\ batch' \in Seq(Entries) /\ Len(batch') = Len(batch) + Room
           /\ queue' \in Seq(Entries) /\ Len(queue') = Len(queue) - Room
           /\ batch' \o queue' = batch \o queue
<1> DEFINE front == SubSeq(queue, 1, Room)
           back == SubSeq(queue, Room + 1, Len(queue))
<1>1. queue \in Seq(Entries) /\ batch \in Seq(Entries) /\ Len(queue) \in Nat
  BY SeqTypes
<1>2. Room \in 0..Len(queue)
  BY RoomBounds
<1>3. \A i \in 1..Len(queue) : queue[i] \in Entries
  BY <1>1, ElementOfSeq
<1>4. front \in Seq(Entries) /\ Len(front) = Room
  BY <1>1, <1>2, <1>3, SubSeqProperties
<1>5. back \in Seq(Entries) /\ Len(back) = Len(queue) - Room
  BY <1>1, <1>2, <1>3, SubSeqProperties
<1>6. front \o back = queue
  <2>1. 1 \in 1..Len(queue) + 1 /\ Room \in 1 - 1..Len(queue) /\ Len(queue) \in Room..Len(queue)
    BY <1>1, <1>2
  <2>2. front \o back = SubSeq(queue, 1, Len(queue))
    BY <1>1, <2>1, ConcatAdjacentSubSeq
  <2> QED BY <1>1, <2>2, SubSeqFull
<1>7. batch' = batch \o front /\ queue' = back
  BY DEF Wake
<1> HIDE DEF front, back
<1>8. (batch \o front) \o back = batch \o (front \o back)
  <2>1. batch \in Seq(Entries) /\ front \in Seq(Entries) /\ back \in Seq(Entries)
    BY <1>1, <1>4, <1>5
  <2> QED BY <2>1, ConcatAssociative, SMTT(30)
<1>9. batch \o front \in Seq(Entries) /\ Len(batch \o front) = Len(batch) + Len(front)
  BY <1>1, <1>4, ConcatProperties
<1> QED BY <1>4, <1>5, <1>6, <1>7, <1>8, <1>9

(***************************************************************************)
(* The counters stay in range and the worker has a batch exactly while it  *)
(* is between two visits to the queue.  unfinished stays a natural number  *)
(* only because it counts what UnfinishedCount says, so the two go         *)
(* together.                                                               *)
(***************************************************************************)
CountInv == TypeOK /\ UnfinishedCount

LEMMA CountInit == ASSUME Init PROVE CountInv
<1>1. queue = <<>> /\ batch = <<>> /\ Len(queue) = 0 /\ Len(batch) = 0
  BY DEF Init
<1>2. SequencesOK
  BY <1>1, SizesArePositive, EmptySeq DEF SequencesOK
<1>3. WorkerOK
  BY <1>1 DEF Init, WorkerOK
<1>4. RecordsOK /\ UnfinishedCount
  BY <1>1 DEF Init, RecordsOK, UnfinishedCount
<1> QED BY <1>2, <1>3, <1>4 DEF CountInv, TypeOK

LEMMA ElemsType ==
    ASSUME NEW s \in Seq(Entries) PROVE Elems(s) \subseteq Entries
  BY ElementOfSeq DEF Elems

\* The batch is settled: the counter goes down by what the batch held.
LEMMA BatchDoneCounts ==
    ASSUME CountInv, BatchDone, queue' = queue, leaked' = leaked,
           attempt' = attempt, stopping' = stopping
    PROVE  /\ unfinished' \in Nat /\ UnfinishedCount'
           /\ SequencesOK' /\ WorkerOK'
<1>1. /\ Len(queue) \in Nat /\ Len(batch) \in Nat /\ leaked \in Nat
      /\ queue \in Seq(Entries) /\ Len(queue) <= QueueSize
  BY SeqTypes DEF CountInv, TypeOK, RecordsOK
<1>2. Len(batch') = 0 /\ batch' \in Seq(Entries)
  BY EmptySeq DEF BatchDone
<1>3. SequencesOK'
  BY <1>1, <1>2, SizesArePositive DEF SequencesOK
<1>4. unfinished' \in Nat /\ UnfinishedCount'
  BY <1>1, <1>2 DEF CountInv, BatchDone, UnfinishedCount
<1>5. WorkerOK'
  BY <1>2 DEF CountInv, TypeOK, BatchDone, WorkerOK
<1> QED BY <1>3, <1>4, <1>5

LEMMA CountStep == ASSUME CountInv, [Next]_vars PROVE CountInv'
<1> SUFFICES SequencesOK' /\ WorkerOK' /\ RecordsOK' /\ UnfinishedCount'
  BY DEF CountInv, TypeOK
<1>0. /\ TypeOK /\ SequencesOK /\ WorkerOK /\ RecordsOK /\ UnfinishedCount
      /\ Len(queue) \in Nat /\ Len(batch) \in Nat
      /\ QueueSize \in Nat \ {0} /\ BatchSize \in Nat \ {0}
      /\ Elems(batch) \subseteq Entries
  BY SeqTypes, ElemsType DEF CountInv, TypeOK
<1> USE <1>0
<1>1. ASSUME NEW e \in Entries, Log(e)
      PROVE  SequencesOK' /\ WorkerOK' /\ RecordsOK' /\ UnfinishedCount'
  <2>1. Append(queue, e) \in Seq(Entries) /\ Len(Append(queue, e)) = Len(queue) + 1
    BY LogShape
  <2>2. WorkerOK'
    BY <1>1 DEF Log, WorkerOK
  <2>3. CASE Len(queue) < QueueSize /\ queue' = Append(queue, e)
    <3>1. SequencesOK'
      BY <1>1, <2>1, <2>3 DEF Log, SequencesOK
    <3>2. RecordsOK' /\ UnfinishedCount'
      BY <1>1, <2>1, <2>3 DEF Log, RecordsOK, UnfinishedCount
    <3> QED BY <2>2, <3>1, <3>2
  <2>4. CASE Len(queue) >= QueueSize /\ queue' = queue
    BY <1>1, <2>2, <2>4 DEF Log, SequencesOK, RecordsOK, UnfinishedCount
  <2> QED BY <1>1, <2>3, <2>4 DEF Log
<1>2. CASE Start
  BY <1>2 DEF Start, shutdown, SequencesOK, WorkerOK, RecordsOK, UnfinishedCount
<1>3. CASE Take
  <2>1. /\ batch' \in Seq(Entries) /\ Len(batch') = 1
        /\ queue' \in Seq(Entries) /\ Len(queue') = Len(queue) - 1 /\ Len(batch) = 0
    BY <1>3, TakeShape, SeqTypes DEF Take, WorkerOK
  <2>2. SequencesOK' /\ UnfinishedCount'
    BY <1>3, <2>1 DEF Take, shutdown, SequencesOK, UnfinishedCount
  <2>3. RecordsOK'
    BY <1>3 DEF Take, shutdown, RecordsOK
  <2>4. /\ worker' = "sleep" /\ Len(batch') > 0
        /\ attempt' = attempt /\ stopping' = stopping
    BY <1>3, <2>1 DEF Take, shutdown
  <2>5. WorkerOK'
    BY <2>4 DEF WorkerOK
  <2> QED BY <2>2, <2>3, <2>5
<1>4. CASE Wake
  <2>1. /\ Room \in 0..Len(queue) /\ Len(batch) + Room <= BatchSize
        /\ batch' \in Seq(Entries) /\ Len(batch') = Len(batch) + Room
        /\ queue' \in Seq(Entries) /\ Len(queue') = Len(queue) - Room
    BY <1>4, RoomBounds, WakeShape
  <2>2. Len(batch) > 0
    BY <1>4 DEF Wake, WorkerOK
  <2>3. SequencesOK' /\ UnfinishedCount'
    <3>1. unfinished' = unfinished /\ leaked' = leaked
      BY <1>4 DEF Wake, shutdown
    <3> QED BY <2>1, <3>1 DEF SequencesOK, UnfinishedCount, RecordsOK
  <2>4. RecordsOK'
    BY <1>4 DEF Wake, shutdown, RecordsOK
  <2>5. /\ worker' = "write" /\ Len(batch') > 0
        /\ attempt' = 1 /\ stopping' = stopping
    BY <1>4, <2>1, <2>2 DEF Wake, shutdown
  <2>6. WorkerOK'
    <3>1. attempt' \in 1..3
      BY <2>5
    <3>2. /\ stopping' \in {"no", "flushing", "flushed", "expired"}
          /\ stopping' # "no" => worker' # "none"
      BY <2>5 DEF WorkerOK
    <3> QED BY <2>5, <3>1, <3>2 DEF WorkerOK
  <2> QED BY <2>3, <2>4, <2>6
<1>5. CASE WriteSucceeds
  <2>1. /\ BatchDone /\ queue' = queue /\ leaked' = leaked
        /\ attempt' = attempt /\ stopping' = stopping
    BY <1>5 DEF WriteSucceeds, shutdown
  <2>2. unfinished' \in Nat /\ UnfinishedCount' /\ SequencesOK' /\ WorkerOK'
    BY <2>1, BatchDoneCounts
  <2> QED BY <1>5, <2>2 DEF WriteSucceeds, shutdown, RecordsOK
<1>6. CASE WriteRaises
  <2>1. /\ stored' \subseteq Entries /\ queue' = queue /\ attempt' = attempt
        /\ accepted' = accepted /\ rejected' = rejected
        /\ stopping' = stopping /\ lost' = lost /\ leaked' = leaked /\ late' = late
    BY <1>6 DEF WriteRaises, RecordsOK, shutdown
  <2>2. CASE attempt < 3 /\ worker' = "backoff" /\ UNCHANGED <<unfinished, batch, dropped, discarded>>
    <3>1. worker = "write"
      BY <1>6 DEF WriteRaises
    <3> QED BY <2>1, <2>2, <3>1 DEF SequencesOK, WorkerOK, RecordsOK, UnfinishedCount
  <2>3. CASE attempt = 3 /\ GiveUp
    <3>1. unfinished' \in Nat /\ UnfinishedCount' /\ SequencesOK' /\ WorkerOK'
      BY <2>1, <2>3, BatchDoneCounts DEF GiveUp
    <3>2. dropped' \in Nat /\ discarded' \subseteq Entries
      BY <2>3 DEF GiveUp, RecordsOK
    <3> QED BY <2>1, <3>1, <3>2 DEF RecordsOK
  <2> QED BY <1>6, <2>2, <2>3 DEF WriteRaises
<1>7. CASE Retry
  <2>1. WorkerOK'
    <3>1. attempt' \in 1..3
      <4>1. attempt \in 1..3 /\ attempt < 3 /\ attempt' = attempt + 1
        BY <1>7 DEF Retry, WorkerOK
      <4> QED BY <4>1
    <3>2. worker' = "write" /\ Len(batch') > 0
      BY <1>7 DEF Retry, WorkerOK
    <3>3. /\ stopping' \in {"no", "flushing", "flushed", "expired"}
          /\ stopping' # "no" => worker' # "none"
      BY <1>7 DEF Retry, WorkerOK, shutdown
    <3> QED BY <3>1, <3>2, <3>3 DEF WorkerOK
  <2> QED BY <1>7, <2>1 DEF Retry, shutdown, SequencesOK, RecordsOK, UnfinishedCount
<1>8. CASE Stop
  BY <1>8 DEF Stop, SequencesOK, WorkerOK, RecordsOK, UnfinishedCount
<1>9. CASE FlushEnds
  BY <1>9 DEF FlushEnds, SequencesOK, WorkerOK, RecordsOK, UnfinishedCount
<1>10. CASE Cancel
  <2>1. /\ stored' \subseteq Entries /\ lost' \subseteq Entries
        /\ queue' = queue /\ attempt' = attempt /\ dropped' = dropped
        /\ accepted' = accepted /\ rejected' = rejected
        /\ discarded' = discarded /\ late' = late
        /\ worker' = "none" /\ stopping' = "no"
    BY <1>10 DEF Cancel, RecordsOK
  <2>2. batch' = <<>> /\ batch' \in Seq(Entries) /\ Len(batch') = 0
    BY <1>10, EmptySeq DEF Cancel
  <2>3. /\ unfinished' \in Nat /\ leaked' \in Nat
        /\ unfinished' = Len(queue) + leaked'
    <3>1. leaked \in Nat /\ unfinished = Len(queue) + Len(batch) + leaked
      BY DEF RecordsOK, UnfinishedCount
    <3>2. CASE leaked' = leaked + Len(batch) /\ unfinished' = unfinished
      BY <3>1, <3>2
    <3>3. CASE leaked' = leaked /\ unfinished' = unfinished - Len(batch)
      BY <3>1, <3>3
    <3> QED BY <1>10, <3>2, <3>3 DEF Cancel
  <2>4. SequencesOK'
    BY <2>1, <2>2 DEF SequencesOK
  <2>5. WorkerOK'
    BY <2>1, <2>2 DEF WorkerOK
  <2> QED BY <2>1, <2>2, <2>3, <2>4, <2>5 DEF RecordsOK, UnfinishedCount
<1>11. CASE UNCHANGED vars
  BY <1>11 DEF vars, SequencesOK, WorkerOK, RecordsOK, UnfinishedCount
<1> QED BY <1>1, <1>2, <1>3, <1>4, <1>5, <1>6, <1>7, <1>8, <1>9, <1>10, <1>11
        DEF Next, Worker

THEOREM TypeCorrect == Spec => []TypeOK
<1>1. CountInv => TypeOK
  BY DEF CountInv
<1> QED BY <1>1, CountInit, CountStep, PTL DEF Spec

(***************************************************************************)
(* asyncio's counter agrees with what waits, in every state: flush() ends  *)
(* exactly when the queue and the batch are empty and nothing leaked.      *)
(***************************************************************************)
THEOREM UnfinishedCountCorrect == Spec => []UnfinishedCount
<1>1. CountInv => UnfinishedCount
  BY DEF CountInv
<1> QED BY <1>1, CountInit, CountStep, PTL DEF Spec
-----------------------------------------------------------------------------
(***************************************************************************)
(* The refinement.  What waits, in the abstract buffer, is the batch       *)
(* followed by the queue, and a batch that is settled leaves its front.    *)
(***************************************************************************)
LEMMA PendingShape ==
    ASSUME TypeOK
    PROVE  /\ batch \o queue \in Seq(Entries)
           /\ Len(batch \o queue) = Len(batch) + Len(queue)
           /\ Elems(batch) \subseteq Buffer!Oldest(BatchSize)
<1>1. /\ batch \in Seq(Entries) /\ queue \in Seq(Entries)
      /\ Len(batch) \in Nat /\ Len(queue) \in Nat
      /\ Len(batch) <= BatchSize /\ BatchSize \in Nat
  BY SeqTypes
<1>2. /\ batch \o queue \in Seq(Entries)
      /\ Len(batch \o queue) = Len(batch) + Len(queue)
      /\ \A i \in 1..Len(batch) + Len(queue) :
           (batch \o queue)[i] = IF i <= Len(batch) THEN batch[i] ELSE queue[i - Len(batch)]
  BY <1>1, ConcatProperties
<1>3. ASSUME NEW i \in 1..Len(batch) PROVE batch[i] \in Buffer!Oldest(BatchSize)
  <2>1. i \in 1..Len(batch \o queue) /\ i <= BatchSize /\ (batch \o queue)[i] = batch[i]
    BY <1>1, <1>2
  <2> QED BY <2>1 DEF Buffer!Oldest
<1> QED BY <1>2, <1>3 DEF Elems

LEMMA SettledShape ==
    ASSUME TypeOK
    PROVE  SubSeq(batch \o queue, Len(batch) + 1, Len(batch \o queue)) = queue
<1>1. /\ batch \in Seq(Entries) /\ queue \in Seq(Entries)
      /\ Len(batch) \in Nat /\ Len(queue) \in Nat
  BY SeqTypes
<1>2. Len(batch \o queue) = Len(batch) + Len(queue)
  BY PendingShape
<1>3. CASE Len(queue) = 0
  <2>1. queue = <<>>
    BY <1>1, <1>3, EmptySeq
  <2> QED BY <1>1, <1>2, <1>3, <2>1, SubSeqEmpty
<1>4. CASE Len(queue) > 0
  <2>1. SubSeq(batch \o queue, Len(batch) + 1, Len(batch) + Len(queue)) =
          SubSeq(queue, Len(batch) + 1 - Len(batch), Len(batch) + Len(queue) - Len(batch))
    BY <1>1, <1>4, SubSeqOfConcat2
  <2>2. /\ Len(batch) + 1 - Len(batch) = 1
        /\ Len(batch) + Len(queue) - Len(batch) = Len(queue)
    BY <1>1
  <2> QED BY <1>1, <1>2, <2>1, <2>2, SubSeqFull
<1> QED BY <1>1, <1>3, <1>4

\* A step that empties the batch, having stored any part of it.
LEMMA SettledDelivers ==
    ASSUME TypeOK, queue' = queue, batch' = <<>>, accepted' = accepted,
           NEW S \in SUBSET Elems(batch), stored' = stored \cup S
    PROVE  Buffer!Next
<1>1. /\ batch \in Seq(Entries) /\ queue \in Seq(Entries)
      /\ Len(batch) \in Nat /\ Len(queue) \in Nat
      /\ Len(batch) <= BatchSize /\ BatchSize \in Nat
  BY SeqTypes
<1>2. (batch \o queue)' = SubSeq(batch \o queue, Len(batch) + 1, Len(batch \o queue))
  <2>1. (batch \o queue)' = queue
    BY <1>1, ConcatEmptySeq
  <2> QED BY <2>1, SettledShape
<1>3. Buffer!Deliver(Len(batch))
  <2>1. S \in SUBSET Buffer!Oldest(BatchSize)
    BY PendingShape
  <2> QED BY <1>2, <2>1 DEF Buffer!Deliver
<1>4. Len(batch) \in 0..BatchSize /\ Len(batch) <= Len(batch \o queue)
  BY <1>1, PendingShape
<1> QED BY <1>3, <1>4 DEF Buffer!Next

\* A step that keeps the batch, having stored any part of it.
LEMMA AttemptDelivers ==
    ASSUME TypeOK, queue' = queue, batch' = batch, accepted' = accepted,
           NEW S \in SUBSET Elems(batch), stored' = stored \cup S
    PROVE  Buffer!Next
<1>1. /\ batch \o queue \in Seq(Entries) /\ Len(batch \o queue) \in Nat
      /\ BatchSize \in Nat
  BY PendingShape, SeqTypes
<1>2. SubSeq(batch \o queue, 0 + 1, Len(batch \o queue)) = batch \o queue
  BY <1>1, SubSeqFull
<1>3. Buffer!Deliver(0)
  <2>1. S \in SUBSET Buffer!Oldest(BatchSize)
    BY PendingShape
  <2>2. (batch \o queue)' = batch \o queue
    OBVIOUS
  <2> QED BY <1>2, <2>1, <2>2 DEF Buffer!Deliver
<1>4. 0 \in 0..BatchSize /\ 0 <= Len(batch \o queue)
  BY <1>1
<1> QED BY <1>3, <1>4 DEF Buffer!Next

LEMMA RefinementInit == ASSUME Init PROVE Buffer!Init
<1>1. <<>> \o <<>> = <<>>
  BY EmptySeq, ConcatEmptySeq
<1> QED BY <1>1 DEF Init, Buffer!Init

LEMMA RefinementStep ==
    ASSUME CountInv, [Next]_vars PROVE [Buffer!Next]_(Buffer!wbvars)
<1>0. TypeOK
  BY DEF CountInv
<1> SUFFICES Buffer!Next \/ UNCHANGED <<accepted, batch \o queue, stored>>
  BY DEF Buffer!wbvars
<1>1. ASSUME NEW e \in Entries, Log(e)
      PROVE  Buffer!Next \/ UNCHANGED <<accepted, batch \o queue, stored>>
  <2>1. CASE /\ Len(queue) < QueueSize /\ queue' = Append(queue, e)
             /\ accepted' = accepted \cup {e}
    <3>1. (batch \o queue)' = Append(batch \o queue, e)
      <4>1. batch' = batch
        BY <1>1 DEF Log
      <4> QED BY <1>0, <2>1, <4>1, LogShape
    <3>2. Len(batch \o queue) < QueueSize + BatchSize
      BY <1>0, <2>1, PendingShape, SeqTypes
    <3>3. e \notin accepted /\ stored' = stored
      BY <1>1 DEF Log
    <3> QED BY <2>1, <3>1, <3>2, <3>3 DEF Buffer!Next, Buffer!Accept
  <2>2. CASE queue' = queue /\ accepted' = accepted
    BY <1>1, <2>2 DEF Log
  <2> QED BY <1>1, <2>1, <2>2 DEF Log
<1>2. CASE Start \/ Stop \/ FlushEnds \/ Retry \/ UNCHANGED vars
  BY <1>2 DEF Start, Stop, FlushEnds, Retry, vars
<1>3. CASE Take
  <2>1. batch' \o queue' = batch \o queue
    BY <1>0, <1>3, TakeShape
  <2> QED BY <1>3, <2>1 DEF Take
<1>4. CASE Wake
  <2>1. batch' \o queue' = batch \o queue
    BY <1>0, <1>4, WakeShape
  <2> QED BY <1>4, <2>1 DEF Wake
<1>5. CASE WriteSucceeds
  <2>1. /\ queue' = queue /\ batch' = <<>> /\ accepted' = accepted
        /\ stored' = stored \cup Elems(batch)
    BY <1>5 DEF WriteSucceeds, BatchDone
  <2> QED BY <1>0, <2>1, SettledDelivers
<1>6. CASE WriteRaises
  <2>1. PICK S \in SUBSET Elems(batch) : stored' = stored \cup S
    BY <1>6 DEF WriteRaises
  <2>2. queue' = queue /\ accepted' = accepted
    BY <1>6 DEF WriteRaises
  <2>3. CASE batch' = batch
    BY <1>0, <2>1, <2>2, <2>3, AttemptDelivers
  <2>4. CASE batch' = <<>>
    BY <1>0, <2>1, <2>2, <2>4, SettledDelivers
  <2> QED BY <1>6, <2>3, <2>4 DEF WriteRaises, GiveUp, BatchDone
<1>7. CASE Cancel
  <2>1. queue' = queue /\ batch' = <<>> /\ accepted' = accepted
    BY <1>7 DEF Cancel
  <2>2. \E S \in SUBSET Elems(batch) : stored' = stored \cup S
    <3>1. stored = stored \cup {} /\ {} \in SUBSET Elems(batch)
      OBVIOUS
    <3> QED BY <1>7, <3>1 DEF Cancel
  <2> QED BY <1>0, <2>1, <2>2, SettledDelivers
<1> QED BY <1>1, <1>2, <1>3, <1>4, <1>5, <1>6, <1>7 DEF Next, Worker

(***************************************************************************)
(* The event log implements the write-behind buffer, for any number of     *)
(* entries and any sizes: entries leave in the order log() took them, none *)
(* is stored before its turn or after it has left, and what waits is never *)
(* more than queue_size + batch_size.                                      *)
(***************************************************************************)
THEOREM Implements == Spec => ImplementsWriteBehind
<1> QED BY RefinementInit, RefinementStep, CountInit, CountStep, PTL
        DEF Spec, ImplementsWriteBehind, Buffer!Spec
-----------------------------------------------------------------------------
(***************************************************************************)
(* Where an entry is.  What waits holds no entry twice, and an entry that  *)
(* waits has not been given up; an entry in the queue, which no insert has *)
(* been tried with, is not stored either.                                  *)
(***************************************************************************)
Distinct(s) == \A i, j \in 1..Len(s) : s[i] = s[j] => i = j

PlaceInv ==
    /\ Distinct(batch \o queue)
    /\ accepted = InHand \cup stored \cup discarded \cup lost
    /\ rejected \cap accepted = {}
    /\ Elems(queue) \cap stored = {}
    /\ InHand \cap (discarded \cup lost) = {}

DroppedInv ==
    /\ IsFiniteSet(rejected) /\ IsFiniteSet(discarded)
    /\ dropped = Cardinality(rejected) + Cardinality(discarded)

\* Two sequences one after the other: what they hold, and when it is distinct.
LEMMA ConcatElems ==
    ASSUME NEW S, NEW s \in Seq(S), NEW t \in Seq(S)
    PROVE  Elems(s \o t) = Elems(s) \cup Elems(t)
<1>1. /\ Len(s) \in Nat /\ Len(t) \in Nat /\ Len(s \o t) = Len(s) + Len(t)
      /\ \A i \in 1..Len(s) + Len(t) :
            (s \o t)[i] = IF i <= Len(s) THEN s[i] ELSE t[i - Len(s)]
  BY LenProperties, ConcatProperties
<1>2. ASSUME NEW i \in 1..Len(s \o t) PROVE (s \o t)[i] \in Elems(s) \cup Elems(t)
  <2>1. CASE i <= Len(s)
    <3>1. i \in 1..Len(s) /\ (s \o t)[i] = s[i]
      BY <1>1, <2>1
    <3> QED BY <3>1 DEF Elems
  <2>2. CASE ~(i <= Len(s))
    <3>1. i - Len(s) \in 1..Len(t) /\ (s \o t)[i] = t[i - Len(s)]
      BY <1>1, <2>2
    <3> QED BY <3>1 DEF Elems
  <2> QED BY <2>1, <2>2
<1>3. ASSUME NEW i \in 1..Len(s) PROVE s[i] \in Elems(s \o t)
  <2>1. i \in 1..Len(s \o t) /\ (s \o t)[i] = s[i]
    BY <1>1
  <2> QED BY <2>1 DEF Elems
<1>4. ASSUME NEW i \in 1..Len(t) PROVE t[i] \in Elems(s \o t)
  <2>1. Len(s) + i \in 1..Len(s \o t) /\ (s \o t)[Len(s) + i] = t[i]
    BY <1>1
  <2> QED BY <2>1 DEF Elems
<1>5. Elems(s \o t) \subseteq Elems(s) \cup Elems(t)
  <2> SUFFICES ASSUME NEW x \in Elems(s \o t) PROVE x \in Elems(s) \cup Elems(t)
    OBVIOUS
  <2>1. PICK i \in 1..Len(s \o t) : x = (s \o t)[i]
    BY DEF Elems
  <2> QED BY <2>1, <1>2
<1>6. Elems(s) \subseteq Elems(s \o t) /\ Elems(t) \subseteq Elems(s \o t)
  <2>1. \A x \in Elems(s) : \E i \in 1..Len(s) : x = s[i]
    BY DEF Elems
  <2>2. \A x \in Elems(t) : \E i \in 1..Len(t) : x = t[i]
    BY DEF Elems
  <2> QED BY <2>1, <2>2, <1>3, <1>4
<1> QED BY <1>5, <1>6

LEMMA ConcatDistinct ==
    ASSUME NEW S, NEW s \in Seq(S), NEW t \in Seq(S), Distinct(s \o t)
    PROVE  Distinct(s) /\ Distinct(t) /\ Elems(s) \cap Elems(t) = {}
<1>1. /\ Len(s) \in Nat /\ Len(t) \in Nat /\ Len(s \o t) = Len(s) + Len(t)
      /\ \A i \in 1..Len(s) + Len(t) :
            (s \o t)[i] = IF i <= Len(s) THEN s[i] ELSE t[i - Len(s)]
  BY LenProperties, ConcatProperties
<1>2. ASSUME NEW i \in 1..Len(s) PROVE i \in 1..Len(s \o t) /\ (s \o t)[i] = s[i]
  BY <1>1
<1>3. ASSUME NEW i \in 1..Len(t)
      PROVE  Len(s) + i \in 1..Len(s \o t) /\ (s \o t)[Len(s) + i] = t[i]
  BY <1>1
<1>4. Distinct(s)
  BY <1>2 DEF Distinct
<1>5. ASSUME NEW i \in 1..Len(t), NEW j \in 1..Len(t), t[i] = t[j] PROVE i = j
  <2>1. Len(s) + i = Len(s) + j
    BY <1>3, <1>5 DEF Distinct
  <2> QED BY <1>1, <2>1
<1>6. ASSUME NEW i \in 1..Len(s), NEW j \in 1..Len(t) PROVE s[i] # t[j]
  <2>1. i # Len(s) + j
    BY <1>1
  <2> QED BY <1>2, <1>3, <2>1 DEF Distinct
<1>7. Elems(s) \cap Elems(t) = {}
  BY <1>6 DEF Elems
<1> QED BY <1>4, <1>5, <1>7 DEF Distinct

LEMMA AppendDistinct ==
    ASSUME NEW S, NEW s \in Seq(S), NEW e \in S, Distinct(s), e \notin Elems(s)
    PROVE  Distinct(Append(s, e)) /\ Elems(Append(s, e)) = Elems(s) \cup {e}
<1> DEFINE a == Append(s, e)
<1>1. /\ Len(s) \in Nat /\ Len(a) = Len(s) + 1
      /\ \A i \in 1..Len(s) : a[i] = s[i]
      /\ a[Len(s) + 1] = e
  BY LenProperties, AppendProperties
<1> HIDE DEF a
<1>2. \A i \in 1..Len(s) : a[i] # e
  BY <1>1 DEF Elems
<1>3. 1..Len(a) = 1..Len(s) \cup {Len(s) + 1}
  BY <1>1
<1>4. Distinct(a)
  BY <1>1, <1>2, <1>3 DEF Distinct
<1>5. Elems(a) = Elems(s) \cup {e}
  BY <1>1, <1>3 DEF Elems
<1> QED BY <1>4, <1>5 DEF a

LEMMA DistinctCount ==
    ASSUME NEW S, NEW s \in Seq(S), Distinct(s)
    PROVE  IsFiniteSet(Elems(s)) /\ Cardinality(Elems(s)) = Len(s)
<1> DEFINE f == [i \in 1..Len(s) |-> s[i]]
<1>1. Len(s) \in Nat
  BY LenProperties
<1>2. f \in Bijection(1..Len(s), Elems(s))
  <2>1. f \in [1..Len(s) -> Elems(s)]
    BY DEF Elems
  <2>2. \A i, j \in 1..Len(s) : f[i] = f[j] => i = j
    BY DEF Distinct
  <2>3. \A x \in Elems(s) : \E i \in 1..Len(s) : f[i] = x
    BY DEF Elems
  <2> HIDE DEF f
  <2> QED BY <2>1, <2>2, <2>3, Zenon DEF Bijection, Injection, Surjection, IsInjective
<1>3. ExistsBijection(1..Len(s), Elems(s))
  BY <1>2 DEF ExistsBijection
<1>4. IsFiniteSet(1..Len(s)) /\ Cardinality(1..Len(s)) = Len(s)
  <2>1. /\ IsFiniteSet(1..Len(s))
        /\ Cardinality(1..Len(s)) = IF 1 > Len(s) THEN 0 ELSE Len(s) - 1 + 1
    BY <1>1, FS_Interval
  <2> QED BY <1>1, <2>1
<1> QED BY <1>3, <1>4, FS_Bijection

LEMMA EmptyElems == Elems(<<>>) = {}
  BY DEF Elems

\* The pieces of what waits.
LEMMA WaitingPieces ==
    ASSUME TypeOK, Distinct(batch \o queue)
    PROVE  /\ InHand = Elems(batch \o queue)
           /\ Elems(queue) \cap Elems(batch) = {}
           /\ IsFiniteSet(Elems(batch)) /\ Cardinality(Elems(batch)) = Len(batch)
           /\ Cardinality(InHand) = Len(queue) + Len(batch)
<1>1. batch \in Seq(Entries) /\ queue \in Seq(Entries) /\ batch \o queue \in Seq(Entries)
      /\ Len(batch \o queue) = Len(batch) + Len(queue)
      /\ Len(batch) \in Nat /\ Len(queue) \in Nat
  BY SeqTypes, PendingShape
<1>2. InHand = Elems(batch \o queue)
  BY <1>1, ConcatElems DEF InHand
<1>3. Distinct(batch) /\ Elems(batch) \cap Elems(queue) = {}
  BY <1>1, ConcatDistinct
<1>4. IsFiniteSet(Elems(batch)) /\ Cardinality(Elems(batch)) = Len(batch)
  BY <1>1, <1>3, DistinctCount
<1>5. Cardinality(Elems(batch \o queue)) = Len(batch \o queue)
  BY <1>1, DistinctCount
<1> QED BY <1>1, <1>2, <1>3, <1>4, <1>5

(***************************************************************************)
(* The four ways a step treats what waits.                                 *)
(***************************************************************************)

\* Entries only move from the queue to the batch, or not at all.
LEMMA MovedKeepsPlaces ==
    ASSUME TypeOK, TypeOK', PlaceInv, batch' \o queue' = batch \o queue,
           Elems(queue)' \subseteq Elems(queue),
           UNCHANGED <<stored, accepted, rejected, discarded, lost>>
    PROVE  PlaceInv' /\ InHand' = InHand
<1>1. Distinct(batch \o queue)'
  BY DEF PlaceInv
<1>2. InHand' = InHand
  <2>1. InHand = Elems(batch \o queue)
    BY WaitingPieces DEF PlaceInv
  <2>2. InHand' = Elems(batch' \o queue')
    <3>1. batch' \in Seq(Entries) /\ queue' \in Seq(Entries)
      BY DEF TypeOK, SequencesOK
    <3>2. \A b, q \in Seq(Entries) : Elems(b \o q) = Elems(b) \cup Elems(q)
      BY ConcatElems
    <3>3. ASSUME NEW b \in Seq(Entries), b = batch', NEW q \in Seq(Entries), q = queue'
          PROVE  InHand' = Elems(b \o q)
      <4>1. InHand' = Elems(queue)' \cup Elems(batch)'
        BY DEF InHand
      <4>2. Elems(queue)' = Elems(q) /\ Elems(batch)' = Elems(b)
        BY <3>3 DEF Elems
      <4> QED BY <3>2, <3>3, <4>1, <4>2
    <3> QED BY <3>1, <3>3
  <2> QED BY <2>1, <2>2
<1> QED BY <1>1, <1>2 DEF PlaceInv

\* The queue takes one more entry.
LEMMA QueuedKeepsPlaces ==
    ASSUME TypeOK, PlaceInv, NEW e \in Entries, e \notin accepted \cup rejected,
           queue' = Append(queue, e), batch' = batch, accepted' = accepted \cup {e},
           UNCHANGED <<stored, rejected, discarded, lost>>
    PROVE  PlaceInv' /\ InHand' = InHand \cup {e}
<1>1. /\ queue \in Seq(Entries) /\ batch \o queue \in Seq(Entries)
      /\ batch' \o queue' = Append(batch \o queue, e)
  BY SeqTypes, PendingShape, LogShape
<1>2. e \notin InHand /\ InHand = Elems(batch \o queue) /\ Distinct(batch \o queue)
  BY WaitingPieces DEF PlaceInv
<1>3. Distinct(batch \o queue)'
  <2>1. e \notin Elems(batch \o queue)
    BY <1>2
  <2>2. Distinct(Append(batch \o queue, e))
    BY <1>1, <1>2, <2>1, AppendDistinct
  <2>3. Distinct(batch' \o queue')
    BY <1>1, <2>2
  <2> QED BY <2>3 DEF Distinct
<1>4. Elems(queue)' = Elems(queue) \cup {e}
  <2>1. Distinct(queue)
    BY <1>2, SeqTypes, ConcatDistinct
  <2>2. e \notin Elems(queue)
    BY <1>2 DEF InHand
  <2>3. Elems(Append(queue, e)) = Elems(queue) \cup {e}
    BY <1>1, <2>1, <2>2, AppendDistinct
  <2> QED BY <2>3 DEF Elems
<1>5. InHand' = InHand \cup {e}
  BY <1>4 DEF InHand, Elems
<1> QED BY <1>3, <1>4, <1>5 DEF PlaceInv

\* The batch has been tried, and is kept.
LEMMA TriedKeepsPlaces ==
    ASSUME TypeOK, PlaceInv, queue' = queue, batch' = batch,
           NEW W \in SUBSET Elems(batch), stored' = stored \cup W,
           UNCHANGED <<accepted, rejected, discarded, lost>>
    PROVE  PlaceInv' /\ InHand' = InHand
<1>1. Elems(queue) \cap Elems(batch) = {}
  BY WaitingPieces DEF PlaceInv
<1>2. InHand' = InHand /\ Elems(queue)' = Elems(queue)
  BY DEF InHand, Elems
<1>3. W \subseteq InHand
  BY DEF InHand
<1> QED BY <1>1, <1>2, <1>3 DEF PlaceInv

\* The batch is over: each entry was stored, discarded or interrupted.
LEMMA SettledKeepsPlaces ==
    ASSUME TypeOK, PlaceInv, queue' = queue, batch' = <<>>,
           NEW W \in SUBSET Elems(batch), stored' = stored \cup W,
           NEW D \in SUBSET Elems(batch), discarded' = discarded \cup D,
           NEW L \in SUBSET Elems(batch), lost' = lost \cup L,
           W \cup D \cup L = Elems(batch),
           UNCHANGED <<accepted, rejected>>
    PROVE  PlaceInv' /\ InHand' \subseteq InHand
<1>1. /\ batch \in Seq(Entries) /\ queue \in Seq(Entries)
      /\ Distinct(queue) /\ Elems(queue) \cap Elems(batch) = {}
  BY SeqTypes, ConcatDistinct DEF PlaceInv
<1>2. Distinct(batch \o queue)'
  BY <1>1, ConcatEmptySeq
<1>3. InHand' = Elems(queue) /\ Elems(queue)' = Elems(queue)
  BY EmptyElems DEF InHand, Elems
<1>4. InHand = Elems(queue) \cup Elems(batch)
  BY DEF InHand
<1> QED BY <1>1, <1>2, <1>3, <1>4 DEF PlaceInv

\* What the queue holds after its front is gone.
LEMMA TailElems ==
    ASSUME TypeOK, Take \/ Wake PROVE Elems(queue)' \subseteq Elems(queue)
<1>1. queue \in Seq(Entries) /\ Len(queue) \in Nat
  BY SeqTypes
<1>2. ASSUME NEW k \in 0..Len(queue), NEW q \in Seq(Entries), Len(q) = Len(queue) - k,
             \A i \in 1..Len(q) : q[i] = queue[i + k]
      PROVE  Elems(q) \subseteq Elems(queue)
  <2>1. \A i \in 1..Len(q) : i + k \in 1..Len(queue)
    BY <1>1, <1>2
  <2> QED BY <1>2, <2>1 DEF Elems
<1>3. CASE Take
  <2>1. queue # <<>> /\ queue' = Tail(queue)
    BY <1>3 DEF Take
  <2>2. /\ Tail(queue) \in Seq(Entries) /\ Len(Tail(queue)) = Len(queue) - 1
        /\ \A i \in 1..Len(Tail(queue)) : Tail(queue)[i] = queue[i + 1]
    BY <1>1, <2>1, HeadTailProperties
  <2>3. 1 \in 0..Len(queue)
    BY <1>1, <2>1, EmptySeq
  <2>4. Elems(Tail(queue)) \subseteq Elems(queue)
    BY <1>2, <2>2, <2>3
  <2> QED BY <2>1, <2>4 DEF Elems
<1>4. CASE Wake
  <2> DEFINE back == SubSeq(queue, Room + 1, Len(queue))
  <2>1. Room \in 0..Len(queue) /\ queue' = back
    BY <1>4, RoomBounds DEF Wake
  <2>2. /\ back \in Seq(Entries) /\ Len(back) = Len(queue) - Room
        /\ \A i \in 1..Len(queue) - (Room + 1) + 1 : back[i] = queue[Room + 1 + i - 1]
    <3>1. \A i \in Room + 1..Len(queue) : queue[i] \in Entries
      BY <1>1, <2>1, ElementOfSeq
    <3> QED BY <1>1, <2>1, <3>1, SubSeqProperties
  <2> HIDE DEF back
  <2>3. \A i \in 1..Len(back) : back[i] = queue[i + Room]
    BY <1>1, <2>1, <2>2
  <2>4. Elems(back) \subseteq Elems(queue)
    BY <1>2, <2>1, <2>2, <2>3
  <2> QED BY <2>1, <2>4 DEF Elems
<1> QED BY <1>3, <1>4

(***************************************************************************)
(* Every step is one of the four.                                          *)
(***************************************************************************)
PlacesInv == PlaceInv /\ DroppedInv /\ FlushedMeansSettled

LEMMA PlacesInit == ASSUME Init PROVE PlacesInv
<1>1. queue = <<>> /\ batch = <<>> /\ Elems(queue) = {} /\ Elems(batch) = {} /\ InHand = {}
  BY EmptyElems DEF Init, InHand
<1>2. Distinct(batch \o queue)
  <2>1. batch \o queue = <<>>
    BY <1>1, EmptySeq, ConcatEmptySeq
  <2> QED BY <2>1 DEF Distinct
<1>3. PlaceInv /\ FlushedMeansSettled
  BY <1>1, <1>2 DEF Init, PlaceInv, FlushedMeansSettled
<1>4. DroppedInv
  BY FS_EmptySet DEF Init, DroppedInv
<1> QED BY <1>3, <1>4 DEF PlacesInv

LEMMA PlacesStep == ASSUME CountInv, CountInv', PlacesInv, [Next]_vars PROVE PlacesInv'
<1>0. /\ TypeOK /\ TypeOK' /\ PlaceInv /\ DroppedInv /\ FlushedMeansSettled
      /\ WorkerOK /\ UnfinishedCount
  BY DEF CountInv, PlacesInv, TypeOK
<1>1. ASSUME NEW e \in Entries, Log(e) PROVE PlacesInv'
  <2>1. CASE queue' = Append(queue, e)
    <3>1. /\ e \notin accepted \cup rejected /\ batch' = batch
          /\ accepted' = accepted \cup {e} /\ dropped' = dropped
          /\ UNCHANGED <<stored, rejected, discarded, lost, stopping>>
          /\ late' = IF stopping = "flushed" THEN late \cup {e} ELSE late
      <4>1. queue' # queue
        BY <1>0, <2>1, SeqTypes, LogShape
      <4> QED BY <1>1, <4>1 DEF Log
    <3>2. PlaceInv' /\ InHand' = InHand \cup {e}
      BY <1>0, <2>1, <3>1, QueuedKeepsPlaces
    <3>3. FlushedMeansSettled'
      BY <1>0, <3>1, <3>2 DEF FlushedMeansSettled
    <3>4. DroppedInv'
      BY <1>0, <3>1 DEF DroppedInv
    <3> QED BY <3>2, <3>3, <3>4 DEF PlacesInv
  <2>2. CASE queue' = queue
    <3>1. /\ e \notin accepted \cup rejected /\ rejected' = rejected \cup {e}
          /\ dropped' = dropped + 1
          /\ UNCHANGED <<queue, batch, stored, accepted, discarded, lost, stopping, late>>
      <4>1. queue' # Append(queue, e)
        BY <1>0, <2>2, SeqTypes, LogShape
      <4> QED BY <1>1, <4>1 DEF Log
    <3>2. PlaceInv' /\ FlushedMeansSettled'
      BY <1>0, <3>1 DEF PlaceInv, FlushedMeansSettled, InHand, Elems
    <3>3. /\ IsFiniteSet(rejected \cup {e})
          /\ Cardinality(rejected \cup {e}) = Cardinality(rejected) + 1
          /\ Cardinality(rejected) \in Nat /\ Cardinality(discarded) \in Nat
      BY <1>0, <3>1, FS_AddElement, FS_CardinalityType DEF DroppedInv
    <3>4. DroppedInv'
      BY <1>0, <3>1, <3>3 DEF DroppedInv
    <3> QED BY <3>2, <3>4 DEF PlacesInv
  <2> QED BY <1>1, <2>1, <2>2 DEF Log
<1>2. CASE Take \/ Wake
  <2>1. batch' \o queue' = batch \o queue /\ Elems(queue)' \subseteq Elems(queue)
    BY <1>0, <1>2, TakeShape, WakeShape, TailElems
  <2>2. UNCHANGED <<dropped, stored, accepted, rejected, discarded, lost, stopping, late>>
    BY <1>2 DEF Take, Wake, shutdown
  <2>3. PlaceInv' /\ InHand' = InHand
    BY <1>0, <2>1, <2>2, MovedKeepsPlaces
  <2>4. FlushedMeansSettled' /\ DroppedInv'
    BY <1>0, <2>2, <2>3 DEF FlushedMeansSettled, DroppedInv
  <2> QED BY <2>3, <2>4 DEF PlacesInv
<1>3. CASE Start \/ Retry \/ Stop \/ FlushEnds \/ UNCHANGED vars
  <2>1. UNCHANGED <<queue, batch, dropped, stored, accepted, rejected, discarded, lost>>
    BY <1>3 DEF Start, Retry, Stop, FlushEnds, vars, shutdown
  <2>2. PlaceInv' /\ InHand' = InHand
    BY <1>0, <2>1 DEF PlaceInv, InHand, Elems
  <2>3. FlushedMeansSettled'
    <3>1. CASE Start \/ Retry \/ Stop \/ UNCHANGED vars
      BY <1>0, <2>2, <3>1 DEF Start, Retry, Stop, vars, shutdown, FlushedMeansSettled
    <3>2. CASE FlushEnds /\ unfinished = 0
      <4>1. Len(queue) = 0 /\ Len(batch) = 0
        BY <1>0, <3>2, SeqTypes DEF UnfinishedCount, TypeOK, RecordsOK
      <4>2. InHand = {}
        BY <4>1 DEF InHand, Elems
      <4> QED BY <2>2, <4>2 DEF FlushedMeansSettled
    <3>3. CASE FlushEnds /\ unfinished # 0
      BY <3>3 DEF FlushEnds, FlushedMeansSettled
    <3> QED BY <1>3, <3>1, <3>2, <3>3
  <2>4. DroppedInv'
    BY <1>0, <2>1 DEF DroppedInv
  <2> QED BY <2>2, <2>3, <2>4 DEF PlacesInv
<1>4. CASE WriteSucceeds
  <2>1. /\ queue' = queue /\ batch' = <<>> /\ stored' = stored \cup Elems(batch)
        /\ discarded' = discarded \cup {} /\ lost' = lost \cup {}
        /\ UNCHANGED <<accepted, rejected, dropped, discarded, stopping, late>>
    BY <1>4 DEF WriteSucceeds, BatchDone, shutdown
  <2>2. PlaceInv' /\ InHand' \subseteq InHand
    <3> DEFINE W == Elems(batch)
               D == {}
    <3>1. W \in SUBSET W /\ D \in SUBSET W /\ W \cup D \cup D = W
      OBVIOUS
    <3> QED BY <1>0, <2>1, <3>1, SettledKeepsPlaces
  <2>3. FlushedMeansSettled' /\ DroppedInv'
    BY <1>0, <2>1, <2>2 DEF FlushedMeansSettled, DroppedInv
  <2> QED BY <2>2, <2>3 DEF PlacesInv
<1>5. CASE WriteRaises
  <2>1. PICK W \in SUBSET Elems(batch) : stored' = stored \cup W
    BY <1>5 DEF WriteRaises
  <2>2. queue' = queue /\ UNCHANGED <<accepted, rejected, lost, stopping, late>>
    BY <1>5 DEF WriteRaises, shutdown
  <2>3. CASE UNCHANGED <<batch, dropped, discarded>>
    <3>1. PlaceInv' /\ InHand' = InHand
      BY <1>0, <2>1, <2>2, <2>3, TriedKeepsPlaces
    <3>2. FlushedMeansSettled' /\ DroppedInv'
      BY <1>0, <2>2, <2>3, <3>1 DEF FlushedMeansSettled, DroppedInv
    <3> QED BY <3>1, <3>2 DEF PlacesInv
  <2>4. CASE GiveUp
    <3>1. /\ batch' = <<>> /\ discarded' = discarded \cup Elems(batch)
          /\ dropped' = dropped + Len(batch) /\ lost' = lost \cup {}
      BY <2>2, <2>4 DEF GiveUp, BatchDone
    <3>2. PlaceInv' /\ InHand' \subseteq InHand
      <4>1. W \cup Elems(batch) \cup {} = Elems(batch)
        OBVIOUS
      <4> QED BY <1>0, <2>1, <2>2, <3>1, <4>1, SettledKeepsPlaces
    <3>3. FlushedMeansSettled'
      BY <1>0, <2>2, <3>2 DEF FlushedMeansSettled
    <3>4. /\ IsFiniteSet(Elems(batch)) /\ Cardinality(Elems(batch)) = Len(batch)
          /\ discarded \cap Elems(batch) = {}
      BY <1>0, WaitingPieces DEF PlaceInv, InHand
    <3>5. /\ IsFiniteSet(discarded \cup Elems(batch))
          /\ Cardinality(discarded \cup Elems(batch))
                = Cardinality(discarded) + Len(batch) - Cardinality({})
          /\ Cardinality({}) = 0
      BY <1>0, <3>4, FS_Union, FS_EmptySet DEF DroppedInv
    <3>6. Cardinality(rejected) \in Nat /\ Cardinality(discarded) \in Nat /\ Len(batch) \in Nat
      BY <1>0, FS_CardinalityType, SeqTypes DEF DroppedInv
    <3>7. DroppedInv'
      BY <1>0, <2>2, <3>1, <3>5, <3>6 DEF DroppedInv
    <3> QED BY <3>2, <3>3, <3>7 DEF PlacesInv
  <2> QED BY <1>5, <2>3, <2>4 DEF WriteRaises
<1>6. CASE Cancel
  <2>1. /\ queue' = queue /\ batch' = <<>> /\ stopping' = "no"
        /\ lost' = lost \cup Elems(batch) /\ discarded' = discarded \cup {}
        /\ UNCHANGED <<accepted, rejected, discarded, dropped>>
    BY <1>6 DEF Cancel
  <2>2. PICK W \in SUBSET Elems(batch) : stored' = stored \cup W
    <3>1. stored = stored \cup {} /\ {} \in SUBSET Elems(batch)
      OBVIOUS
    <3> QED BY <1>6, <3>1 DEF Cancel
  <2>3. PlaceInv'
    <3>1. W \cup {} \cup Elems(batch) = Elems(batch)
      OBVIOUS
    <3> QED BY <1>0, <2>1, <2>2, <3>1, SettledKeepsPlaces
  <2>4. FlushedMeansSettled' /\ DroppedInv'
    BY <1>0, <2>1 DEF FlushedMeansSettled, DroppedInv
  <2> QED BY <2>3, <2>4 DEF PlacesInv
<1> QED BY <1>1, <1>2, <1>3, <1>4, <1>5, <1>6 DEF Next, Worker

LEMMA PlacesHold == Spec => [](CountInv /\ PlacesInv)
  BY CountInit, CountStep, PlacesInit, PlacesStep, PTL DEF Spec

(***************************************************************************)
(* An accepted entry is always somewhere, and nothing that waits is in two *)
(* places, however inserts fail and whenever the log is stopped.           *)
(***************************************************************************)
THEOREM NothingVanishesHolds == Spec => []NothingVanishes
<1>1. CountInv /\ PlacesInv => NothingVanishes
  <2> SUFFICES ASSUME CountInv, PlacesInv PROVE NothingVanishes
    OBVIOUS
  <2>1. Elems(queue) \cap Elems(batch) = {} /\ Cardinality(InHand) = Len(queue) + Len(batch)
    BY WaitingPieces DEF CountInv, PlacesInv, PlaceInv
  <2> QED BY <2>1 DEF PlacesInv, PlaceInv, NothingVanishes
<1> QED BY <1>1, PlacesHold, PTL

(***************************************************************************)
(* `dropped` is the number of entries given up at the queue or after the   *)
(* third attempt, each counted once.                                       *)
(***************************************************************************)
THEOREM DroppedCountHolds == Spec => []DroppedCount
<1>1. CountInv /\ PlacesInv => DroppedCount
  BY DEF PlacesInv, PlaceInv, DroppedInv, DroppedCount
<1> QED BY <1>1, PlacesHold, PTL

(***************************************************************************)
(* When stop()'s flush ends by itself, only entries logged after it are    *)
(* still in the process.                                                   *)
(***************************************************************************)
THEOREM FlushedMeansSettledHolds == Spec => []FlushedMeansSettled
<1>1. CountInv /\ PlacesInv => FlushedMeansSettled
  BY DEF PlacesInv
<1> QED BY <1>1, PlacesHold, PTL

(***************************************************************************)
(* No entry is stored after it was rejected, discarded or interrupted:     *)
(* an insert writes only entries of the batch, and those have not been     *)
(* given up.                                                               *)
(***************************************************************************)
THEOREM GivenUpIsFinalHolds == Spec => GivenUpIsFinal
<1> DEFINE Gone == discarded \cup lost \cup rejected
           Final == stored' \cap Gone = stored \cap Gone
<1>1. ASSUME CountInv, PlacesInv, [Next]_vars PROVE [Final]_vars
  <2>1. \E W \in SUBSET Elems(batch) : stored' = stored \cup W
    <3>1. stored = stored \cup {} /\ {} \in SUBSET Elems(batch)
      OBVIOUS
    <3>2. CASE UNCHANGED stored
      BY <3>1, <3>2
    <3>3. CASE WriteSucceeds
      BY <3>3 DEF WriteSucceeds
    <3>4. CASE WriteRaises \/ Cancel
      BY <3>1, <3>4 DEF WriteRaises, Cancel
    <3>5. ASSUME NEW e \in Entries, Log(e) PROVE UNCHANGED stored
      BY <3>5 DEF Log
    <3>6. ASSUME Start \/ Take \/ Wake \/ Retry \/ Stop \/ FlushEnds \/ UNCHANGED vars
          PROVE  UNCHANGED stored
      BY <3>6 DEF Start, Take, Wake, Retry, Stop, FlushEnds, vars
    <3> QED BY <1>1, <3>2, <3>3, <3>4, <3>5, <3>6 DEF Next, Worker
  <2>2. Elems(batch) \cap Gone = {}
    <3>1. Elems(batch) \subseteq InHand
      BY DEF InHand
    <3> QED BY <1>1, <3>1 DEF PlacesInv, PlaceInv
  <2> QED BY <2>1, <2>2
<1> QED BY <1>1, PlacesHold, PTL DEF Spec, GivenUpIsFinal

(***************************************************************************)
(* `dropped` is an upper bound of what is lost because a failed insert may *)
(* have stored something.  When none does, nothing that is counted there   *)
(* is stored: "eventos descartados" is then the truth.                     *)
(***************************************************************************)
FailuresStoreNothing ==
    worker' = "backoff" \/ discarded' # discarded => stored' = stored

BatchIsNotStored == Elems(batch) \cap stored = {}

LEMMA CleanStep ==
    ASSUME CountInv, PlacesInv, PlacesInv', BatchIsNotStored, DroppedAreGone,
           FailuresStoreNothing, [Next]_vars
    PROVE  BatchIsNotStored' /\ DroppedAreGone'
<1>0. /\ TypeOK /\ PlaceInv /\ PlaceInv'
      /\ Elems(queue) \cap stored = {} /\ Elems(batch) \subseteq InHand
  BY DEF CountInv, PlacesInv, PlaceInv, InHand
<1>1. ASSUME NEW e \in Entries, Log(e) PROVE BatchIsNotStored' /\ DroppedAreGone'
  <2>1. UNCHANGED <<batch, stored, discarded>> /\ rejected' \subseteq rejected \cup {e}
    BY <1>1 DEF Log
  <2>2. e \notin stored
    BY <1>0, <1>1 DEF Log, PlaceInv
  <2> QED BY <2>1, <2>2 DEF BatchIsNotStored, DroppedAreGone, Elems
<1>2. CASE Take \/ Wake
  <2>1. InHand' = InHand /\ UNCHANGED <<stored, discarded, rejected>>
    <3>1. /\ batch' \o queue' = batch \o queue /\ Elems(queue)' \subseteq Elems(queue)
          /\ UNCHANGED <<stored, accepted, rejected, discarded, lost>>
      BY <1>0, <1>2, TakeShape, WakeShape, TailElems DEF Take, Wake, shutdown
    <3> QED BY <1>0, <3>1, CountStep, MovedKeepsPlaces DEF CountInv
  <2>2. InHand \cap stored = {}
    BY <1>0 DEF InHand, BatchIsNotStored
  <2> QED BY <2>1, <2>2 DEF BatchIsNotStored, DroppedAreGone, InHand
<1>3. CASE Start \/ Retry \/ Stop \/ FlushEnds \/ UNCHANGED vars
  <2>1. UNCHANGED <<batch, stored, discarded, rejected>>
    BY <1>3 DEF Start, Retry, Stop, FlushEnds, vars, shutdown
  <2> QED BY <2>1 DEF BatchIsNotStored, DroppedAreGone, Elems
<1>4. CASE WriteSucceeds
  <2>1. batch' = <<>> /\ stored' = stored \cup Elems(batch) /\ UNCHANGED <<discarded, rejected>>
    BY <1>4 DEF WriteSucceeds, BatchDone
  <2>2. Elems(batch) \cap (discarded \cup rejected) = {}
    BY <1>0 DEF PlaceInv
  <2>3. Elems(batch)' = {}
    BY <2>1, EmptyElems DEF Elems
  <2> QED BY <2>1, <2>2, <2>3 DEF BatchIsNotStored, DroppedAreGone
<1>5. CASE WriteRaises
  <2>1. CASE worker' = "backoff" /\ UNCHANGED <<batch, discarded>>
    <3>1. stored' = stored /\ rejected' = rejected
      BY <1>5, <2>1 DEF WriteRaises, FailuresStoreNothing
    <3> QED BY <2>1, <3>1 DEF BatchIsNotStored, DroppedAreGone, Elems
  <2>2. CASE GiveUp
    <3>1. batch' = <<>> /\ discarded' = discarded \cup Elems(batch) /\ rejected' = rejected
      BY <1>5, <2>2 DEF GiveUp, BatchDone, WriteRaises
    <3>2. Elems(batch) # {} /\ Elems(batch) \cap discarded = {}
      <4>1. Len(batch) > 0 /\ Len(batch) \in Nat
        BY <1>0, <1>5, SeqTypes DEF WriteRaises, TypeOK, WorkerOK
      <4>2. batch[1] \in Elems(batch)
        BY <4>1 DEF Elems
      <4> QED BY <1>0, <4>2 DEF PlaceInv
    <3>3. stored' = stored
      BY <3>1, <3>2 DEF FailuresStoreNothing
    <3>4. Elems(batch)' = {}
      BY <3>1, EmptyElems DEF Elems
    <3> QED BY <3>1, <3>3, <3>4 DEF BatchIsNotStored, DroppedAreGone
  <2> QED BY <1>5, <2>1, <2>2 DEF WriteRaises
<1>6. CASE Cancel
  <2>1. batch' = <<>> /\ UNCHANGED <<discarded, rejected>>
    BY <1>6 DEF Cancel
  <2>2. stored' \subseteq stored \cup Elems(batch)
    BY <1>6 DEF Cancel
  <2>3. Elems(batch) \cap (discarded \cup rejected) = {}
    BY <1>0 DEF PlaceInv
  <2>4. Elems(batch)' = {}
    BY <2>1, EmptyElems DEF Elems
  <2> QED BY <2>1, <2>2, <2>3, <2>4 DEF BatchIsNotStored, DroppedAreGone
<1> QED BY <1>1, <1>2, <1>3, <1>4, <1>5, <1>6 DEF Next, Worker

THEOREM CleanFailuresDropForGood == Spec /\ [][FailuresStoreNothing]_vars => []DroppedAreGone
<1> DEFINE Clean == BatchIsNotStored /\ DroppedAreGone
<1>1. Init => Clean
  BY EmptyElems DEF Init, BatchIsNotStored, DroppedAreGone
<1>2. /\ CountInv /\ PlacesInv /\ PlacesInv' /\ Clean
      /\ [FailuresStoreNothing]_vars /\ [Next]_vars
      => Clean'
  <2>1. ASSUME Clean, UNCHANGED vars PROVE Clean'
    BY <2>1 DEF vars, BatchIsNotStored, DroppedAreGone, Elems
  <2> QED BY <2>1, CleanStep
<1>3. Clean => DroppedAreGone
  OBVIOUS
<1> QED BY <1>1, <1>2, <1>3, PlacesHold, PTL DEF Spec

(***************************************************************************)
(* What keeps the worker from working for ever: the steps it still has to  *)
(* take for what it holds (three attempts at most) and for what is queued  *)
(* are bounded, each of its steps uses some of them up, and only a new     *)
(* entry adds any, eight of them.  It is the part of WorkerDrains that     *)
(* needs no fairness.                                                      *)
(***************************************************************************)
StepsLeft ==
    8 * Len(queue) + (CASE worker = "sleep"   -> 7
                        [] worker = "write"   -> 8 - 2 * attempt
                        [] worker = "backoff" -> 7 - 2 * attempt
                        [] OTHER              -> 0)

THEOREM EveryStepOfTheWorkerCounts ==
    Spec => [][/\ StepsLeft' \in Nat
               /\ Worker => StepsLeft' < StepsLeft
               /\ StepsLeft' > StepsLeft =>
                    \E e \in Entries : accepted' = accepted \cup {e} /\ StepsLeft' = StepsLeft + 8]_vars
<1>1. ASSUME CountInv, CountInv', [Next]_vars
      PROVE  /\ StepsLeft' \in Nat
             /\ Worker => StepsLeft' < StepsLeft
             /\ StepsLeft' > StepsLeft =>
                  \E e \in Entries : accepted' = accepted \cup {e} /\ StepsLeft' = StepsLeft + 8
  <2>0. /\ TypeOK /\ TypeOK' /\ WorkerOK /\ WorkerOK'
        /\ Len(queue) \in Nat /\ Len(queue') \in Nat
    <3>1. TypeOK /\ TypeOK' /\ queue' \in Seq(Entries)
      BY <1>1 DEF CountInv, TypeOK, SequencesOK
    <3> QED BY <3>1, SeqTypes, LenProperties DEF TypeOK
  <2>1. StepsLeft \in Nat /\ StepsLeft' \in Nat
    BY <2>0 DEF StepsLeft, WorkerOK
  <2>2. ASSUME NEW e \in Entries, Log(e), ~Worker
        PROVE  \/ StepsLeft' = StepsLeft
               \/ accepted' = accepted \cup {e} /\ StepsLeft' = StepsLeft + 8
    <3>1. Len(Append(queue, e)) = Len(queue) + 1
      BY <2>0, LogShape
    <3>2. worker' = worker /\ attempt' = attempt
      BY <2>2 DEF Log
    <3>3. StepsLeft' - 8 * Len(queue') = StepsLeft - 8 * Len(queue)
      BY <2>0, <3>2 DEF StepsLeft, WorkerOK
    <3>4. CASE queue' = queue
      BY <2>0, <2>1, <3>3, <3>4
    <3>5. CASE queue' = Append(queue, e) /\ accepted' = accepted \cup {e}
      <4>1. Len(queue') = Len(queue) + 1
        BY <3>1, <3>5
      <4>2. StepsLeft' = StepsLeft + 8
        BY <2>0, <2>1, <3>3, <4>1
      <4> QED BY <3>5, <4>2
    <3> QED BY <2>2, <3>4, <3>5 DEF Log
  <2>3. ASSUME NEW e \in Entries, Log(e) PROVE ~Worker
    BY <2>3 DEF Log, Worker, Take, Wake, WriteSucceeds, WriteRaises, Retry
  <2>4. CASE Take
    <3>1. Len(queue') = Len(queue) - 1 /\ worker = "get" /\ worker' = "sleep"
      BY <2>0, <2>4, TakeShape DEF Take
    <3> QED BY <2>0, <2>1, <3>1 DEF StepsLeft
  <2>5. CASE Wake
    <3>1. /\ Len(queue') = Len(queue) - Room /\ Room \in 0..Len(queue)
          /\ worker = "sleep" /\ worker' = "write" /\ attempt' = 1
      BY <2>0, <2>5, WakeShape, RoomBounds DEF Wake
    <3> QED BY <2>0, <2>1, <3>1 DEF StepsLeft
  <2>6. CASE WriteSucceeds \/ WriteRaises \/ Retry
    <3>1. queue' = queue
      BY <2>6 DEF WriteSucceeds, WriteRaises, Retry
    <3>2. StepsLeft' < StepsLeft
      BY <2>0, <2>6, <3>1
         DEF WriteSucceeds, WriteRaises, Retry, BatchDone, GiveUp, StepsLeft, WorkerOK
    <3> QED BY <2>1, <3>2
  <2>7. ASSUME Start \/ Stop \/ FlushEnds \/ Cancel \/ UNCHANGED vars
        PROVE  StepsLeft' <= StepsLeft
    BY <2>0, <2>7 DEF Start, Stop, FlushEnds, Cancel, vars, shutdown, StepsLeft, WorkerOK
  <2>8. ASSUME Start \/ Stop \/ FlushEnds \/ Cancel \/ UNCHANGED vars, Worker
        PROVE  FALSE
    BY <2>8 DEF Start, Stop, FlushEnds, Cancel, vars, Worker, Take, Wake, WriteSucceeds,
                WriteRaises, Retry, BatchDone, GiveUp
  <2> QED BY <1>1, <2>1, <2>2, <2>3, <2>4, <2>5, <2>6, <2>7, <2>8 DEF Next, Worker
<1> QED BY <1>1, CountInit, CountStep, PTL DEF Spec
=============================================================================
