----------------------------- MODULE WriteBehind -----------------------------
(***************************************************************************)
(* What the event log promises to the code that logs: a bounded buffer     *)
(* written behind the caller's back.  An entry is accepted once, waits in  *)
(* order of acceptance, can reach the database only while it is among the  *)
(* BatchSize oldest, and leaves in order.  Nothing is said of an entry     *)
(* that leaves without having been saved: that is the best effort of an    *)
(* event log.  What can never happen is that an entry is saved out of turn *)
(* or after it was given up, or that the buffer grows without bound.       *)
(***************************************************************************)
EXTENDS Naturals, Sequences

CONSTANTS Entries, QueueSize, BatchSize

VARIABLES accepted,  \* the entries taken from the callers
          pending,   \* those that still wait, in the order they were taken
          saved      \* those the database holds

wbvars == <<accepted, pending, saved>>

Oldest(n) == {pending[i] : i \in {j \in 1..Len(pending) : j <= n}}

Init == accepted = {} /\ pending = <<>> /\ saved = {}

Accept(e) ==
    /\ e \notin accepted
    /\ Len(pending) < QueueSize + BatchSize
    /\ accepted' = accepted \cup {e}
    /\ pending' = Append(pending, e)
    /\ UNCHANGED saved

(***************************************************************************)
(* The n oldest leave; any of the BatchSize oldest may have been saved.    *)
(***************************************************************************)
Deliver(n) ==
    /\ pending' = SubSeq(pending, n + 1, Len(pending))
    /\ \E S \in SUBSET Oldest(BatchSize) : saved' = saved \cup S
    /\ UNCHANGED accepted

Next ==
    \/ \E e \in Entries : Accept(e)
    \/ \E n \in 0..BatchSize : n <= Len(pending) /\ Deliver(n)

Spec == Init /\ [][Next]_wbvars
=============================================================================
