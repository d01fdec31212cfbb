------------------------------- MODULE Ledger -------------------------------
(***************************************************************************)
(* What the credit accounts promise to the shop, whatever runs at the same *)
(* time and wherever a request dies.  A movement is posted to its account  *)
(* at most once, while the account is open, and the balance moves by its   *)
(* amount and by nothing else.  It is written to the history after it was  *)
(* posted, and is confirmed only with that.  A movement that was refused   *)
(* is never posted, and one that was posted is never refused.              *)
(*                                                                         *)
(* A movement that is neither confirmed nor refused may be posted or not:  *)
(* that is what the caller of a request that failed has to live with.  And *)
(* nothing is promised of the sign of a balance, nor of the balance of an  *)
(* account that is closed: the checks of the code race.                    *)
(***************************************************************************)
EXTENDS Integers

CONSTANTS Customers,
          Ids,        \* the ids of movements
          Records,    \* the movements there can be, each with an id and a customer
          Amount(_)   \* what a movement adds to the balance

VARIABLES accounts,   \* "none", "live" or "deleted", by customer
          balance,
          posted,     \* movements that have moved a balance
          written,    \* movements in the history
          confirmed,  \* ids of movements answered as done
          refused     \* ids of movements answered as not done

lvars == <<accounts, balance, posted, written, confirmed, refused>>

Init ==
    /\ accounts \in [Customers -> {"none", "live"}]
    /\ balance = [c \in Customers |-> 0]
    /\ posted = {} /\ written = {}
    /\ confirmed = {} /\ refused = {}

Open(c) ==
    /\ accounts[c] = "none"
    /\ accounts' = [accounts EXCEPT ![c] = "live"]
    /\ UNCHANGED <<balance, posted, written, confirmed, refused>>

Close(c) ==
    /\ accounts[c] = "live"
    /\ accounts' = [accounts EXCEPT ![c] = "deleted"]
    /\ UNCHANGED <<balance, posted, written, confirmed, refused>>

IdsPosted == {m.id : m \in posted}

Post(m) ==
    /\ m \in Records
    /\ m.id \notin IdsPosted \cup refused
    /\ posted' = posted \cup {m}
    /\ accounts[m.customer] = "live"
    /\ balance' = [balance EXCEPT ![m.customer] = @ + Amount(m)]
    /\ UNCHANGED <<accounts, written, confirmed, refused>>

Write(m) ==
    /\ written' = written \cup {m}
    /\ confirmed' \in {confirmed, confirmed \cup {m.id}}
    /\ UNCHANGED <<accounts, balance, posted, refused>>

Refuse(i) ==
    /\ i \notin IdsPosted
    /\ refused' = refused \cup {i}
    /\ UNCHANGED <<accounts, balance, posted, written, confirmed>>

Next ==
    \/ \E c \in Customers : Open(c) \/ Close(c)
    \/ \E m \in posted \ written : Write(m)
    \/ \E m \in posted' \ posted : Post(m)
    \/ \E i \in Ids : Refuse(i)

Spec == Init /\ [][Next]_lvars
=============================================================================
