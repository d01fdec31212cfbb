--------------------------- MODULE CustomerCredit ---------------------------
(***************************************************************************)
(* The credit accounts ("fiado") of CustomerService.                       *)
(*                                                                         *)
(* Every HTTP request is one coroutine.  A repository call is an await:    *)
(* between two of them any other request, of this or of another server     *)
(* instance, may run, and the request itself may be lost (the process      *)
(* stops, the driver raises, the client goes away).  A call on a single    *)
(* document is atomic.  So each action below is the code between two       *)
(* awaits, together with the repository call it ends with.                 *)
(*                                                                         *)
(* Amounts are whole units.  Of the fields PATCH can set only credit_limit *)
(* is kept, the others play no part in the account; the DTO refuses a body *)
(* that sets nothing, so the re-read of update() is never reached.         *)
(***************************************************************************)
EXTENDS Integers, FiniteSets, Functions

CONSTANTS Requests,   \* the HTTP requests, each used once
          Customers,  \* customer ids: new_id() never gives one twice
          Amounts,    \* amounts of the movements (gt=0 in the DTO)
          Limits      \* credit limits (ge=0 in the DTO), 0 is "no limit"

ASSUME AmountsArePositive == Amounts \subseteq Nat \ {0}
ASSUME LimitsAreNatural == Limits \subseteq Nat

VARIABLES
    customers,  \* the collection `customers`, by id
    movements,  \* the collection `credit_movements`
    pc,         \* where each request waits, or the status it was answered with
    call,       \* what each request asks for
    doc,        \* the customer document each coroutine holds
    \* History, read by the properties only.
    applied,    \* requests whose $inc has reached the balance
    overtaken,  \* requests whose document another movement made out of date
    warned      \* requests that logged customers.credit.over_limit

vars == <<customers, movements, pc, call, doc, applied, overtaken, warned>>
history == <<applied, overtaken, warned>>

MovementTypes == {"charge", "payment"}
Movements == [type : MovementTypes, customer : Customers, value : Amounts]
Edits == [type : {"create", "update"}, customer : Customers, value : Limits]
Removals == [type : {"delete"}, customer : Customers, value : {0}]
Records == [id : Requests, type : MovementTypes, customer : Customers, value : Amounts]
Calls == Movements \cup Edits \cup Removals
NoCall == [type |-> "none"]

Awaits == {"adjust", "insert", "set", "remove"}
Answers == {"200", "404", "409", "500"}

\* A deleted customer keeps, for the properties, what it last held.
CustomerDocs == [status : {"none", "live", "deleted"}, balance : Int, limit : Nat]
Unused == [status |-> "none", balance |-> 0, limit |-> 0]

TypeOK ==
    /\ customers \in [Customers -> CustomerDocs]
    /\ movements \subseteq Records
    /\ pc \in [Requests -> {"new"} \cup Awaits \cup Answers]
    /\ call \in [Requests -> Calls \cup {NoCall}]
    /\ \A r \in Requests : pc[r] # "new" => call[r] \in Calls
    /\ \A r \in Requests : pc[r] \in {"adjust", "insert"} => call[r] \in Movements
    /\ doc \in [Requests -> CustomerDocs]
    /\ applied \subseteq Requests
    /\ overtaken \subseteq Requests
    /\ warned \subseteq Requests
-----------------------------------------------------------------------------
(***************************************************************************)
(* The database may start with customers that owe nothing.                 *)
(***************************************************************************)
Init ==
    /\ customers \in [Customers ->
            {Unused} \cup [status : {"live"}, balance : {0}, limit : Limits]]
    /\ movements = {}
    /\ pc = [r \in Requests |-> "new"]
    /\ call = [r \in Requests |-> NoCall]
    /\ doc = [r \in Requests |-> Unused]
    /\ applied = {}
    /\ overtaken = {}
    /\ warned = {}

Live(c) == customers[c].status = "live"
MoveTo(r, where) == pc' = [pc EXCEPT ![r] = where]

\* The last write is done: 200, or 500 when its reply never came.
Reply(r) == \E answer \in {"200", "500"} : MoveTo(r, answer)

\* What a movement adds to the balance.
Delta(k) == IF k.type = "charge" THEN k.value ELSE -k.value

\* Mutants of Refused: one of the two checks is forgotten.
RefusedPaymentUnchecked(k, d) == k.type = "delete" /\ d.balance # 0
RefusedDeleteUnchecked(k, d) == k.type = "payment" /\ k.value > d.balance

\* The checks record_movement and delete make on the document they have read.
Refused(k, d) ==
    \/ k.type = "payment" /\ k.value > d.balance
    \/ k.type = "delete" /\ d.balance # 0

\* Mutants of FirstWrite: the history is written before the balance; an edit
\* goes through adjust_balance.
FirstWriteHistory == [charge |-> "insert", payment |-> "insert",
                      update |-> "set", delete |-> "remove"]
FirstWriteEditAdjusts == [charge |-> "adjust", payment |-> "adjust",
                          update |-> "adjust", delete |-> "remove"]

FirstWrite == [charge |-> "adjust", payment |-> "adjust",
               update |-> "set", delete |-> "remove"]
-----------------------------------------------------------------------------
(***************************************************************************)
(* POST /customers: one insert, under an id nobody has seen.               *)
(***************************************************************************)
Create(r, k) ==
    /\ pc[r] = "new"
    /\ k.type = "create"
    /\ customers[k.customer].status = "none"
    /\ call' = [call EXCEPT ![r] = k]
    /\ customers' = [customers EXCEPT ![k.customer] =
                        [status |-> "live", balance |-> 0, limit |-> k.value]]
    /\ Reply(r)
    /\ UNCHANGED <<movements, doc, history>>

(***************************************************************************)
(* Every other operation first reads the customer: 404 when there is none, *)
(* 409 when a check on what was read fails, and otherwise on to its write. *)
(***************************************************************************)
Get(r, k) ==
    /\ pc[r] = "new"
    /\ k.type # "create"
    /\ call' = [call EXCEPT ![r] = k]
    /\ doc' = [doc EXCEPT ![r] = customers[k.customer]]
    /\ \/ ~Live(k.customer) /\ MoveTo(r, "404")
       \/ Live(k.customer) /\ Refused(k, customers[k.customer]) /\ MoveTo(r, "409")
       \/ /\ Live(k.customer)
          /\ ~Refused(k, customers[k.customer])
          /\ MoveTo(r, FirstWrite[k.type])
    /\ UNCHANGED <<customers, movements, history>>

\* The requests whose check no longer holds of the balance once r moves it:
\* a delete that read 0, and a payment when another payment is taken first.
OvertakenBy(r) ==
    {o \in Requests \ {r} :
        /\ pc[o] \in {"adjust", "remove"}
        /\ call[o].customer = call[r].customer
        /\ call[o].type = "delete" \/ (call[o].type = "payment" /\ call[r].type = "payment")}

\* Mutants of AdjustBalance: the new balance is computed from the document read
\* before; the document after the $inc is not kept.
AdjustBalanceFromRead(r) ==
    LET c == call[r].customer IN
    /\ pc[r] = "adjust"
    /\ Live(c)
    /\ customers' = [customers EXCEPT ![c].balance = doc[r].balance + Delta(call[r])]
    /\ doc' = [doc EXCEPT ![r] = customers'[c]]
    /\ applied' = applied \cup {r}
    /\ overtaken' = overtaken \cup OvertakenBy(r)
    /\ MoveTo(r, "insert")
    /\ UNCHANGED <<movements, call, warned>>

AdjustBalanceKeepsOldDoc(r) ==
    LET c == call[r].customer IN
    /\ pc[r] = "adjust"
    /\ Live(c)
    /\ customers' = [customers EXCEPT ![c].balance = @ + Delta(call[r])]
    /\ applied' = applied \cup {r}
    /\ overtaken' = overtaken \cup OvertakenBy(r)
    /\ MoveTo(r, "insert")
    /\ UNCHANGED <<movements, call, doc, warned>>

(***************************************************************************)
(* adjust_balance: one $inc, which returns the document after it.          *)
(***************************************************************************)
AdjustBalance(r) ==
    LET c == call[r].customer IN
    /\ pc[r] = "adjust"
    /\ \/ /\ ~Live(c)
          /\ MoveTo(r, "404")
          /\ UNCHANGED <<customers, doc, applied, overtaken>>
       \/ /\ Live(c)
          /\ customers' = [customers EXCEPT ![c].balance = @ + Delta(call[r])]
          /\ doc' = [doc EXCEPT ![r] = customers'[c]]
          /\ applied' = applied \cup {r}
          /\ overtaken' = overtaken \cup OvertakenBy(r)
          /\ MoveTo(r, "insert")
    /\ UNCHANGED <<movements, call, warned>>

\* `updated.balance > updated.credit_limit > 0`
OverLimit(r) ==
    /\ call[r].type = "charge"
    /\ doc[r].balance > doc[r].limit
    /\ doc[r].limit > 0

\* The CreditMovement of a request.
Record(r) == [id |-> r, type |-> call[r].type,
              customer |-> call[r].customer, value |-> call[r].value]

(***************************************************************************)
(* movements.create, then the events and the answer.                       *)
(***************************************************************************)
InsertMovement(r) ==
    /\ pc[r] = "insert"
    /\ movements' = movements \cup {Record(r)}
    /\ Reply(r)
    /\ warned' = IF OverLimit(r) /\ pc'[r] = "200" THEN warned \cup {r} ELSE warned
    /\ UNCHANGED <<customers, call, doc, applied, overtaken>>

\* Mutant of SetFields: the whole document that was read is written back.
SetFieldsReplaces(r) ==
    LET c == call[r].customer IN
    /\ pc[r] = "set"
    /\ Live(c)
    /\ customers' = [customers EXCEPT ![c].limit = call[r].value,
                                       ![c].balance = doc[r].balance]
    /\ Reply(r)
    /\ UNCHANGED <<movements, call, doc, history>>

(***************************************************************************)
(* update: $set of the fields that were sent, and of nothing else.         *)
(***************************************************************************)
SetFields(r) ==
    LET c == call[r].customer IN
    /\ pc[r] = "set"
    /\ \/ ~Live(c) /\ MoveTo(r, "404") /\ UNCHANGED customers
       \/ /\ Live(c)
          /\ customers' = [customers EXCEPT ![c].limit = call[r].value]
          /\ Reply(r)
    /\ UNCHANGED <<movements, call, doc, history>>

(***************************************************************************)
(* customers.delete: its result is not looked at.                          *)
(***************************************************************************)
Remove(r) ==
    LET c == call[r].customer IN
    /\ pc[r] = "remove"
    /\ customers' = [customers EXCEPT ![c].status = IF @ = "live" THEN "deleted" ELSE @]
    /\ Reply(r)
    /\ UNCHANGED <<movements, call, doc, history>>

(***************************************************************************)
(* A request that waits on the database is lost.  At "insert" this is also *)
(* the $inc whose reply never came.                                        *)
(***************************************************************************)
Fail(r) ==
    /\ pc[r] \in Awaits
    /\ MoveTo(r, "500")
    /\ UNCHANGED <<customers, movements, call, doc, history>>

Next ==
    \E r \in Requests :
        \/ \E k \in Calls : Create(r, k) \/ Get(r, k)
        \/ AdjustBalance(r)
        \/ InsertMovement(r)
        \/ SetFields(r)
        \/ Remove(r)
        \/ Fail(r)

Spec == Init /\ [][Next]_vars
-----------------------------------------------------------------------------
IsMovement(r) == pc[r] # "new" /\ call[r].type \in MovementTypes
Recorded == {m.id : m \in movements}

(***************************************************************************)
(* A movement answered 200 has been both added to the balance and written  *)
(* to the history; one answered 404 or 409 has done neither; and the       *)
(* history never holds a movement the balance has not seen.                *)
(***************************************************************************)
AnswersAreTruthful ==
    /\ \A r \in Requests : IsMovement(r) /\ pc[r] = "200" => r \in applied \cap Recorded
    /\ \A r \in applied \cup Recorded : pc[r] \notin {"404", "409"}
    /\ Recorded \subseteq applied

(***************************************************************************)
(* The balance is a cache of the movement history.  At every moment it is  *)
(* the sum of the history and of the movements that are on their way to it *)
(* or were lost on the way (the request died between its two writes).      *)
(***************************************************************************)
HistoryOf(c) == {m \in movements : m.customer = c}
Unrecorded(c) == {r \in applied \ Recorded : call[r].customer = c}

HistoryTotal(c) == SumFunctionOnSet([m \in movements |-> Delta(m)], HistoryOf(c))
UnrecordedTotal(c) == SumFunctionOnSet([r \in applied |-> Delta(call[r])], Unrecorded(c))

BalanceIsHistoryPlusUnrecorded ==
    \A c \in Customers :
        /\ customers[c].balance = HistoryTotal(c) + UnrecordedTotal(c)
        /\ \A r \in Unrecorded(c) : pc[r] \in {"insert", "500"}

(***************************************************************************)
(* The one way to a negative balance: two payments of the same customer    *)
(* were checked against a balance that the other one then reduced.         *)
(***************************************************************************)
OverdraftNeedsOvertaking ==
    \A c \in Customers : customers[c].balance < 0 =>
        \E r \in overtaken \cap applied :
            call[r].type = "payment" /\ call[r].customer = c

(***************************************************************************)
(* The one way to delete a customer that owes (or is owed) something: a    *)
(* movement came between the check of the balance and the delete.          *)
(***************************************************************************)
DebtDeletedNeedsOvertaking ==
    \A c \in Customers : customers[c].status = "deleted" /\ customers[c].balance # 0 =>
        \E r \in overtaken : call[r].type = "delete" /\ call[r].customer = c

(***************************************************************************)
(* When a customer whose limit nobody edits is over it, and no movement of *)
(* theirs is unfinished or failed, some charge has logged the warning,     *)
(* however the charges interleaved.                                        *)
(***************************************************************************)
OverLimitWasWarned ==
    \A c \in Customers :
        /\ customers[c].balance > customers[c].limit
        /\ customers[c].limit > 0
        /\ \A r \in Requests : pc[r] # "new" /\ call[r].customer = c =>
                call[r].type # "update" /\ pc[r] \notin {"insert", "500"}
        => \E r \in warned : call[r].customer = c

(***************************************************************************)
(* Whatever interleaves and whatever dies, the accounts are a ledger: a    *)
(* balance moves only by a movement, once, and never back (an edit writes  *)
(* no balance); the history records what was posted; an answer is kept.    *)
(***************************************************************************)
AnsweredWith(answers) == {r \in Requests : IsMovement(r) /\ pc[r] \in answers}

Promise == INSTANCE Ledger WITH
    Ids <- Requests, Amount <- Delta,
    accounts <- [c \in Customers |-> customers[c].status],
    balance <- [c \in Customers |-> customers[c].balance],
    posted <- {Record(r) : r \in applied},
    written <- movements,
    confirmed <- AnsweredWith({"200"}),
    refused <- AnsweredWith({"404", "409"})

ImplementsLedger == Promise!Spec

(***************************************************************************)
(* The inductive invariant behind the properties above (proved in          *)
(* CustomerCredit_proofs): what each await knows of its own request, and   *)
(* that a check which nothing has overtaken still holds.                   *)
(***************************************************************************)
AwaitsKnowTheirCall ==
    \A r \in Requests :
        /\ pc[r] = "set" => call[r].type = "update"
        /\ pc[r] = "remove" => call[r].type = "delete"
        /\ pc[r] = "insert" => r \in applied
        /\ r \in applied => pc[r] \in {"insert", "200", "500"}
        /\ r \in overtaken => pc[r] # "new"

UnusedOwesNothing ==
    \A c \in Customers : customers[c].status = "none" => customers[c].balance = 0

ChecksHoldUnlessOvertaken ==
    \A r \in Requests \ overtaken :
        /\ pc[r] = "adjust" /\ call[r].type = "payment" =>
                customers[call[r].customer].balance >= call[r].value
        /\ pc[r] = "remove" => customers[call[r].customer].balance = 0

IInv ==
    /\ TypeOK
    /\ AwaitsKnowTheirCall
    /\ UnusedOwesNothing
    /\ ChecksHoldUnlessOvertaken
    /\ AnswersAreTruthful
    /\ OverdraftNeedsOvertaking
    /\ DebtDeletedNeedsOvertaking

(***************************************************************************)
(* "Un abono nunca deja el saldo en negativo" (record_movement).           *)
(***************************************************************************)
PaymentNeverOverdraws == \A c \in Customers : Live(c) => customers[c].balance >= 0

(***************************************************************************)
(* "No se puede eliminar un cliente con saldo pendiente" (README, 0.6.0).  *)
(***************************************************************************)
NoDebtorDeleted ==
    \A c \in Customers : customers[c].status = "deleted" => customers[c].balance = 0
=============================================================================
