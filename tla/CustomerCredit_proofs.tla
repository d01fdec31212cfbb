----------------------- MODULE CustomerCredit_proofs ------------------------
(***************************************************************************)
(* Proofs about CustomerCredit, for any set of requests and customers and  *)
(* any amounts and limits.                                                 *)
(***************************************************************************)
EXTENDS CustomerCredit, FiniteSetTheorems, TLAPS

USE DEF MoveTo, Reply, MovementTypes, Awaits, Answers, CustomerDocs, Unused, Records

(***************************************************************************)
(* Every variable keeps its type, and a request that waits at one of the   *)
(* two writes of a movement asks for a movement.                           *)
(***************************************************************************)
LEMMA DeltaIsInt == \A k \in Movements : Delta(k) \in Int
<1> TAKE k \in Movements
<1>1. k.value \in Nat
  BY AmountsArePositive DEF Movements
<1> QED BY <1>1 DEF Delta

LEMMA TypeInit == ASSUME Init PROVE TypeOK
<1>1. ASSUME NEW c \in Customers PROVE customers[c] \in CustomerDocs
  <2>1. customers[c] \in {Unused} \cup [status : {"live"}, balance : {0}, limit : Limits]
    BY DEF Init
  <2>2. CASE customers[c] = Unused
    BY <2>2
  <2>3. CASE customers[c] \in [status : {"live"}, balance : {0}, limit : Limits]
    <3>1. PICK l \in Limits : customers[c] = [status |-> "live", balance |-> 0, limit |-> l]
      BY <2>3
    <3> QED BY <3>1, LimitsAreNatural
  <2> QED BY <2>1, <2>2, <2>3
<1>2. customers \in [Customers -> CustomerDocs]
  <2>1. customers = [c \in Customers |-> customers[c]]
    BY DEF Init
  <2> QED BY <1>1, <2>1
<1> QED BY <1>2 DEF Init, TypeOK

LEMMA TypeStep == ASSUME TypeOK, [Next]_vars PROVE TypeOK'
<1> USE DEF TypeOK
<1>1. ASSUME NEW r \in Requests, NEW k \in Calls, Create(r, k) PROVE TypeOK'
  <2>1. k \in Edits /\ k.customer \in Customers /\ k.value \in Nat
    BY <1>1, LimitsAreNatural DEF Create, Calls, Movements, Edits, Removals
  <2>2. customers' \in [Customers -> CustomerDocs]
    BY <1>1, <2>1 DEF Create
  <2> QED BY <1>1, <2>1, <2>2 DEF Create, history
<1>2. ASSUME NEW r \in Requests, NEW k \in Calls, Get(r, k) PROVE TypeOK'
  BY <1>2 DEF Get, history, FirstWrite, Calls, Movements, Edits, Removals
<1>3. ASSUME NEW r \in Requests, AdjustBalance(r) PROVE TypeOK'
  <2>1. call[r] \in Movements /\ Delta(call[r]) \in Int
    BY <1>3, DeltaIsInt DEF AdjustBalance
  <2>2. OvertakenBy(r) \subseteq Requests
    BY DEF OvertakenBy
  <2>3. customers' \in [Customers -> CustomerDocs]
    BY <1>3, <2>1 DEF AdjustBalance, Movements
  <2>4. doc' \in [Requests -> CustomerDocs]
    BY <1>3, <2>1, <2>3 DEF AdjustBalance, Movements
  <2> QED BY <1>3, <2>1, <2>2, <2>3, <2>4 DEF AdjustBalance
<1>4. ASSUME NEW r \in Requests, InsertMovement(r) PROVE TypeOK'
  <2>1. call[r] \in Movements
    BY <1>4 DEF InsertMovement
  <2>2. Record(r) \in Records
    BY <2>1 DEF Record, Movements
  <2> QED BY <1>4, <2>2 DEF InsertMovement
<1>5. ASSUME NEW r \in Requests, SetFields(r) PROVE TypeOK'
  <2>1. ASSUME Live(call[r].customer)
        PROVE  call[r].customer \in Customers /\ call[r].value \in Nat
    BY <1>5, AmountsArePositive, LimitsAreNatural
    DEF SetFields, Calls, Movements, Edits, Removals
  <2>2. customers' \in [Customers -> CustomerDocs]
    BY <1>5, <2>1 DEF SetFields
  <2>3. \E where \in Answers : MoveTo(r, where)
    BY <1>5 DEF SetFields
  <2>4. /\ movements' = movements /\ call' = call /\ doc' = doc
        /\ applied' = applied /\ overtaken' = overtaken /\ warned' = warned
    BY <1>5 DEF SetFields, history
  <2>5. pc' \in [Requests -> {"new"} \cup Awaits \cup Answers]
    BY <2>3
  <2>6. \A q \in Requests : pc'[q] # pc[q] => q = r /\ pc'[q] \in Answers
    BY <2>3
  <2> QED BY <1>5, <2>2, <2>4, <2>5, <2>6 DEF SetFields
<1>6. ASSUME NEW r \in Requests, Remove(r) PROVE TypeOK'
  <2>1. customers' \in [Customers -> CustomerDocs]
    <3> DEFINE c == call[r].customer
               new == IF customers[c].status = "live" THEN "deleted" ELSE customers[c].status
    <3>1. customers' = [customers EXCEPT ![c] = [customers[c] EXCEPT !.status = new]]
      BY <1>6 DEF Remove
    <3>2. ASSUME c \in Customers PROVE [customers[c] EXCEPT !.status = new] \in CustomerDocs
      BY <3>2
    <3> HIDE DEF c, new
    <3> QED BY <3>1, <3>2
  <2>2. pc' \in [Requests -> {"new"} \cup Awaits \cup Answers]
    BY <1>6 DEF Remove
  <2>3. \A q \in Requests : pc'[q] # pc[q] => pc[q] = "remove" /\ pc'[q] \in Answers
    BY <1>6 DEF Remove
  <2> QED BY <1>6, <2>1, <2>2, <2>3 DEF Remove, history
<1>7. ASSUME NEW r \in Requests, Fail(r) PROVE TypeOK'
  BY <1>7 DEF Fail, history
<1>8. CASE UNCHANGED vars
  BY <1>8 DEF vars
<1> QED BY <1>1, <1>2, <1>3, <1>4, <1>5, <1>6, <1>7, <1>8 DEF Next

THEOREM TypeCorrect == Spec => []TypeOK
  BY TypeInit, TypeStep, PTL DEF Spec

(***************************************************************************)
(* Two consequences of the types that every step below needs: where the    *)
(* customer of a request is, and what a step leaves alone.  Only Create    *)
(* and AdjustBalance write a balance, and what Create writes is the 0 that *)
(* an unused id already stands for.                                        *)
(***************************************************************************)
LEMMA MovementFields ==
    ASSUME TypeOK, NEW r \in Requests, call[r] \in Movements
    PROVE  /\ call[r].customer \in Customers
           /\ call[r].type \in MovementTypes
           /\ call[r].value \in Nat \ {0}
  BY AmountsArePositive DEF Movements

LEMMA CreateKeepsBalances ==
    ASSUME TypeOK, UnusedOwesNothing, NEW r \in Requests, NEW k \in Calls, Create(r, k)
    PROVE  /\ \A c \in Customers : customers'[c].balance = customers[c].balance
           /\ \A c \in Customers : customers'[c].status = "deleted"
                                        => customers[c].status = "deleted"
           /\ UnusedOwesNothing'
  BY DEF TypeOK, UnusedOwesNothing, Create

LEMMA SetFieldsKeepsBalances ==
    ASSUME TypeOK, UnusedOwesNothing, NEW r \in Requests, SetFields(r)
    PROVE  /\ \A c \in Customers : customers'[c].balance = customers[c].balance
           /\ \A c \in Customers : customers'[c].status = customers[c].status
           /\ UnusedOwesNothing'
<1>1. \A c \in Customers : /\ customers'[c].balance = customers[c].balance
                           /\ customers'[c].status = customers[c].status
  BY DEF TypeOK, SetFields
<1> QED BY <1>1 DEF UnusedOwesNothing

LEMMA RemoveKeepsBalances ==
    ASSUME TypeOK, UnusedOwesNothing, NEW r \in Requests, Remove(r)
    PROVE  /\ \A c \in Customers : customers'[c].balance = customers[c].balance
           /\ \A c \in Customers : customers'[c].status # customers[c].status
                                        => c = call[r].customer
           /\ UnusedOwesNothing'
<1>1. \A c \in Customers : /\ customers'[c].balance = customers[c].balance
                           /\ customers'[c].status # customers[c].status
                                    => c = call[r].customer
                           /\ customers'[c].status = "none" => customers[c].status = "none"
  BY DEF TypeOK, Remove
<1> QED BY <1>1 DEF UnusedOwesNothing

LEMMA CallFields ==
    ASSUME NEW k \in Calls PROVE k.customer \in Customers /\ k.value \in Nat
<1>1. CASE k \in Movements
  BY <1>1, AmountsArePositive DEF Movements
<1>2. CASE k \in Edits
  BY <1>2, LimitsAreNatural DEF Edits
<1>3. CASE k \in Removals
  BY <1>3 DEF Removals
<1> QED BY <1>1, <1>2, <1>3 DEF Calls

\* A movement moves the balance of its own, live customer, by its amount.
LEMMA AdjustMovesOneBalance ==
    ASSUME TypeOK, UnusedOwesNothing, NEW r \in Requests, AdjustBalance(r)
    PROVE  /\ call[r].customer \in Customers
           /\ Live(call[r].customer) =>
                /\ customers'[call[r].customer].balance
                        = customers[call[r].customer].balance + Delta(call[r])
                /\ applied' = applied \cup {r}
                /\ overtaken' = overtaken \cup OvertakenBy(r)
           /\ ~Live(call[r].customer) => UNCHANGED <<customers, applied, overtaken>>
           /\ \A c \in Customers \ {call[r].customer} : customers'[c] = customers[c]
           /\ \A c \in Customers : customers'[c].status = customers[c].status
           /\ UnusedOwesNothing'
<1> DEFINE c == call[r].customer
<1>1. call[r] \in Movements
  BY DEF TypeOK, AdjustBalance
<1>2. c \in Customers
  BY <1>1, MovementFields
<1>3. CASE ~Live(c)
  BY <1>2, <1>3 DEF AdjustBalance, UnusedOwesNothing
<1>4. CASE Live(c)
  <2>1. /\ customers' = [customers EXCEPT ![c].balance = @ + Delta(call[r])]
        /\ applied' = applied \cup {r}
        /\ overtaken' = overtaken \cup OvertakenBy(r)
    BY <1>4 DEF AdjustBalance
  <2>2. /\ customers'[c].balance = customers[c].balance + Delta(call[r])
        /\ \A d \in Customers \ {c} : customers'[d] = customers[d]
        /\ \A d \in Customers : customers'[d].status = customers[d].status
    BY <1>2, <2>1 DEF TypeOK
  <2>3. UnusedOwesNothing'
    BY <1>4, <2>2 DEF UnusedOwesNothing, Live
  <2> QED BY <1>2, <1>4, <2>1, <2>2, <2>3
<1> QED BY <1>3, <1>4

(***************************************************************************)
(* The inductive invariant.                                                *)
(***************************************************************************)
LEMMA InvInit == ASSUME Init PROVE IInv
<1>1. \A c \in Customers : customers[c].balance = 0 /\ customers[c].status # "deleted"
  <2> TAKE c \in Customers
  <2>1. customers[c] \in {Unused} \cup [status : {"live"}, balance : {0}, limit : Limits]
    BY DEF Init
  <2> QED BY <2>1
<1>2. TypeOK
  BY TypeInit
<1>3. AwaitsKnowTheirCall /\ ChecksHoldUnlessOvertaken
  BY DEF Init, AwaitsKnowTheirCall, ChecksHoldUnlessOvertaken
<1>4. UnusedOwesNothing /\ OverdraftNeedsOvertaking /\ DebtDeletedNeedsOvertaking
  BY <1>1 DEF UnusedOwesNothing, OverdraftNeedsOvertaking, DebtDeletedNeedsOvertaking
<1>5. AnswersAreTruthful
  BY DEF Init, AnswersAreTruthful, Recorded, IsMovement
<1> QED BY <1>2, <1>3, <1>4, <1>5 DEF IInv

(***************************************************************************)
(* A step that moves no balance, applies nothing and overtakes nothing     *)
(* keeps what is said of overdrafts.                                       *)
(***************************************************************************)
LEMMA OverdraftFrame ==
    ASSUME OverdraftNeedsOvertaking,
           \A c \in Customers : customers'[c].balance = customers[c].balance,
           overtaken' = overtaken, applied' = applied,
           \A r \in applied : call'[r] = call[r]
    PROVE  OverdraftNeedsOvertaking'
  BY DEF OverdraftNeedsOvertaking

LEMMA CreateStep ==
    ASSUME IInv, TypeOK', NEW r \in Requests, NEW k \in Calls, Create(r, k)
    PROVE  IInv'
<1> USE DEF IInv
<1>1. /\ \A c \in Customers : customers'[c].balance = customers[c].balance
      /\ \A c \in Customers : customers'[c].status = "deleted" => customers[c].status = "deleted"
      /\ UnusedOwesNothing'
  BY CreateKeepsBalances
<1>2. /\ pc[r] = "new" /\ r \notin applied /\ r \notin overtaken /\ k.type = "create"
      /\ call' = [call EXCEPT ![r] = k]
      /\ pc' \in {[pc EXCEPT ![r] = "200"], [pc EXCEPT ![r] = "500"]}
      /\ movements' = movements /\ applied' = applied /\ overtaken' = overtaken
  BY DEF Create, history, AwaitsKnowTheirCall, TypeOK
<1>3. \A q \in Requests \ {r} : call'[q] = call[q] /\ pc'[q] = pc[q]
  BY <1>2 DEF TypeOK
<1>4. call'[r].type = "create" /\ pc'[r] \in {"200", "500"}
  BY <1>2 DEF TypeOK
<1>5. AwaitsKnowTheirCall'
  BY <1>2, <1>3, <1>4 DEF AwaitsKnowTheirCall
<1>6. ChecksHoldUnlessOvertaken'
  <2> SUFFICES ASSUME NEW q \in Requests \ overtaken, pc'[q] \in {"adjust", "remove"}
               PROVE  /\ pc'[q] = "adjust" /\ call'[q].type = "payment" =>
                            customers'[call'[q].customer].balance >= call'[q].value
                      /\ pc'[q] = "remove" => customers'[call'[q].customer].balance = 0
    BY <1>2 DEF ChecksHoldUnlessOvertaken
  <2>1. q # r /\ call'[q] = call[q] /\ pc'[q] = pc[q]
    BY <1>3, <1>4
  <2>2. call[q].customer \in Customers
    BY <2>1 DEF TypeOK, Calls, Movements, Edits, Removals
  <2> QED BY <1>1, <2>1, <2>2 DEF ChecksHoldUnlessOvertaken
<1>7. AnswersAreTruthful'
  BY <1>2, <1>3, <1>4 DEF AnswersAreTruthful, Recorded, IsMovement, TypeOK
<1>8. OverdraftNeedsOvertaking'
  BY <1>1, <1>2, <1>3, OverdraftFrame DEF TypeOK
<1>9. DebtDeletedNeedsOvertaking'
  BY <1>1, <1>2, <1>3 DEF DebtDeletedNeedsOvertaking, TypeOK
<1> QED BY <1>1, <1>5, <1>6, <1>7, <1>8, <1>9

LEMMA GetStep ==
    ASSUME IInv, TypeOK', NEW r \in Requests, NEW k \in Calls, Get(r, k)
    PROVE  IInv'
<1> USE DEF IInv
<1>1. /\ pc[r] = "new" /\ r \notin applied /\ r \notin overtaken /\ k.type # "create"
      /\ call' = [call EXCEPT ![r] = k]
      /\ customers' = customers /\ movements' = movements
      /\ applied' = applied /\ overtaken' = overtaken
  BY DEF Get, history, AwaitsKnowTheirCall, TypeOK
<1>2. /\ \A q \in Requests \ {r} : call'[q] = call[q] /\ pc'[q] = pc[q]
      /\ call'[r] = k
  BY <1>1 DEF TypeOK, Get
<1>3. /\ pc'[r] \in {"adjust", "set", "remove", "404", "409"}
      /\ pc'[r] \in {"adjust", "set", "remove"} => ~Refused(k, customers[k.customer])
      /\ pc'[r] = "adjust" => k.type \in MovementTypes
      /\ pc'[r] = "set" => k.type = "update"
      /\ pc'[r] = "remove" => k.type = "delete"
  <2>1. k.type \in {"charge", "payment", "update", "delete"}
    BY <1>1 DEF Calls, Movements, Edits, Removals
  <2>2. CASE MoveTo(r, "404") \/ MoveTo(r, "409")
    BY <2>2 DEF TypeOK
  <2>3. CASE MoveTo(r, FirstWrite[k.type]) /\ ~Refused(k, customers[k.customer])
    BY <2>1, <2>3 DEF TypeOK, FirstWrite
  <2> QED BY <2>2, <2>3 DEF Get
<1>4. k.customer \in Customers /\ customers[k.customer].balance \in Int /\ k.value \in Nat
  BY CallFields DEF TypeOK
<1>5. AwaitsKnowTheirCall'
  BY <1>1, <1>2, <1>3 DEF AwaitsKnowTheirCall
<1>6. ChecksHoldUnlessOvertaken'
  <2> SUFFICES ASSUME NEW q \in Requests \ overtaken, pc'[q] \in {"adjust", "remove"}
               PROVE  /\ pc'[q] = "adjust" /\ call'[q].type = "payment" =>
                            customers[call'[q].customer].balance >= call'[q].value
                      /\ pc'[q] = "remove" => customers[call'[q].customer].balance = 0
    BY <1>1 DEF ChecksHoldUnlessOvertaken
  <2>1. CASE q = r
    BY <2>1, <1>2, <1>3, <1>4 DEF Refused
  <2>2. CASE q # r
    BY <2>2, <1>2 DEF ChecksHoldUnlessOvertaken
  <2> QED BY <2>1, <2>2
<1>7. AnswersAreTruthful'
  <2>1. Recorded' = Recorded /\ r \notin Recorded
    BY <1>1 DEF Recorded, AnswersAreTruthful
  <2>2. \A q \in Requests : IsMovement(q)' /\ pc'[q] = "200" => q \in applied \cap Recorded
    BY <1>2, <1>3 DEF AnswersAreTruthful, IsMovement
  <2>3. \A q \in applied \cup Recorded : pc'[q] \notin {"404", "409"}
    BY <1>1, <1>2, <2>1 DEF AnswersAreTruthful, TypeOK
  <2> QED BY <1>1, <2>1, <2>2, <2>3 DEF AnswersAreTruthful
<1>8. UnusedOwesNothing'
  BY <1>1 DEF UnusedOwesNothing
<1>9. OverdraftNeedsOvertaking'
  BY <1>1, <1>2 DEF OverdraftNeedsOvertaking, TypeOK
<1>10. DebtDeletedNeedsOvertaking'
  BY <1>1, <1>2 DEF DebtDeletedNeedsOvertaking, TypeOK
<1> QED BY <1>5, <1>6, <1>7, <1>8, <1>9, <1>10

LEMMA AdjustStep ==
    ASSUME IInv, TypeOK', NEW r \in Requests, AdjustBalance(r)
    PROVE  IInv'
<1> USE DEF IInv
<1> DEFINE c == call[r].customer
<1>1. /\ pc[r] = "adjust" /\ call' = call /\ movements' = movements
      /\ call[r] \in Movements /\ r \notin applied
  BY DEF AdjustBalance, TypeOK, AwaitsKnowTheirCall
<1>2. c \in Customers /\ call[r].value \in Nat \ {0} /\ call[r].type \in MovementTypes
  BY <1>1, MovementFields
<1>3. /\ \A q \in Requests \ {r} : pc'[q] = pc[q]
      /\ pc'[r] = IF Live(c) THEN "insert" ELSE "404"
  BY DEF AdjustBalance, TypeOK
<1>4. Recorded' = Recorded /\ r \notin Recorded
  BY <1>1 DEF Recorded, AnswersAreTruthful
<1>5. CASE ~Live(c)
  <2>1. customers' = customers /\ applied' = applied /\ overtaken' = overtaken
    BY <1>5, AdjustMovesOneBalance
  <2>2. AwaitsKnowTheirCall' /\ ChecksHoldUnlessOvertaken'
    BY <1>1, <1>3, <1>5, <2>1 DEF AwaitsKnowTheirCall, ChecksHoldUnlessOvertaken
  <2>3. \A q \in Requests : IsMovement(q)' /\ pc'[q] = "200" => q \in applied \cap Recorded
    BY <1>1, <1>3, <1>5 DEF AnswersAreTruthful, IsMovement
  <2>4. \A q \in applied \cup Recorded : pc'[q] \notin {"404", "409"}
    BY <1>1, <1>3, <1>4 DEF AnswersAreTruthful, TypeOK
  <2>5. AnswersAreTruthful'
    BY <1>4, <2>1, <2>3, <2>4 DEF AnswersAreTruthful
  <2>6. UnusedOwesNothing' /\ OverdraftNeedsOvertaking' /\ DebtDeletedNeedsOvertaking'
    BY <1>1, <2>1 DEF UnusedOwesNothing, OverdraftNeedsOvertaking, DebtDeletedNeedsOvertaking
  <2> QED BY <2>2, <2>5, <2>6
<1>6. CASE Live(c)
  <2>1. /\ customers'[c].balance = customers[c].balance + Delta(call[r])
        /\ applied' = applied \cup {r}
        /\ overtaken' = overtaken \cup OvertakenBy(r)
        /\ \A d \in Customers \ {c} : customers'[d] = customers[d]
        /\ \A d \in Customers : customers'[d].status = customers[d].status
        /\ UnusedOwesNothing'
    BY <1>6, AdjustMovesOneBalance
  <2>2. AwaitsKnowTheirCall'
    BY <1>1, <1>3, <1>6, <2>1 DEF AwaitsKnowTheirCall, OvertakenBy
  <2>3. AnswersAreTruthful'
    <3>1. \A q \in Requests : IsMovement(q)' /\ pc'[q] = "200" => q \in applied \cap Recorded
      BY <1>1, <1>3, <1>6 DEF AnswersAreTruthful, IsMovement
    <3>2. \A q \in applied \cup Recorded \cup {r} : pc'[q] \notin {"404", "409"}
      BY <1>3, <1>6 DEF AnswersAreTruthful, TypeOK
    <3> QED BY <1>4, <2>1, <3>1, <3>2 DEF AnswersAreTruthful
  <2>4. customers[c].balance \in Int /\ call[r].value > 0
    BY <1>2 DEF TypeOK
  <2>5. ChecksHoldUnlessOvertaken'
    <3> SUFFICES ASSUME NEW q \in Requests, q \notin overtaken', pc'[q] \in {"adjust", "remove"}
                 PROVE  /\ pc'[q] = "adjust" /\ call[q].type = "payment" =>
                              customers'[call[q].customer].balance >= call[q].value
                        /\ pc'[q] = "remove" => customers'[call[q].customer].balance = 0
      BY <1>1 DEF ChecksHoldUnlessOvertaken
    <3>1. q # r /\ pc'[q] = pc[q] /\ q \notin overtaken /\ q \notin OvertakenBy(r)
      BY <1>3, <1>6, <2>1
    <3>2. call[q].customer \in Customers /\ call[q].value \in Nat
      <4>1. call[q] \in Calls
        BY <3>1 DEF TypeOK
      <4> QED BY <4>1, CallFields
    <3>3. CASE call[q].customer # c
      BY <2>1, <3>1, <3>2, <3>3 DEF ChecksHoldUnlessOvertaken
    <3>4. CASE call[q].customer = c
      <4>1. pc[q] = "adjust" /\ (call[q].type = "payment" => call[r].type = "charge")
        BY <1>2, <3>1, <3>4 DEF OvertakenBy, AwaitsKnowTheirCall
      <4>2. ASSUME call[q].type = "payment" PROVE customers'[c].balance >= call[q].value
        <5>1. customers[c].balance >= call[q].value
          BY <3>1, <3>4, <4>1, <4>2 DEF ChecksHoldUnlessOvertaken
        <5> QED BY <2>1, <2>4, <3>2, <4>1, <4>2, <5>1, <1>2 DEF Delta
      <4> QED BY <3>1, <3>4, <4>1, <4>2
    <3> QED BY <3>3, <3>4
  <2>6. OverdraftNeedsOvertaking'
    <3> SUFFICES ASSUME NEW d \in Customers, customers'[d].balance < 0
                 PROVE  \E q \in overtaken' \cap applied' :
                            call[q].type = "payment" /\ call[q].customer = d
      BY <1>1 DEF OverdraftNeedsOvertaking
    <3>1. CASE customers[d].balance < 0
      BY <2>1, <3>1 DEF OverdraftNeedsOvertaking
    <3>2. CASE ~(customers[d].balance < 0)
      <4>1. d = c
        BY <2>1, <3>2
      <4>2. call[r].type = "payment" /\ customers[c].balance < call[r].value
        BY <1>2, <2>1, <2>4, <3>2, <4>1 DEF Delta
      <4>3. r \in overtaken
        BY <1>1, <1>2, <2>4, <4>2 DEF ChecksHoldUnlessOvertaken
      <4> QED BY <2>1, <4>1, <4>2, <4>3
    <3> QED BY <3>1, <3>2
  <2>7. DebtDeletedNeedsOvertaking'
    <3>1. customers[c].status # "deleted"
      BY <1>6 DEF Live
    <3> QED BY <1>1, <2>1, <3>1 DEF DebtDeletedNeedsOvertaking
  <2> QED BY <2>1, <2>2, <2>3, <2>5, <2>6, <2>7
<1> QED BY <1>5, <1>6

(***************************************************************************)
(* What remains of a request when it is over changes no balance.           *)
(***************************************************************************)
LEMMA InsertStep ==
    ASSUME IInv, TypeOK', NEW r \in Requests, InsertMovement(r)
    PROVE  IInv'
<1> USE DEF IInv
<1>1. /\ pc[r] = "insert" /\ r \in applied /\ call' = call
      /\ customers' = customers /\ applied' = applied /\ overtaken' = overtaken
  BY DEF InsertMovement, AwaitsKnowTheirCall
<1>2. /\ \A q \in Requests \ {r} : pc'[q] = pc[q]
      /\ pc'[r] \in {"200", "500"}
  BY DEF InsertMovement, TypeOK
<1>3. Recorded' = Recorded \cup {r}
  <2> DEFINE m == Record(r)
  <2>1. movements' = movements \cup {m} /\ m.id = r
    BY DEF InsertMovement, Record
  <2> HIDE DEF m
  <2> QED BY <2>1 DEF Recorded
<1>4. AwaitsKnowTheirCall' /\ ChecksHoldUnlessOvertaken'
  BY <1>1, <1>2 DEF AwaitsKnowTheirCall, ChecksHoldUnlessOvertaken
<1>5. AnswersAreTruthful'
  <2>1. \A q \in Requests : IsMovement(q)' /\ pc'[q] = "200" => q \in applied \cap Recorded'
    BY <1>1, <1>2, <1>3 DEF AnswersAreTruthful, IsMovement
  <2>2. \A q \in applied \cup Recorded' : pc'[q] \notin {"404", "409"}
    BY <1>1, <1>2, <1>3 DEF AnswersAreTruthful, TypeOK
  <2> QED BY <1>1, <1>3, <2>1, <2>2 DEF AnswersAreTruthful
<1>6. UnusedOwesNothing' /\ OverdraftNeedsOvertaking' /\ DebtDeletedNeedsOvertaking'
  BY <1>1 DEF UnusedOwesNothing, OverdraftNeedsOvertaking, DebtDeletedNeedsOvertaking
<1> QED BY <1>4, <1>5, <1>6

LEMMA AnswersFrame ==
    ASSUME IInv, NEW r \in Requests, ~IsMovement(r) \/ pc'[r] = "500",
           call' = call, movements' = movements, applied' = applied,
           pc[r] \in Awaits, pc'[r] \in Answers,
           r \notin applied \/ pc'[r] = "500",
           \A q \in Requests \ {r} : pc'[q] = pc[q]
    PROVE  AnswersAreTruthful'
<1> USE DEF IInv
<1>1. Recorded' = Recorded
  BY DEF Recorded
<1>2. \A q \in Requests : IsMovement(q)' /\ pc'[q] = "200" => q \in applied \cap Recorded
  BY DEF AnswersAreTruthful, IsMovement
<1>3. \A q \in applied \cup Recorded : pc'[q] \notin {"404", "409"}
  BY DEF AnswersAreTruthful, TypeOK
<1> QED BY <1>1, <1>2, <1>3 DEF AnswersAreTruthful

LEMMA SetFieldsStep ==
    ASSUME IInv, TypeOK', NEW r \in Requests, SetFields(r)
    PROVE  IInv'
<1> USE DEF IInv
<1>1. /\ pc[r] = "set" /\ call[r].type = "update" /\ r \notin applied
      /\ call' = call /\ movements' = movements
      /\ applied' = applied /\ overtaken' = overtaken
  BY DEF SetFields, history, AwaitsKnowTheirCall
<1>2. /\ \A q \in Requests \ {r} : pc'[q] = pc[q]
      /\ pc'[r] \in Answers
  BY DEF SetFields, TypeOK
<1>3. /\ \A c \in Customers : customers'[c].balance = customers[c].balance
      /\ \A c \in Customers : customers'[c].status = customers[c].status
      /\ UnusedOwesNothing'
  BY SetFieldsKeepsBalances
<1>4. \A q \in Requests : pc[q] # "new" => call[q].customer \in Customers
  BY CallFields DEF TypeOK
<1>5. AwaitsKnowTheirCall'
  BY <1>1, <1>2 DEF AwaitsKnowTheirCall
<1>6. ChecksHoldUnlessOvertaken'
  BY <1>1, <1>2, <1>3, <1>4 DEF ChecksHoldUnlessOvertaken
<1>7. AnswersAreTruthful'
  BY <1>1, <1>2, AnswersFrame DEF IsMovement
<1>8. OverdraftNeedsOvertaking' /\ DebtDeletedNeedsOvertaking'
  BY <1>1, <1>3 DEF OverdraftNeedsOvertaking, DebtDeletedNeedsOvertaking
<1> QED BY <1>3, <1>5, <1>6, <1>7, <1>8

LEMMA RemoveStep ==
    ASSUME IInv, TypeOK', NEW r \in Requests, Remove(r)
    PROVE  IInv'
<1> USE DEF IInv
<1>1. /\ pc[r] = "remove" /\ call[r].type = "delete" /\ r \notin applied
      /\ call' = call /\ movements' = movements
      /\ applied' = applied /\ overtaken' = overtaken
  BY DEF Remove, history, AwaitsKnowTheirCall
<1>2. /\ \A q \in Requests \ {r} : pc'[q] = pc[q]
      /\ pc'[r] \in {"200", "500"}
  BY DEF Remove, TypeOK
<1>3. /\ \A c \in Customers : customers'[c].balance = customers[c].balance
      /\ \A c \in Customers : customers'[c].status # customers[c].status
                                    => c = call[r].customer
      /\ UnusedOwesNothing'
  BY RemoveKeepsBalances
<1>4. \A q \in Requests : pc[q] # "new" => call[q].customer \in Customers
  BY CallFields DEF TypeOK
<1>5. AwaitsKnowTheirCall'
  BY <1>1, <1>2 DEF AwaitsKnowTheirCall
<1>6. ChecksHoldUnlessOvertaken'
  BY <1>1, <1>2, <1>3, <1>4 DEF ChecksHoldUnlessOvertaken
<1>7. AnswersAreTruthful'
  BY <1>1, <1>2, AnswersFrame DEF IsMovement
<1>8. OverdraftNeedsOvertaking'
  BY <1>1, <1>3 DEF OverdraftNeedsOvertaking
<1>9. DebtDeletedNeedsOvertaking'
  <2>1. r \notin overtaken => customers[call[r].customer].balance = 0
    BY <1>1 DEF ChecksHoldUnlessOvertaken
  <2> QED BY <1>1, <1>3, <2>1 DEF DebtDeletedNeedsOvertaking
<1> QED BY <1>3, <1>5, <1>6, <1>7, <1>8, <1>9

LEMMA FailStep ==
    ASSUME IInv, TypeOK', NEW r \in Requests, Fail(r)
    PROVE  IInv'
<1> USE DEF IInv
<1>1. /\ pc[r] \in Awaits /\ call' = call /\ movements' = movements
      /\ customers' = customers /\ applied' = applied /\ overtaken' = overtaken
  BY DEF Fail, history
<1>2. /\ \A q \in Requests \ {r} : pc'[q] = pc[q]
      /\ pc'[r] = "500"
  BY DEF Fail, TypeOK
<1>3. AwaitsKnowTheirCall' /\ ChecksHoldUnlessOvertaken'
  BY <1>1, <1>2 DEF AwaitsKnowTheirCall, ChecksHoldUnlessOvertaken
<1>4. AnswersAreTruthful'
  BY <1>1, <1>2, AnswersFrame
<1>5. UnusedOwesNothing' /\ OverdraftNeedsOvertaking' /\ DebtDeletedNeedsOvertaking'
  BY <1>1 DEF UnusedOwesNothing, OverdraftNeedsOvertaking, DebtDeletedNeedsOvertaking
<1> QED BY <1>3, <1>4, <1>5

LEMMA InvStep == ASSUME IInv, [Next]_vars PROVE IInv'
<1>1. TypeOK'
  BY TypeStep DEF IInv
<1>2. CASE UNCHANGED vars
  <2> USE <1>2 DEF vars
  <2>1. AwaitsKnowTheirCall' /\ UnusedOwesNothing' /\ ChecksHoldUnlessOvertaken'
    BY DEF IInv, AwaitsKnowTheirCall, UnusedOwesNothing, ChecksHoldUnlessOvertaken
  <2>2. AnswersAreTruthful'
    BY DEF IInv, AnswersAreTruthful, Recorded, IsMovement
  <2>3. OverdraftNeedsOvertaking' /\ DebtDeletedNeedsOvertaking'
    BY DEF IInv, OverdraftNeedsOvertaking, DebtDeletedNeedsOvertaking
  <2> QED BY <1>1, <2>1, <2>2, <2>3 DEF IInv
<1> QED BY <1>1, <1>2, CreateStep, GetStep, AdjustStep, InsertStep, SetFieldsStep,
           RemoveStep, FailStep DEF Next

THEOREM InvariantHolds == Spec => []IInv
  BY InvInit, InvStep, PTL DEF Spec

(***************************************************************************)
(* What an answer says of a movement is what happened to it.               *)
(***************************************************************************)
THEOREM AnswersCorrect == Spec => []AnswersAreTruthful
<1>1. IInv => AnswersAreTruthful
  BY DEF IInv
<1> QED BY <1>1, InvariantHolds, PTL

(***************************************************************************)
(* A negative balance takes two racing payments of the same customer.      *)
(***************************************************************************)
THEOREM OverdraftCorrect == Spec => []OverdraftNeedsOvertaking
<1>1. IInv => OverdraftNeedsOvertaking
  BY DEF IInv
<1> QED BY <1>1, InvariantHolds, PTL

(***************************************************************************)
(* A customer deleted with a balance takes a movement inside the delete.   *)
(***************************************************************************)
THEOREM DebtDeletedCorrect == Spec => []DebtDeletedNeedsOvertaking
<1>1. IInv => DebtDeletedNeedsOvertaking
  BY DEF IInv
<1> QED BY <1>1, InvariantHolds, PTL

(***************************************************************************)
(* A customer that is over an unedited limit is noticed by somebody.  The  *)
(* property the runs check speaks of quiet states only; between them the   *)
(* charge that saw the limit passed may still have to write its movement,  *)
(* or may have died after its $inc.                                        *)
(***************************************************************************)
Over(c) == customers[c].balance > customers[c].limit /\ customers[c].limit > 0

LimitEdited(c) ==
    \E r \in Requests : pc[r] # "new" /\ call[r].customer = c /\ call[r].type = "update"

NoticedBy(r, c) ==
    /\ pc[r] # "new"
    /\ call[r].customer = c
    /\ \/ r \in warned
       \/ pc[r] = "500"
       \/ pc[r] = "insert" /\ OverLimit(r)

OverLimitIsNoticed ==
    \A c \in Customers : Over(c) /\ ~LimitEdited(c) => \E r \in Requests : NoticedBy(r, c)

\* Who has noticed does not forget it, and an edit is not undone.
LEMMA NoticeStays ==
    ASSUME TypeOK, TypeOK', [Next]_vars, NEW q \in Requests, NEW c \in Customers
    PROVE  /\ NoticedBy(q, c) => NoticedBy(q, c)'
           /\ LimitEdited(c) => LimitEdited(c)'
<1> DEFINE Kept(r) == pc[r] # "new" => pc'[r] # "new" /\ call'[r] = call[r]
<1>1. ASSUME NEW r \in Requests, NEW k \in Calls, Create(r, k) \/ Get(r, k)
      PROVE  /\ \A o \in Requests : Kept(o)
             /\ NoticedBy(q, c) => NoticedBy(q, c)'
  <2>1. /\ pc[r] = "new" /\ warned' = warned
        /\ \A o \in Requests \ {r} : pc'[o] = pc[o] /\ call'[o] = call[o] /\ doc'[o] = doc[o]
    BY <1>1 DEF Create, Get, history, TypeOK
  <2> QED BY <2>1 DEF NoticedBy, OverLimit
<1>2. ASSUME NEW r \in Requests,
             AdjustBalance(r) \/ SetFields(r) \/ Remove(r) \/ Fail(r)
      PROVE  /\ \A o \in Requests : Kept(o)
             /\ NoticedBy(q, c) => NoticedBy(q, c)'
  <2>1. /\ pc[r] \in Awaits /\ warned' = warned /\ call' = call
        /\ pc'[r] \in {"insert"} \cup Answers
        /\ \A o \in Requests \ {r} : pc'[o] = pc[o] /\ doc'[o] = doc[o]
    BY <1>2 DEF AdjustBalance, SetFields, Remove, Fail, history, TypeOK
  <2>2. pc[r] = "insert" => pc'[r] = "500"
    BY <1>2 DEF AdjustBalance, SetFields, Remove, Fail, TypeOK
  <2> QED BY <2>1, <2>2 DEF NoticedBy, OverLimit
<1>3. ASSUME NEW r \in Requests, InsertMovement(r)
      PROVE  /\ \A o \in Requests : Kept(o)
             /\ NoticedBy(q, c) => NoticedBy(q, c)'
  <2>1. /\ pc[r] = "insert" /\ pc'[r] \in {"200", "500"}
        /\ call' = call /\ doc' = doc
        /\ \A o \in Requests \ {r} : pc'[o] = pc[o]
        /\ warned' = IF OverLimit(r) /\ pc'[r] = "200" THEN warned \cup {r} ELSE warned
    BY <1>3 DEF InsertMovement, TypeOK
  <2> QED BY <2>1 DEF NoticedBy, OverLimit
<1>4. CASE UNCHANGED vars
  BY <1>4 DEF vars, NoticedBy, OverLimit, LimitEdited
<1>5. /\ \A o \in Requests : Kept(o)
      /\ NoticedBy(q, c) => NoticedBy(q, c)'
  BY <1>1, <1>2, <1>3, <1>4 DEF Next, vars
<1> QED BY <1>5 DEF LimitEdited

\* Whoever brings a customer over the limit notices it or has edited the limit.
LEMMA OverIsNoticedAtOnce ==
    ASSUME IInv, TypeOK', [Next]_vars, NEW c \in Customers, Over(c)', ~Over(c)
    PROVE  LimitEdited(c)' \/ \E r \in Requests : NoticedBy(r, c)'
<1> USE DEF IInv
<1>1. ASSUME NEW r \in Requests, NEW k \in Calls, Create(r, k) PROVE FALSE
  <2>1. /\ k.customer \in Customers /\ k.value \in Nat
        /\ customers' = [customers EXCEPT ![k.customer] =
                            [status |-> "live", balance |-> 0, limit |-> k.value]]
    BY <1>1, CallFields DEF Create
  <2> QED BY <2>1 DEF Over, TypeOK
<1>2. ASSUME NEW r \in Requests, AdjustBalance(r) PROVE NoticedBy(r, c)'
  <2>1. call[r] \in Movements /\ call' = call
    BY <1>2 DEF AdjustBalance, TypeOK
  <2>2. /\ call[r].customer = c /\ Live(c) /\ call[r].value \in Nat \ {0}
        /\ call[r].type \in MovementTypes
    BY <1>2, <2>1, AdjustMovesOneBalance, MovementFields DEF Over
  <2>3. /\ customers' = [customers EXCEPT ![c].balance = @ + Delta(call[r])]
        /\ doc' = [doc EXCEPT ![r] = customers'[c]]
        /\ pc' = [pc EXCEPT ![r] = "insert"]
    BY <1>2, <2>2 DEF AdjustBalance
  <2>4. /\ customers'[c].balance = customers[c].balance + Delta(call[r])
        /\ customers'[c].limit = customers[c].limit
        /\ customers[c].balance \in Int /\ customers[c].limit \in Nat
    BY <2>3 DEF TypeOK
  <2>5. doc'[r] = customers'[c] /\ pc'[r] = "insert"
    BY <2>3 DEF TypeOK
  <2>6. call[r].type = "charge"
    BY <2>2, <2>4 DEF Over, Delta
  <2> QED BY <2>1, <2>2, <2>5, <2>6 DEF NoticedBy, OverLimit, Over
<1>3. ASSUME NEW r \in Requests, SetFields(r) PROVE LimitEdited(c)'
  <2>1. pc[r] = "set" /\ call[r].type = "update" /\ call' = call /\ pc'[r] \in Answers
    BY <1>3 DEF SetFields, AwaitsKnowTheirCall, TypeOK
  <2>2. call[r].customer = c
    BY <1>3 DEF SetFields, Over, TypeOK
  <2> QED BY <2>1, <2>2 DEF LimitEdited
<1>4. ASSUME NEW r \in Requests, Remove(r) PROVE FALSE
  <2>1. customers'[c].balance = customers[c].balance /\ customers'[c].limit = customers[c].limit
    BY <1>4 DEF Remove, TypeOK
  <2> QED BY <2>1 DEF Over
<1>5. ASSUME NEW r \in Requests, NEW k \in Calls, Get(r, k) PROVE FALSE
  BY <1>5 DEF Get, Over
<1>6. ASSUME NEW r \in Requests, InsertMovement(r) \/ Fail(r) PROVE FALSE
  BY <1>6 DEF InsertMovement, Fail, Over
<1>7. CASE UNCHANGED vars
  BY <1>7 DEF vars, Over
<1> QED BY <1>1, <1>2, <1>3, <1>4, <1>5, <1>6, <1>7 DEF Next

LEMMA NoticeInit == ASSUME Init PROVE OverLimitIsNoticed
<1>1. ASSUME NEW c \in Customers PROVE ~Over(c)
  <2>1. customers[c] \in {Unused} \cup [status : {"live"}, balance : {0}, limit : Limits]
    BY DEF Init
  <2>2. CASE customers[c] = Unused
    BY <2>2 DEF Over
  <2>3. CASE customers[c] \in [status : {"live"}, balance : {0}, limit : Limits]
    <3>1. customers[c].balance = 0 /\ customers[c].limit \in Nat
      BY <2>3, LimitsAreNatural
    <3> QED BY <3>1 DEF Over
  <2> QED BY <2>1, <2>2, <2>3
<1> QED BY <1>1 DEF OverLimitIsNoticed

LEMMA NoticeStep ==
    ASSUME IInv, TypeOK', OverLimitIsNoticed, [Next]_vars PROVE OverLimitIsNoticed'
<1> SUFFICES ASSUME NEW c \in Customers, Over(c)', ~LimitEdited(c)'
             PROVE  \E r \in Requests : NoticedBy(r, c)'
  BY DEF OverLimitIsNoticed
<1>1. CASE ~Over(c)
  BY <1>1, OverIsNoticedAtOnce
<1>2. CASE Over(c)
  <2>1. ~LimitEdited(c)
    <3>1. TypeOK
      BY DEF IInv
    <3>2. ASSUME NEW q \in Requests PROVE LimitEdited(c) => LimitEdited(c)'
      BY <3>1, NoticeStays
    <3> QED BY <3>2 DEF LimitEdited
  <2>2. PICK r \in Requests : NoticedBy(r, c)
    BY <1>2, <2>1 DEF OverLimitIsNoticed
  <2> QED BY <2>2, NoticeStays DEF IInv
<1> QED BY <1>1, <1>2

(***************************************************************************)
(* Charges that together pass an unedited limit: once they are all done,   *)
(* one of them has logged the warning.                                     *)
(***************************************************************************)
THEOREM OverLimitCorrect == Spec => []OverLimitWasWarned
<1>1. OverLimitIsNoticed => OverLimitWasWarned
  BY DEF OverLimitIsNoticed, OverLimitWasWarned, Over, LimitEdited, NoticedBy
<1>2. IInv => TypeOK
  BY DEF IInv
<1> QED BY <1>1, <1>2, NoticeInit, NoticeStep, InvariantHolds, PTL DEF Spec

(***************************************************************************)
(* The balance is the sum of a set of movements.  SumFunctionOnSet is a    *)
(* recursive function on the subsets of that set, and nothing says that    *)
(* such a function exists.  That, and what the sum does when the set       *)
(* grows, are proved by infinite descent: of the finite sets for which a   *)
(* claim fails there is one that is smallest (FS_StrictSubsetOrdering-     *)
(* WellFounded and WFMin, which speak of sets and not of predicates).      *)
(***************************************************************************)
\* The member the recursion takes, and the recursion itself on the subsets of S.
Pick(T) == CHOOSE x \in T : TRUE
Sums(w, S, f) ==
    f = [T \in SUBSET S |-> IF T = {} THEN 0 ELSE w[Pick(T)] + f[T \ {Pick(T)}]]

\* The library's sum, with its own recursive function given a name.
LEMMA SumDef == \A w, S : SumFunctionOnSet(w, S) = (CHOOSE f : Sums(w, S, f))[S]
  BY DEF SumFunctionOnSet, FoldFunctionOnSet, MapThenFoldSet, Sums, Pick

\* Of a collection of finite sets one has no other below it.
LEMMA SmallestFiniteSet ==
    ASSUME NEW S, NEW Bad, Bad \subseteq FiniteSubsetsOf(S), Bad # {}
    PROVE  \E T \in Bad : \A U \in SUBSET T : U # T => U \notin Bad
<1>1. PICK T \in Bad : \A U \in Bad : <<U, T>> \notin StrictSubsetOrdering(S)
  BY FS_StrictSubsetOrderingWellFounded, WFMin
<1> QED BY <1>1 DEF StrictSubsetOrdering, FiniteSubsetsOf

\* Two solutions of the recursion agree wherever both are defined.
LEMMA SumsAgree ==
    ASSUME NEW w, NEW S, NEW T, NEW f, NEW g, IsFiniteSet(S), Sums(w, S, f), Sums(w, T, g)
    PROVE  \A U \in SUBSET (S \cap T) : f[U] = g[U]
<1> DEFINE Bad == {U \in SUBSET (S \cap T) : f[U] # g[U]}
<1> SUFFICES ASSUME Bad # {} PROVE FALSE
  OBVIOUS
<1>1. Bad \subseteq FiniteSubsetsOf(S)
  BY FS_Subset DEF FiniteSubsetsOf
<1>2. PICK U \in Bad : \A V \in SUBSET U : V # U => V \notin Bad
  <2> HIDE DEF Bad
  <2> QED BY <1>1, SmallestFiniteSet
<1>3. CASE U = {}
  BY <1>2, <1>3 DEF Sums
<1>4. CASE U # {}
  <2> DEFINE x == Pick(U)
  <2>1. x \in U
    BY <1>4 DEF Pick
  <2>2. f[U \ {x}] = g[U \ {x}]
    BY <1>2, <2>1
  <2>3. f[U] = w[x] + f[U \ {x}] /\ g[U] = w[x] + g[U \ {x}]
    BY <1>2, <1>4 DEF Sums
  <2> QED BY <1>2, <2>2, <2>3
<1> QED BY <1>3, <1>4

\* The recursion has a solution on the subsets of a finite set.
LEMMA SumsExists ==
    ASSUME NEW w, NEW S, IsFiniteSet(S)
    PROVE  \E f : Sums(w, S, f)
<1> DEFINE Bad == {T \in SUBSET S : ~ \E f : Sums(w, T, f)}
<1> SUFFICES ASSUME Bad # {} PROVE FALSE
  OBVIOUS
<1>1. Bad \subseteq FiniteSubsetsOf(S)
  BY FS_Subset DEF FiniteSubsetsOf
<1>2. PICK T \in Bad : \A U \in SUBSET T : U # T => U \notin Bad
  <2> HIDE DEF Bad
  <2> QED BY <1>1, SmallestFiniteSet
<1> DEFINE F(U) == CHOOSE f : Sums(w, U, f)
           value(U) == IF U = {} THEN 0 ELSE w[Pick(U)] + F(U \ {Pick(U)})[U \ {Pick(U)}]
           G == [U \in SUBSET T |-> value(U)]
<1>3. ASSUME NEW U \in SUBSET T, U # T PROVE Sums(w, U, F(U))
  <2>1. \E f : Sums(w, U, f)
    BY <1>2, <1>3
  <2> QED BY <2>1
<1>4. ASSUME NEW U \in SUBSET T, U # {} PROVE Pick(U) \in U
  BY <1>4 DEF Pick
<1>5. ASSUME NEW U \in SUBSET T, U # {}
      PROVE  F(U \ {Pick(U)})[U \ {Pick(U)}] = G[U \ {Pick(U)}]
  <2> DEFINE V == U \ {Pick(U)}
  <2>1. V \in SUBSET T /\ V # T /\ V \in SUBSET V
    BY <1>4, <1>5
  <2>2. Sums(w, V, F(V))
    BY <1>3, <2>1
  <2>3. CASE V = {}
    <3>1. F(V)[V] = 0
      <4> HIDE DEF F
      <4> QED BY <2>2, <2>3 DEF Sums
    <3>2. G[V] = 0
      BY <2>1, <2>3
    <3> QED BY <3>1, <3>2
  <2>4. CASE V # {}
    <3> DEFINE x == Pick(V)
               W == V \ {x}
    <3>1. x \in V
      BY <1>4, <2>1, <2>4
    <3>2. W \in SUBSET T /\ W # T /\ W \in SUBSET (V \cap W) /\ IsFiniteSet(V)
      BY <2>1, <3>1, <1>1, <1>2, FS_Subset DEF FiniteSubsetsOf
    <3>3. Sums(w, W, F(W))
      BY <1>3, <3>2
    <3>4. F(V)[W] = F(W)[W]
      <4> HIDE DEF F, W, V
      <4> QED BY <2>2, <3>2, <3>3, SumsAgree
    <3>5. F(V)[V] = w[x] + F(V)[W]
      <4> HIDE DEF F
      <4> QED BY <2>2, <2>4 DEF Sums
    <3>6. G[V] = w[x] + F(W)[W]
      BY <2>1, <2>4
    <3> QED BY <3>4, <3>5, <3>6
  <2> QED BY <2>3, <2>4
<1>6. Sums(w, T, G)
  <2>1. ASSUME NEW U \in SUBSET T
        PROVE  value(U) = IF U = {} THEN 0 ELSE w[Pick(U)] + G[U \ {Pick(U)}]
    <3> HIDE DEF F, G
    <3> QED BY <1>5
  <2>2. G = [U \in SUBSET T |-> IF U = {} THEN 0 ELSE w[Pick(U)] + G[U \ {Pick(U)}]]
    <3>1. G = [U \in SUBSET T |-> value(U)]
      OBVIOUS
    <3> HIDE DEF G, value
    <3> QED BY <2>1, <3>1
  <2> HIDE DEF G
  <2> QED BY <2>2 DEF Sums
<1> QED BY <1>2, <1>6

\* So the sum over a finite set is the value of such a solution.
LEMMA SumIsChosen ==
    ASSUME NEW w, NEW S, IsFiniteSet(S)
    PROVE  \E f : Sums(w, S, f) /\ SumFunctionOnSet(w, S) = f[S]
<1> DEFINE f == CHOOSE f : Sums(w, S, f)
<1>1. Sums(w, S, f)
  BY SumsExists
<1>2. SumFunctionOnSet(w, S) = f[S]
  BY SumDef
<1> HIDE DEF f
<1> QED BY <1>1, <1>2

\* Nothing adds up to 0.
LEMMA SumOfNone == \A w : SumFunctionOnSet(w, {}) = 0
<1> TAKE w
<1>1. PICK f : Sums(w, {}, f) /\ SumFunctionOnSet(w, {}) = f[{}]
  BY SumIsChosen, FS_EmptySet
<1> QED BY <1>1 DEF Sums

\* One turn of the recursion, from the sum over the set to the sum over the rest.
LEMMA SumUnfolds ==
    ASSUME NEW w, NEW S, IsFiniteSet(S), S # {}
    PROVE  /\ Pick(S) \in S
           /\ SumFunctionOnSet(w, S) = w[Pick(S)] + SumFunctionOnSet(w, S \ {Pick(S)})
<1> DEFINE x == Pick(S)
           R == S \ {x}
<1>1. x \in S
  BY DEF Pick
<1>2. IsFiniteSet(R) /\ R \in SUBSET (S \cap R)
  BY FS_Subset
<1>3. PICK f : Sums(w, S, f) /\ SumFunctionOnSet(w, S) = f[S]
  BY SumIsChosen
<1>4. PICK g : Sums(w, R, g) /\ SumFunctionOnSet(w, R) = g[R]
  BY <1>2, SumIsChosen
<1>5. f[S] = w[x] + f[R]
  BY <1>3 DEF Sums
<1>6. f[R] = g[R]
  <2> HIDE DEF R
  <2> QED BY <1>2, <1>3, <1>4, SumsAgree
<1> QED BY <1>1, <1>3, <1>4, <1>5, <1>6

\* A finite sum of integers is an integer.
LEMMA SumIsInt ==
    ASSUME NEW w, NEW S, IsFiniteSet(S), \A x \in S : w[x] \in Int
    PROVE  SumFunctionOnSet(w, S) \in Int
<1> DEFINE Bad == {T \in SUBSET S : SumFunctionOnSet(w, T) \notin Int}
<1> SUFFICES ASSUME Bad # {} PROVE FALSE
  OBVIOUS
<1>1. Bad \subseteq FiniteSubsetsOf(S)
  BY FS_Subset DEF FiniteSubsetsOf
<1>2. PICK T \in Bad : \A U \in SUBSET T : U # T => U \notin Bad
  <2> HIDE DEF Bad
  <2> QED BY <1>1, SmallestFiniteSet
<1>3. T # {}
  <2>1. SumFunctionOnSet(w, {}) = 0
    BY SumOfNone
  <2>2. SumFunctionOnSet(w, T) \notin Int
    BY <1>2
  <2> QED BY <2>1, <2>2
<1>4. /\ Pick(T) \in T
      /\ SumFunctionOnSet(w, T) = w[Pick(T)] + SumFunctionOnSet(w, T \ {Pick(T)})
  BY <1>1, <1>2, <1>3, SumUnfolds DEF FiniteSubsetsOf
<1>5. SumFunctionOnSet(w, T \ {Pick(T)}) \in Int
  BY <1>2, <1>4
<1> QED BY <1>2, <1>4, <1>5

\* Only the members of the set count.
LEMMA SumDependsOnMembers ==
    ASSUME NEW v, NEW w, NEW S, IsFiniteSet(S), \A x \in S : v[x] = w[x]
    PROVE  SumFunctionOnSet(v, S) = SumFunctionOnSet(w, S)
<1> DEFINE Bad == {T \in SUBSET S : SumFunctionOnSet(v, T) # SumFunctionOnSet(w, T)}
<1> SUFFICES ASSUME Bad # {} PROVE FALSE
  OBVIOUS
<1>1. Bad \subseteq FiniteSubsetsOf(S)
  BY FS_Subset DEF FiniteSubsetsOf
<1>2. PICK T \in Bad : \A U \in SUBSET T : U # T => U \notin Bad
  <2> HIDE DEF Bad
  <2> QED BY <1>1, SmallestFiniteSet
<1>3. T # {}
  BY <1>2, SumOfNone
<1>4. /\ Pick(T) \in T
      /\ SumFunctionOnSet(w, T) = w[Pick(T)] + SumFunctionOnSet(w, T \ {Pick(T)})
      /\ SumFunctionOnSet(v, T) = v[Pick(T)] + SumFunctionOnSet(v, T \ {Pick(T)})
  BY <1>1, <1>2, <1>3, SumUnfolds DEF FiniteSubsetsOf
<1>5. SumFunctionOnSet(v, T \ {Pick(T)}) = SumFunctionOnSet(w, T \ {Pick(T)})
  BY <1>2, <1>4
<1> QED BY <1>2, <1>4, <1>5

\* A new member adds its own amount, whichever member the recursion takes first.
LEMMA SumGrows ==
    ASSUME NEW w, NEW S, IsFiniteSet(S), NEW x, x \notin S,
           \A y \in S \cup {x} : w[y] \in Int
    PROVE  SumFunctionOnSet(w, S \cup {x}) = SumFunctionOnSet(w, S) + w[x]
<1> DEFINE R == S \cup {x}
           sum(T) == SumFunctionOnSet(w, T)
           Bad == {T \in SUBSET R : \E y \in R \ T : sum(T \cup {y}) # sum(T) + w[y]}
<1> SUFFICES ASSUME Bad # {} PROVE FALSE
  OBVIOUS
<1>1. IsFiniteSet(R) /\ \A T \in SUBSET R : IsFiniteSet(T)
  BY FS_AddElement, FS_Subset
<1>2. PICK T \in Bad : \A U \in SUBSET T : U # T => U \notin Bad
  <2>1. Bad \subseteq FiniteSubsetsOf(R)
    BY <1>1 DEF FiniteSubsetsOf
  <2> HIDE DEF Bad
  <2> QED BY <2>1, SmallestFiniteSet
<1>3. PICK y \in R \ T : sum(T \cup {y}) # sum(T) + w[y]
  BY <1>2
<1> DEFINE z == Pick(T \cup {y})
<1>4. z \in T \cup {y} /\ sum(T \cup {y}) = w[z] + sum((T \cup {y}) \ {z})
  BY <1>1, <1>2, <1>3, SumUnfolds
<1>5. \A U \in SUBSET R : sum(U) \in Int
  BY <1>1, SumIsInt
<1> HIDE DEF z
<1>6. CASE z = y
  <2>1. (T \cup {y}) \ {z} = T
    BY <1>3, <1>6
  <2>2. sum(T) \in Int /\ w[y] \in Int
    BY <1>2, <1>3, <1>5
  <2>3. sum(T \cup {y}) = w[y] + sum(T)
    BY <1>4, <1>6, <2>1
  <2> HIDE DEF sum
  <2> QED BY <1>3, <2>2, <2>3
<1>7. CASE z # y
  <2> DEFINE U == T \ {z}
  <2>1. U \in SUBSET T /\ U # T /\ U \in SUBSET R /\ z \in R \ U /\ y \in R \ U
    BY <1>2, <1>3, <1>4, <1>7
  <2>2. (T \cup {y}) \ {z} = U \cup {y} /\ U \cup {z} = T
    BY <1>3, <1>4, <1>7
  <2>3. sum(U \cup {y}) = sum(U) + w[y] /\ sum(U \cup {z}) = sum(U) + w[z]
    <3> HIDE DEF U, sum
    <3> QED BY <1>2, <2>1
  <2>4. w[y] \in Int /\ w[z] \in Int /\ sum(U) \in Int
    BY <1>5, <2>1
  <2> HIDE DEF U, sum
  <2> QED BY <1>3, <1>4, <2>2, <2>3, <2>4
<1> QED BY <1>4, <1>6, <1>7

(***************************************************************************)
(* The balance is what the history adds up to, and what is still missing   *)
(* from it.  The two sums are over the sets that the two writes of a       *)
(* movement extend: the $inc adds a request to the unrecorded ones, the    *)
(* insert takes it out of them and into the history.                       *)
(***************************************************************************)
HistoryInv ==
    /\ IsFiniteSet(applied) /\ IsFiniteSet(movements)
    /\ \A r \in Recorded : pc[r] # "insert"
    /\ BalanceIsHistoryPlusUnrecorded

LEMMA CallDeltaIsInt == \A k \in Calls : Delta(k) \in Int
  BY CallFields DEF Delta

LEMMA RecordDeltaIsInt ==
    ASSUME TypeOK, NEW m \in movements PROVE Delta(m) \in Int
<1>1. m.value \in Nat
  BY AmountsArePositive DEF TypeOK
<1> QED BY <1>1 DEF Delta

\* A step that writes neither the balance nor the history.
LEMMA HistoryFrame ==
    ASSUME IInv, HistoryInv, movements' = movements, applied' = applied,
           \A c \in Customers : customers'[c].balance = customers[c].balance,
           \A r \in applied : call'[r] = call[r],
           \A r \in applied : pc'[r] = pc[r] \/ pc'[r] = "500"
    PROVE  HistoryInv'
<1>1. Recorded' = Recorded
  BY DEF Recorded
<1>2. \A r \in Recorded : pc'[r] # "insert"
  BY DEF HistoryInv, IInv, AnswersAreTruthful
<1>3. ASSUME NEW c \in Customers
      PROVE  /\ HistoryTotal(c)' = HistoryTotal(c)
             /\ UnrecordedTotal(c)' = UnrecordedTotal(c)
             /\ Unrecorded(c)' = Unrecorded(c)
  <2>1. Unrecorded(c)' = Unrecorded(c)
    BY <1>1 DEF Unrecorded
  <2>2. [r \in applied' |-> Delta(call'[r])] = [r \in applied |-> Delta(call[r])]
    BY DEF Delta
  <2>3. UnrecordedTotal(c)' = UnrecordedTotal(c)
    BY <2>1, <2>2 DEF UnrecordedTotal
  <2>4. HistoryTotal(c)' = HistoryTotal(c)
    BY DEF HistoryTotal, HistoryOf, Delta
  <2> QED BY <2>1, <2>3, <2>4
<1>4. ASSUME NEW c \in Customers
      PROVE  /\ customers'[c].balance = HistoryTotal(c)' + UnrecordedTotal(c)'
             /\ \A r \in Unrecorded(c)' : pc'[r] \in {"insert", "500"}
  <2>1. \A r \in Unrecorded(c) : pc'[r] \in {"insert", "500"}
    BY DEF HistoryInv, BalanceIsHistoryPlusUnrecorded, Unrecorded
  <2> QED BY <1>3, <2>1 DEF HistoryInv, BalanceIsHistoryPlusUnrecorded
<1> QED BY <1>1, <1>2, <1>4 DEF HistoryInv, BalanceIsHistoryPlusUnrecorded

\* The $inc: one more request is applied, and unrecorded.
LEMMA HistoryAdjust ==
    ASSUME IInv, HistoryInv, NEW r \in Requests, AdjustBalance(r)
    PROVE  HistoryInv'
<1> PICK c : c = call[r].customer
  OBVIOUS
<1>1. /\ pc[r] = "adjust" /\ call' = call /\ movements' = movements
      /\ call[r] \in Movements /\ r \notin applied /\ r \notin Recorded
  BY DEF AdjustBalance, IInv, TypeOK, AwaitsKnowTheirCall, AnswersAreTruthful
<1>2. /\ \A q \in Requests \ {r} : pc'[q] = pc[q]
      /\ pc'[r] = IF Live(c) THEN "insert" ELSE "404"
  BY DEF AdjustBalance, IInv, TypeOK
<1>3. applied \subseteq Requests
  BY DEF IInv, TypeOK
<1>4. CASE ~Live(c)
  <2>1. customers' = customers /\ applied' = applied
    BY <1>4, AdjustMovesOneBalance DEF IInv
  <2> QED BY <1>1, <1>2, <1>3, <2>1, HistoryFrame
<1>5. CASE Live(c)
  <2>1. /\ c \in Customers
        /\ customers'[c].balance = customers[c].balance + Delta(call[r])
        /\ applied' = applied \cup {r}
        /\ \A d \in Customers \ {c} : customers'[d] = customers[d]
    BY <1>5, AdjustMovesOneBalance DEF IInv
  <2>2. Recorded' = Recorded /\ \A q \in Recorded : pc'[q] # "insert"
    BY <1>1, <1>2 DEF Recorded, HistoryInv, IInv, TypeOK
  <2>3. IsFiniteSet(applied') /\ IsFiniteSet(movements')
    BY <1>1, <2>1, FS_AddElement DEF HistoryInv
  <2> DEFINE w == [q \in applied |-> Delta(call[q])]
             v == [q \in applied' |-> Delta(call[q])]
  <2>4. ASSUME NEW d \in Customers
        PROVE  /\ HistoryTotal(d)' = HistoryTotal(d)
               /\ UnrecordedTotal(d)' = SumFunctionOnSet(v, Unrecorded(d)')
               /\ Unrecorded(d)' = IF d = c THEN Unrecorded(d) \cup {r} ELSE Unrecorded(d)
               /\ SumFunctionOnSet(v, Unrecorded(d)) = UnrecordedTotal(d)
               /\ UnrecordedTotal(d) \in Int /\ HistoryTotal(d) \in Int
    <3>1. HistoryTotal(d)' = HistoryTotal(d)
      BY <1>1 DEF HistoryTotal, HistoryOf, Delta
    <3>2. UnrecordedTotal(d)' = SumFunctionOnSet(v, Unrecorded(d)')
      BY <1>1 DEF UnrecordedTotal, Delta
    <3>3. Unrecorded(d)' = IF d = c THEN Unrecorded(d) \cup {r} ELSE Unrecorded(d)
      BY <1>1, <2>1, <2>2 DEF Unrecorded
    <3>4. IsFiniteSet(Unrecorded(d)) /\ Unrecorded(d) \subseteq applied
      BY FS_Subset DEF Unrecorded, HistoryInv
    <3>5. \A q \in applied : w[q] \in Int /\ v[q] = w[q]
      <4>1. \A q \in applied : call[q] \in Calls
        BY DEF IInv, TypeOK, AwaitsKnowTheirCall
      <4> QED BY <2>1, <4>1, CallDeltaIsInt
    <3>6. UnrecordedTotal(d) = SumFunctionOnSet(w, Unrecorded(d))
      BY DEF UnrecordedTotal
    <3>7. HistoryTotal(d) \in Int
      <4>1. IsFiniteSet(HistoryOf(d)) /\ HistoryOf(d) \subseteq movements
        BY FS_Subset DEF HistoryOf, HistoryInv
      <4>2. \A m \in movements : Delta(m) \in Int
        BY RecordDeltaIsInt DEF IInv
      <4> QED BY <4>1, <4>2, SumIsInt DEF HistoryTotal
    <3> HIDE DEF w, v
    <3>8. SumFunctionOnSet(w, Unrecorded(d)) \in Int
      BY <3>4, <3>5, SumIsInt
    <3>9. SumFunctionOnSet(v, Unrecorded(d)) = SumFunctionOnSet(w, Unrecorded(d))
      BY <3>4, <3>5, SumDependsOnMembers
    <3> QED BY <3>1, <3>2, <3>3, <3>6, <3>7, <3>8, <3>9
  <2>5. UnrecordedTotal(c)' = UnrecordedTotal(c) + Delta(call[r])
    <3>1. IsFiniteSet(Unrecorded(c)) /\ r \notin Unrecorded(c) /\ Unrecorded(c) \subseteq applied
      BY <1>1, FS_Subset DEF Unrecorded, HistoryInv
    <3>2. /\ \A q \in Unrecorded(c) \cup {r} : v[q] \in Int
          /\ v[r] = Delta(call[r])
      <4>1. \A q \in applied \cup {r} : call[q] \in Calls
        BY <1>1 DEF IInv, TypeOK, AwaitsKnowTheirCall
      <4> QED BY <2>1, <3>1, <4>1, CallDeltaIsInt
    <3>3. SumFunctionOnSet(v, Unrecorded(c) \cup {r}) = SumFunctionOnSet(v, Unrecorded(c)) + v[r]
      <4> HIDE DEF v
      <4> QED BY <3>1, <3>2, SumGrows
    <3> HIDE DEF v
    <3> QED BY <2>1, <2>4, <3>2, <3>3
  <2>6. ASSUME NEW d \in Customers
        PROVE  /\ customers'[d].balance = HistoryTotal(d)' + UnrecordedTotal(d)'
               /\ \A q \in Unrecorded(d)' : pc'[q] \in {"insert", "500"}
    <3>1. customers[d].balance = HistoryTotal(d) + UnrecordedTotal(d)
      BY DEF HistoryInv, BalanceIsHistoryPlusUnrecorded
    <3>2. \A q \in Unrecorded(d) : pc'[q] \in {"insert", "500"}
      BY <1>2, <1>3, <1>5 DEF HistoryInv, BalanceIsHistoryPlusUnrecorded, Unrecorded
    <3>3. \A q \in Unrecorded(d)' : pc'[q] \in {"insert", "500"}
      BY <1>2, <1>5, <2>4, <3>2
    <3>4. Delta(call[r]) \in Int
      BY <1>1, DeltaIsInt
    <3>5. CASE d = c
      <4> HIDE DEF v
      <4> QED BY <2>1, <2>4, <2>5, <3>1, <3>3, <3>4, <3>5
    <3>6. CASE d # c
      <4> HIDE DEF v
      <4> QED BY <2>1, <2>4, <3>1, <3>3, <3>6
    <3> QED BY <3>5, <3>6
  <2> QED BY <2>2, <2>3, <2>6 DEF HistoryInv, BalanceIsHistoryPlusUnrecorded
<1> QED BY <1>4, <1>5

\* The insert: the request leaves the unrecorded ones as its record arrives.
LEMMA HistoryInsert ==
    ASSUME IInv, HistoryInv, NEW r \in Requests, InsertMovement(r)
    PROVE  HistoryInv'
<1> PICK c : c = call[r].customer
  OBVIOUS
<1> DEFINE m == Record(r)
<1>1. /\ pc[r] = "insert" /\ r \in applied /\ r \notin Recorded /\ call[r] \in Movements
      /\ call' = call /\ customers' = customers /\ applied' = applied
      /\ movements' = movements \cup {m}
  BY DEF InsertMovement, IInv, TypeOK, AwaitsKnowTheirCall, HistoryInv
<1>2. /\ \A q \in Requests \ {r} : pc'[q] = pc[q]
      /\ pc'[r] \in {"200", "500"}
  BY DEF InsertMovement, IInv, TypeOK
<1>3. c \in Customers
  BY <1>1, MovementFields DEF IInv
<1>4. /\ m.id = r /\ m.customer = c /\ m \notin movements
      /\ Delta(m) = Delta(call[r]) /\ Delta(m) \in Int
  BY <1>1, DeltaIsInt DEF Record, Recorded, Delta
<1> HIDE DEF m
<1>5. Recorded' = Recorded \cup {r} /\ \A q \in Recorded' : pc'[q] # "insert"
  <2>1. Recorded' = Recorded \cup {r}
    BY <1>1, <1>4 DEF Recorded
  <2>2. Recorded \subseteq Requests
    BY DEF Recorded, IInv, TypeOK
  <2> QED BY <1>2, <2>1, <2>2 DEF HistoryInv
<1>6. IsFiniteSet(applied') /\ IsFiniteSet(movements')
  BY <1>1, FS_AddElement DEF HistoryInv
<1> DEFINE w == [n \in movements |-> Delta(n)]
           v == [n \in movements' |-> Delta(n)]
           u == [q \in applied |-> Delta(call[q])]
<1>7. ASSUME NEW d \in Customers
      PROVE  /\ HistoryOf(d)' = IF d = c THEN HistoryOf(d) \cup {m} ELSE HistoryOf(d)
             /\ HistoryTotal(d)' = SumFunctionOnSet(v, HistoryOf(d)')
             /\ SumFunctionOnSet(v, HistoryOf(d)) = HistoryTotal(d)
             /\ HistoryTotal(d) \in Int
             /\ IsFiniteSet(HistoryOf(d)) /\ HistoryOf(d) \subseteq movements
  <2>1. HistoryOf(d)' = IF d = c THEN HistoryOf(d) \cup {m} ELSE HistoryOf(d)
    BY <1>1, <1>4 DEF HistoryOf
  <2>2. HistoryTotal(d)' = SumFunctionOnSet(v, HistoryOf(d)')
    BY DEF HistoryTotal, Delta
  <2>3. IsFiniteSet(HistoryOf(d)) /\ HistoryOf(d) \subseteq movements
    BY FS_Subset DEF HistoryOf, HistoryInv
  <2>4. \A n \in movements : w[n] \in Int /\ v[n] = w[n]
    BY <1>1, RecordDeltaIsInt DEF IInv
  <2>5. HistoryTotal(d) = SumFunctionOnSet(w, HistoryOf(d))
    BY DEF HistoryTotal
  <2> HIDE DEF w, v
  <2>6. SumFunctionOnSet(w, HistoryOf(d)) \in Int
    BY <2>3, <2>4, SumIsInt
  <2>7. SumFunctionOnSet(v, HistoryOf(d)) = SumFunctionOnSet(w, HistoryOf(d))
    BY <2>3, <2>4, SumDependsOnMembers
  <2> QED BY <2>1, <2>2, <2>3, <2>5, <2>6, <2>7
<1>8. HistoryTotal(c)' = HistoryTotal(c) + Delta(call[r])
  <2>1. /\ IsFiniteSet(HistoryOf(c)) /\ m \notin HistoryOf(c)
        /\ HistoryOf(c) \subseteq movements
    BY <1>3, <1>4, <1>7
  <2>2. /\ \A n \in HistoryOf(c) \cup {m} : v[n] \in Int
        /\ v[m] = Delta(call[r])
    BY <1>1, <1>4, <2>1, RecordDeltaIsInt DEF IInv
  <2>3. SumFunctionOnSet(v, HistoryOf(c) \cup {m}) = SumFunctionOnSet(v, HistoryOf(c)) + v[m]
    <3> HIDE DEF v
    <3> QED BY <2>1, <2>2, SumGrows
  <2> HIDE DEF v
  <2> QED BY <1>3, <1>7, <2>2, <2>3
<1>9. ASSUME NEW d \in Customers
      PROVE  /\ UnrecordedTotal(d) = SumFunctionOnSet(u, Unrecorded(d))
             /\ UnrecordedTotal(d)' = SumFunctionOnSet(u, Unrecorded(d)')
             /\ Unrecorded(d)' = Unrecorded(d) \ {r}
             /\ r \in Unrecorded(d) <=> d = c
             /\ IsFiniteSet(Unrecorded(d)') /\ Unrecorded(d) \subseteq applied
             /\ UnrecordedTotal(d)' \in Int
  <2>1. /\ UnrecordedTotal(d) = SumFunctionOnSet(u, Unrecorded(d))
        /\ UnrecordedTotal(d)' = SumFunctionOnSet(u, Unrecorded(d)')
    BY <1>1 DEF UnrecordedTotal, Delta
  <2>2. /\ Unrecorded(d)' = Unrecorded(d) \ {r}
        /\ r \in Unrecorded(d) <=> d = c
        /\ Unrecorded(d) \subseteq applied
    BY <1>1, <1>5 DEF Unrecorded
  <2>3. IsFiniteSet(Unrecorded(d)')
    BY <2>2, FS_Subset DEF HistoryInv
  <2>4. \A q \in applied : u[q] \in Int
    <3>1. \A q \in applied : call[q] \in Calls
      BY DEF IInv, TypeOK, AwaitsKnowTheirCall
    <3> QED BY <3>1, CallDeltaIsInt
  <2> HIDE DEF u
  <2>5. SumFunctionOnSet(u, Unrecorded(d)') \in Int
    BY <2>2, <2>3, <2>4, SumIsInt
  <2> QED BY <2>1, <2>2, <2>3, <2>5
<1>10. UnrecordedTotal(c) = UnrecordedTotal(c)' + Delta(call[r])
  <2> DEFINE rest == Unrecorded(c) \ {r}
  <2>1. /\ rest = Unrecorded(c)' /\ Unrecorded(c) = rest \cup {r} /\ r \notin rest
        /\ IsFiniteSet(rest) /\ rest \cup {r} \subseteq applied
    BY <1>1, <1>3, <1>9
  <2>2. /\ \A q \in rest \cup {r} : u[q] \in Int
        /\ u[r] = Delta(call[r])
    <3>1. \A q \in applied : call[q] \in Calls
      BY DEF IInv, TypeOK, AwaitsKnowTheirCall
    <3> HIDE DEF rest
    <3> QED BY <1>1, <2>1, <3>1, CallDeltaIsInt
  <2> HIDE DEF rest, u
  <2>3. SumFunctionOnSet(u, rest \cup {r}) = SumFunctionOnSet(u, rest) + u[r]
    BY <2>1, <2>2, SumGrows
  <2> QED BY <1>3, <1>9, <2>1, <2>2, <2>3
<1>11. ASSUME NEW d \in Customers
       PROVE  /\ customers'[d].balance = HistoryTotal(d)' + UnrecordedTotal(d)'
              /\ \A q \in Unrecorded(d)' : pc'[q] \in {"insert", "500"}
  <2>1. customers[d].balance = HistoryTotal(d) + UnrecordedTotal(d)
    BY DEF HistoryInv, BalanceIsHistoryPlusUnrecorded
  <2>2. \A q \in Unrecorded(d) : pc[q] \in {"insert", "500"}
    BY DEF HistoryInv, BalanceIsHistoryPlusUnrecorded
  <2>3. \A q \in Unrecorded(d)' : pc'[q] \in {"insert", "500"}
    <3>1. applied \subseteq Requests
      BY DEF IInv, TypeOK
    <3> QED BY <1>2, <1>9, <2>2, <3>1
  <2>4. Delta(call[r]) \in Int
    BY <1>4
  <2>5. CASE d = c
    <3> HIDE DEF v, u
    <3> QED BY <1>1, <1>3, <1>7, <1>8, <1>9, <1>10, <2>1, <2>3, <2>4, <2>5
  <2>6. CASE d # c
    <3>1. HistoryTotal(d)' = HistoryTotal(d)
      BY <1>7, <2>6
    <3>2. UnrecordedTotal(d)' = UnrecordedTotal(d)
      BY <1>9, <2>6
    <3> HIDE DEF v, u
    <3> QED BY <1>1, <2>1, <2>3, <3>1, <3>2
  <2> QED BY <2>5, <2>6
<1> QED BY <1>5, <1>6, <1>11 DEF HistoryInv, BalanceIsHistoryPlusUnrecorded

LEMMA HistoryInit == ASSUME Init PROVE HistoryInv
<1>1. applied = {} /\ movements = {} /\ Recorded = {}
  BY DEF Init, Recorded
<1>2. ASSUME NEW c \in Customers
      PROVE  /\ customers[c].balance = HistoryTotal(c) + UnrecordedTotal(c)
             /\ \A r \in Unrecorded(c) : pc[r] \in {"insert", "500"}
  <2>1. customers[c].balance = 0
    <3>1. customers[c] \in {Unused} \cup [status : {"live"}, balance : {0}, limit : Limits]
      BY DEF Init
    <3> QED BY <3>1
  <2>2. HistoryOf(c) = {} /\ Unrecorded(c) = {}
    BY <1>1 DEF HistoryOf, Unrecorded
  <2>3. HistoryTotal(c) = 0 /\ UnrecordedTotal(c) = 0
    BY <2>2, SumOfNone DEF HistoryTotal, UnrecordedTotal
  <2> QED BY <2>1, <2>2, <2>3
<1> QED BY <1>1, <1>2, FS_EmptySet DEF HistoryInv, BalanceIsHistoryPlusUnrecorded

LEMMA HistoryStep == ASSUME IInv, HistoryInv, [Next]_vars PROVE HistoryInv'
<1>1. \A q \in applied : pc[q] \in {"insert", "200", "500"} /\ q \in Requests
  BY DEF IInv, TypeOK, AwaitsKnowTheirCall
<1>2. ASSUME NEW r \in Requests, NEW k \in Calls, Create(r, k) PROVE HistoryInv'
  <2>1. \A c \in Customers : customers'[c].balance = customers[c].balance
    BY <1>2, CreateKeepsBalances DEF IInv
  <2>2. movements' = movements /\ applied' = applied
    BY <1>2 DEF Create, history
  <2>3. \A q \in applied : call'[q] = call[q] /\ pc'[q] = pc[q]
    BY <1>1, <1>2 DEF Create, IInv, TypeOK
  <2> QED BY <2>1, <2>2, <2>3, HistoryFrame
<1>3. ASSUME NEW r \in Requests, NEW k \in Calls, Get(r, k) PROVE HistoryInv'
  <2>1. customers' = customers /\ movements' = movements /\ applied' = applied
    BY <1>3 DEF Get, history
  <2>2. \A q \in applied : call'[q] = call[q] /\ pc'[q] = pc[q]
    BY <1>1, <1>3 DEF Get, IInv, TypeOK
  <2> QED BY <2>1, <2>2, HistoryFrame
<1>4. ASSUME NEW r \in Requests, SetFields(r) PROVE HistoryInv'
  <2>1. \A c \in Customers : customers'[c].balance = customers[c].balance
    BY <1>4, SetFieldsKeepsBalances DEF IInv
  <2>2. movements' = movements /\ applied' = applied /\ call' = call
    BY <1>4 DEF SetFields, history
  <2>3. \A q \in applied : pc'[q] = pc[q]
    BY <1>1, <1>4 DEF SetFields, IInv, TypeOK
  <2> QED BY <2>1, <2>2, <2>3, HistoryFrame
<1>5. ASSUME NEW r \in Requests, Remove(r) PROVE HistoryInv'
  <2>1. \A c \in Customers : customers'[c].balance = customers[c].balance
    BY <1>5, RemoveKeepsBalances DEF IInv
  <2>2. movements' = movements /\ applied' = applied /\ call' = call
    BY <1>5 DEF Remove, history
  <2>3. \A q \in applied : pc'[q] = pc[q]
    BY <1>1, <1>5 DEF Remove, IInv, TypeOK
  <2> QED BY <2>1, <2>2, <2>3, HistoryFrame
<1>6. ASSUME NEW r \in Requests, Fail(r) PROVE HistoryInv'
  <2>1. /\ customers' = customers /\ movements' = movements
        /\ applied' = applied /\ call' = call
    BY <1>6 DEF Fail, history
  <2>2. \A q \in applied : pc'[q] = pc[q] \/ pc'[q] = "500"
    BY <1>1, <1>6 DEF Fail, IInv, TypeOK
  <2> QED BY <2>1, <2>2, HistoryFrame
<1>7. CASE UNCHANGED vars
  BY <1>7, HistoryFrame DEF vars
<1> QED BY <1>2, <1>3, <1>4, <1>5, <1>6, <1>7, HistoryAdjust, HistoryInsert DEF Next

(***************************************************************************)
(* At every moment the balance is the sum of the history and of what was   *)
(* lost, or is still on its way, between the two writes of a movement.     *)
(***************************************************************************)
THEOREM BalanceCorrect == Spec => []BalanceIsHistoryPlusUnrecorded
<1>1. HistoryInv => BalanceIsHistoryPlusUnrecorded
  BY DEF HistoryInv
<1> QED BY <1>1, HistoryInit, HistoryStep, InvariantHolds, PTL DEF Spec
-----------------------------------------------------------------------------
(***************************************************************************)
(* The accounts are a ledger.  Each step is a step of the ledger, or none: *)
(* the $inc posts the record that the insert will write, a check or a lost *)
(* customer refuses, an insert opens an account and a delete closes it;    *)
(* an edit, a read and a request that dies are nothing to the ledger.      *)
(***************************************************************************)
StatusOf == [c \in Customers |-> customers[c].status]
BalanceOf == [c \in Customers |-> customers[c].balance]
Posted == {Record(r) : r \in applied}
Done == AnsweredWith({"200"})
NotDone == AnsweredWith({"404", "409"})

LedgerStands ==
    /\ StatusOf' = StatusOf /\ BalanceOf' = BalanceOf
    /\ Posted' = Posted /\ movements' = movements
    /\ Done' = Done /\ NotDone' = NotDone

LEMMA LedgerStutters ==
    ASSUME LedgerStands PROVE UNCHANGED Promise!lvars
  BY DEF LedgerStands, StatusOf, BalanceOf, Posted, Done, NotDone, Promise!lvars

\* The record of a movement does not change once it is applied.
LEMMA PostedStands ==
    ASSUME applied' = applied, \A r \in applied : call'[r] = call[r]
    PROVE  Posted' = Posted
  BY DEF Posted, Record

LEMMA PostedIds == Promise!IdsPosted = applied
<1>1. \A r \in applied : Record(r).id = r
  BY DEF Record
<1>2. Promise!IdsPosted = {m.id : m \in {Record(r) : r \in applied}}
  BY DEF Promise!IdsPosted
<1>3. ASSUME NEW i PROVE i \in Promise!IdsPosted <=> i \in applied
  <2>1. ASSUME i \in applied PROVE i \in Promise!IdsPosted
    BY <1>1, <1>2, <2>1
  <2>2. ASSUME i \in Promise!IdsPosted PROVE i \in applied
    BY <1>1, <1>2, <2>2
  <2> QED BY <2>1, <2>2
<1> QED BY <1>3

LEMMA BalancesStand ==
    ASSUME \A c \in Customers : customers'[c].balance = customers[c].balance
    PROVE  BalanceOf' = BalanceOf
  BY DEF BalanceOf

\* An answer is seen of a movement that is answered, and of nothing else.
LEMMA AnswersStand ==
    ASSUME NEW r \in Requests,
           \A q \in Requests \ {r} : pc'[q] = pc[q] /\ call'[q] = call[q],
           ~IsMovement(r) \/ pc[r] \in Awaits,
           ~IsMovement(r)' \/ pc'[r] \in Awaits \cup {"500"}
    PROVE  Done' = Done /\ NotDone' = NotDone
  BY DEF Done, NotDone, AnsweredWith, IsMovement

LEMMA LedgerRefuses ==
    ASSUME NEW r \in Requests \ applied,
           \A q \in Requests \ {r} : pc'[q] = pc[q] /\ call'[q] = call[q],
           ~IsMovement(r) \/ pc[r] \in Awaits,
           IsMovement(r)', pc'[r] \in {"404", "409"},
           StatusOf' = StatusOf, BalanceOf' = BalanceOf,
           Posted' = Posted, movements' = movements
    PROVE  Promise!Refuse(r)
<1>1. Done' = Done /\ NotDone' = NotDone \cup {r}
  BY DEF Done, NotDone, AnsweredWith, IsMovement
<1> QED BY <1>1, PostedIds
        DEF Promise!Refuse, StatusOf, BalanceOf, Posted, Done, NotDone

LEMMA LedgerCreate ==
    ASSUME IInv, NEW r \in Requests, NEW k \in Calls, Create(r, k)
    PROVE  Promise!Next
<1>1. /\ pc[r] = "new" /\ k.type = "create" /\ call' = [call EXCEPT ![r] = k]
      /\ pc'[r] \in {"200", "500"} /\ call'[r].type = "create"
      /\ \A q \in Requests \ {r} : pc'[q] = pc[q] /\ call'[q] = call[q]
      /\ movements' = movements /\ applied' = applied /\ r \notin applied
  BY DEF Create, history, IInv, TypeOK, AwaitsKnowTheirCall
<1>2. Done' = Done /\ NotDone' = NotDone
  BY <1>1, AnswersStand DEF IsMovement
<1>3. Posted' = Posted
  BY <1>1, PostedStands DEF IInv, TypeOK
<1>4. BalanceOf' = BalanceOf
  BY CreateKeepsBalances, BalancesStand DEF IInv
<1>5. PICK c \in Customers :
        /\ StatusOf[c] = "none"
        /\ StatusOf' = [StatusOf EXCEPT ![c] = "live"]
  <2>1. k.customer \in Customers
    BY CallFields
  <2>2. /\ customers[k.customer].status = "none"
        /\ customers'[k.customer].status = "live"
        /\ \A d \in Customers \ {k.customer} : customers'[d] = customers[d]
    BY <2>1 DEF Create, IInv, TypeOK
  <2> QED BY <2>1, <2>2 DEF StatusOf
<1>6. Promise!Open(c)
  BY <1>1, <1>2, <1>3, <1>4, <1>5
  DEF Promise!Open, StatusOf, BalanceOf, Posted, Done, NotDone
<1> QED BY <1>6 DEF Promise!Next

LEMMA LedgerGet ==
    ASSUME IInv, NEW r \in Requests, NEW k \in Calls, Get(r, k)
    PROVE  Promise!Next \/ UNCHANGED Promise!lvars
<1>1. /\ pc[r] = "new" /\ k.type # "create" /\ call'[r] = k
      /\ pc'[r] \in Awaits \cup {"404", "409"}
      /\ \A q \in Requests \ {r} : pc'[q] = pc[q] /\ call'[q] = call[q]
      /\ customers' = customers /\ movements' = movements
      /\ applied' = applied /\ r \notin applied
  BY DEF Get, history, IInv, TypeOK, AwaitsKnowTheirCall, FirstWrite,
         Calls, Movements, Edits, Removals
<1>2. StatusOf' = StatusOf /\ BalanceOf' = BalanceOf
  BY <1>1 DEF StatusOf, BalanceOf
<1>3. Posted' = Posted
  BY <1>1, PostedStands DEF IInv, TypeOK
<1>4. CASE IsMovement(r)' /\ pc'[r] \in {"404", "409"}
  <2>1. Promise!Refuse(r)
    BY <1>1, <1>2, <1>3, <1>4, LedgerRefuses DEF IsMovement
  <2> QED BY <2>1 DEF Promise!Next
<1>5. CASE ~(IsMovement(r)' /\ pc'[r] \in {"404", "409"})
  <2>1. Done' = Done /\ NotDone' = NotDone
    BY <1>1, <1>5, AnswersStand DEF IsMovement
  <2> QED BY <1>1, <1>2, <1>3, <2>1, LedgerStutters DEF LedgerStands
<1> QED BY <1>4, <1>5

LEMMA LedgerAdjust ==
    ASSUME IInv, NEW r \in Requests, AdjustBalance(r)
    PROVE  Promise!Next
<1> PICK c : c = call[r].customer
  OBVIOUS
<1>1. /\ pc[r] = "adjust" /\ call' = call /\ movements' = movements
      /\ call[r] \in Movements /\ r \notin applied
      /\ pc'[r] = IF Live(c) THEN "insert" ELSE "404"
      /\ \A q \in Requests \ {r} : pc'[q] = pc[q]
  BY DEF AdjustBalance, IInv, TypeOK, AwaitsKnowTheirCall
<1>2. c \in Customers /\ IsMovement(r) /\ IsMovement(r)'
  BY <1>1, MovementFields DEF IInv, IsMovement
<1>3. CASE ~Live(c)
  <2>1. customers' = customers /\ applied' = applied
    BY <1>3, AdjustMovesOneBalance DEF IInv
  <2>2. StatusOf' = StatusOf /\ BalanceOf' = BalanceOf /\ Posted' = Posted
    BY <1>1, <2>1, PostedStands DEF StatusOf, BalanceOf
  <2>3. Promise!Refuse(r)
    BY <1>1, <1>2, <1>3, <2>2, LedgerRefuses
  <2> QED BY <2>3 DEF Promise!Next
<1>4. CASE Live(c)
  <2> PICK m : m = Record(r)
    OBVIOUS
  <2>1. /\ customers'[c].balance = customers[c].balance + Delta(call[r])
        /\ applied' = applied \cup {r}
        /\ \A d \in Customers \ {c} : customers'[d] = customers[d]
        /\ \A d \in Customers : customers'[d].status = customers[d].status
    BY <1>4, AdjustMovesOneBalance DEF IInv
  <2>2. m \in Records /\ m.id = r /\ m.customer = c /\ Delta(m) = Delta(call[r])
    BY <1>1, MovementFields DEF Record, Records, Movements, Delta
  <2>3. Posted' = Posted \cup {m}
    BY <1>1, <2>1 DEF Posted, Record
  <2>4. StatusOf' = StatusOf /\ StatusOf[c] = "live"
    BY <1>2, <1>4, <2>1 DEF StatusOf, Live
  <2>5. BalanceOf' = [BalanceOf EXCEPT ![c] = @ + Delta(m)]
    BY <1>2, <2>1, <2>2 DEF BalanceOf
  <2>6. Done' = Done /\ NotDone' = NotDone
    BY <1>1, <1>4, AnswersStand
  <2>7. r \notin applied \cup NotDone
    BY <1>1 DEF NotDone, AnsweredWith
  <2>8. m \in Posted' \ Posted
    BY <1>1, <2>2, <2>3 DEF Posted, Record
  <2>9. Promise!Post(m)
    BY <1>1, <2>2, <2>3, <2>4, <2>5, <2>6, <2>7, PostedIds
    DEF Promise!Post, StatusOf, BalanceOf, Posted, Done, NotDone
  <2>10. \E n \in Posted' \ Posted : Promise!Post(n)
    BY <2>8, <2>9
  <2> QED BY <2>10 DEF Promise!Next, Posted, Record
<1> QED BY <1>3, <1>4

LEMMA LedgerInsert ==
    ASSUME IInv, HistoryInv, NEW r \in Requests, InsertMovement(r)
    PROVE  Promise!Next
<1> DEFINE m == Record(r)
<1>1. /\ pc[r] = "insert" /\ r \in applied /\ r \notin Recorded /\ call[r] \in Movements
      /\ call' = call /\ customers' = customers /\ applied' = applied
      /\ movements' = movements \cup {m}
      /\ pc'[r] \in {"200", "500"}
      /\ \A q \in Requests \ {r} : pc'[q] = pc[q]
  BY DEF InsertMovement, IInv, TypeOK, AwaitsKnowTheirCall, HistoryInv
<1>2. m.id = r /\ m \in Posted \ movements
  BY <1>1 DEF Posted, Record, Recorded
<1>3. StatusOf' = StatusOf /\ BalanceOf' = BalanceOf /\ Posted' = Posted
  BY <1>1, PostedStands DEF StatusOf, BalanceOf
<1>4. NotDone' = NotDone /\ Done' \in {Done, Done \cup {r}}
  <2>1. IsMovement(r) /\ IsMovement(r)'
    BY <1>1, MovementFields DEF IInv, IsMovement
  <2>2. NotDone' = NotDone
    BY <1>1 DEF NotDone, AnsweredWith, IsMovement
  <2>3. Done' = IF pc'[r] = "200" THEN Done \cup {r} ELSE Done
    BY <1>1, <2>1 DEF Done, AnsweredWith, IsMovement
  <2> QED BY <2>2, <2>3
<1> HIDE DEF m
<1>5. Promise!Write(m)
  BY <1>1, <1>2, <1>3, <1>4
  DEF Promise!Write, StatusOf, BalanceOf, Posted, Done, NotDone
<1> QED BY <1>2, <1>5 DEF Promise!Next, Posted

LEMMA LedgerSetFields ==
    ASSUME IInv, NEW r \in Requests, SetFields(r)
    PROVE  UNCHANGED Promise!lvars
<1>1. /\ pc[r] = "set" /\ call[r].type = "update"
      /\ call' = call /\ movements' = movements /\ applied' = applied
      /\ \A q \in Requests \ {r} : pc'[q] = pc[q]
  BY DEF SetFields, history, IInv, TypeOK, AwaitsKnowTheirCall
<1>2. BalanceOf' = BalanceOf /\ StatusOf' = StatusOf
  BY SetFieldsKeepsBalances, BalancesStand DEF IInv, StatusOf
<1>3. Posted' = Posted /\ Done' = Done /\ NotDone' = NotDone
  BY <1>1, PostedStands, AnswersStand DEF IsMovement
<1> QED BY <1>1, <1>2, <1>3, LedgerStutters DEF LedgerStands

LEMMA LedgerRemove ==
    ASSUME IInv, NEW r \in Requests, Remove(r)
    PROVE  Promise!Next \/ UNCHANGED Promise!lvars
<1> PICK c : c = call[r].customer
  OBVIOUS
<1>1. /\ pc[r] = "remove" /\ call[r].type = "delete"
      /\ call' = call /\ movements' = movements /\ applied' = applied
      /\ \A q \in Requests \ {r} : pc'[q] = pc[q]
  BY DEF Remove, history, IInv, TypeOK, AwaitsKnowTheirCall
<1>2. BalanceOf' = BalanceOf
  BY RemoveKeepsBalances, BalancesStand DEF IInv
<1>3. Posted' = Posted /\ Done' = Done /\ NotDone' = NotDone
  BY <1>1, PostedStands, AnswersStand DEF IsMovement
<1>4. c \in Customers
  <2>1. call[r] \in Calls
    BY <1>1 DEF IInv, TypeOK
  <2> QED BY <2>1, CallFields
<1>5. StatusOf' = [StatusOf EXCEPT ![c] = IF @ = "live" THEN "deleted" ELSE @]
  BY <1>4 DEF Remove, StatusOf, IInv, TypeOK
<1>6. CASE StatusOf[c] = "live"
  <2>1. Promise!Close(c)
    BY <1>1, <1>2, <1>3, <1>5, <1>6
    DEF Promise!Close, StatusOf, BalanceOf, Posted, Done, NotDone
  <2> QED BY <1>4, <2>1 DEF Promise!Next
<1>7. CASE StatusOf[c] # "live"
  <2>1. StatusOf' = StatusOf
    BY <1>4, <1>5, <1>7 DEF StatusOf
  <2> QED BY <1>1, <1>2, <1>3, <2>1, LedgerStutters DEF LedgerStands
<1> QED BY <1>6, <1>7

LEMMA LedgerFail ==
    ASSUME IInv, NEW r \in Requests, Fail(r)
    PROVE  UNCHANGED Promise!lvars
<1>1. /\ pc[r] \in Awaits /\ pc'[r] = "500" /\ call' = call /\ customers' = customers
      /\ movements' = movements /\ applied' = applied
      /\ \A q \in Requests \ {r} : pc'[q] = pc[q]
  BY DEF Fail, history, IInv, TypeOK
<1>2. BalanceOf' = BalanceOf /\ StatusOf' = StatusOf
  BY <1>1 DEF BalanceOf, StatusOf
<1>3. Posted' = Posted /\ Done' = Done /\ NotDone' = NotDone
  BY <1>1, PostedStands, AnswersStand
<1> QED BY <1>1, <1>2, <1>3, LedgerStutters DEF LedgerStands

LEMMA LedgerInit == ASSUME Init PROVE Promise!Init
<1>1. ASSUME NEW c \in Customers
      PROVE  customers[c].status \in {"none", "live"} /\ customers[c].balance = 0
  <2>1. customers[c] \in {Unused} \cup [status : {"live"}, balance : {0}, limit : Limits]
    BY DEF Init
  <2> QED BY <2>1
<1>2. /\ applied = {} /\ movements = {}
      /\ \A r \in Requests : pc[r] = "new"
  BY DEF Init
<1> QED BY <1>1, <1>2 DEF Promise!Init, AnsweredWith, IsMovement

LEMMA LedgerStep ==
    ASSUME IInv, HistoryInv, [Next]_vars
    PROVE  Promise!Next \/ UNCHANGED Promise!lvars
<1>1. CASE UNCHANGED vars
  BY <1>1 DEF vars, Promise!lvars, AnsweredWith, IsMovement, Record
<1> QED BY <1>1, LedgerCreate, LedgerGet, LedgerAdjust, LedgerInsert,
           LedgerSetFields, LedgerRemove, LedgerFail DEF Next

(***************************************************************************)
(* The credit accounts implement the ledger, for any requests, customers,  *)
(* amounts and limits.                                                     *)
(***************************************************************************)
THEOREM Implements == Spec => ImplementsLedger
<1>1. ASSUME IInv, HistoryInv, [Next]_vars PROVE [Promise!Next]_Promise!lvars
  BY <1>1, LedgerStep
<1> QED BY <1>1, LedgerInit, HistoryInit, HistoryStep, InvariantHolds, PTL
        DEF Spec, ImplementsLedger, Promise!Spec
-----------------------------------------------------------------------------
(***************************************************************************)
(* What the documentation promises does hold of requests that take turns:  *)
(* the checks are right, and only their distance from the write is not.    *)
(* Two payments of a customer take turns when no two stand between the     *)
(* check and the $inc; a delete and a movement when none stands before its *)
(* $inc while the other stands before the delete.  Everything else still   *)
(* interleaves, and every request may die.                                 *)
(***************************************************************************)
PaymentsTakeTurns ==
    \A r, o \in Requests :
        /\ pc[r] = "adjust" /\ call[r].type = "payment"
        /\ pc[o] = "adjust" /\ call[o].type = "payment"
        /\ call[r].customer = call[o].customer
        => r = o

DeletesTakeTurns ==
    \A r, o \in Requests :
        pc[r] = "remove" /\ pc[o] = "adjust" => call[r].customer # call[o].customer

\* Only a $inc overtakes anybody, and the call of a request is never changed.
LEMMA OvertakenOnlyByAdjust ==
    ASSUME IInv, [Next]_vars
    PROVE  /\ \A o \in overtaken : call'[o] = call[o]
           /\ overtaken' = overtaken
              \/ \E r \in Requests : AdjustBalance(r) /\ call' = call
                                     /\ overtaken' = overtaken \cup OvertakenBy(r)
<1>1. \A o \in overtaken : o \in Requests /\ pc[o] # "new"
  BY DEF IInv, TypeOK, AwaitsKnowTheirCall
<1>2. ASSUME NEW r \in Requests, NEW k \in Calls, Create(r, k) \/ Get(r, k)
      PROVE  overtaken' = overtaken /\ \A o \in overtaken : call'[o] = call[o]
  BY <1>1, <1>2 DEF Create, Get, history, IInv, TypeOK
<1>3. ASSUME NEW r \in Requests, AdjustBalance(r)
      PROVE  /\ call' = call
             /\ overtaken' = overtaken \/ overtaken' = overtaken \cup OvertakenBy(r)
  BY <1>3 DEF AdjustBalance
<1>4. ASSUME NEW r \in Requests, InsertMovement(r) \/ SetFields(r) \/ Remove(r) \/ Fail(r)
      PROVE  overtaken' = overtaken /\ call' = call
  BY <1>4 DEF InsertMovement, SetFields, Remove, Fail, history
<1>5. CASE UNCHANGED vars
  BY <1>5 DEF vars
<1> QED BY <1>2, <1>3, <1>4, <1>5 DEF Next

(***************************************************************************)
(* "Un abono nunca deja el saldo en negativo", when the payments of a      *)
(* customer take turns.                                                    *)
(***************************************************************************)
THEOREM PaymentsInTurnNeverOverdraw ==
    Spec /\ []PaymentsTakeTurns => []PaymentNeverOverdraws
<1> DEFINE NoneOvertaken == \A o \in overtaken : call[o].type # "payment"
<1>1. Init => NoneOvertaken
  BY DEF Init
<1>2. ASSUME IInv, NoneOvertaken, PaymentsTakeTurns, [Next]_vars PROVE NoneOvertaken'
  <2>1. ASSUME NEW r \in Requests, AdjustBalance(r), NEW o \in OvertakenBy(r)
        PROVE  call[o].type # "payment"
    <3>1. pc[r] = "adjust" /\ o \in Requests \ {r}
      BY <2>1 DEF AdjustBalance, OvertakenBy
    <3>2. CASE call[o].type = "payment"
      <4>1. /\ pc[o] \in {"adjust", "remove"} /\ call[o].customer = call[r].customer
            /\ call[r].type = "payment"
        BY <3>2 DEF OvertakenBy
      <4>2. pc[o] = "adjust"
        BY <1>2, <3>1, <3>2, <4>1 DEF IInv, AwaitsKnowTheirCall
      <4> QED BY <1>2, <3>1, <3>2, <4>1, <4>2 DEF PaymentsTakeTurns
    <3> QED BY <3>2
  <2> QED BY <1>2, <2>1, OvertakenOnlyByAdjust
<1>3. ASSUME IInv, NoneOvertaken PROVE PaymentNeverOverdraws
  <2>1. ASSUME NEW c \in Customers PROVE customers[c].balance >= 0
    <3>1. ~(customers[c].balance < 0)
      BY <1>3 DEF IInv, OverdraftNeedsOvertaking
    <3>2. customers[c].balance \in Int
      BY <1>3 DEF IInv, TypeOK
    <3> QED BY <3>1, <3>2
  <2> QED BY <2>1 DEF PaymentNeverOverdraws
<1> QED BY <1>1, <1>2, <1>3, InvariantHolds, PTL DEF Spec

(***************************************************************************)
(* "No se puede eliminar un cliente con saldo pendiente", when deletes and *)
(* movements of a customer take turns.                                     *)
(***************************************************************************)
THEOREM DeletesInTurnRemoveNoDebtor ==
    Spec /\ []DeletesTakeTurns => []NoDebtorDeleted
<1> DEFINE NoneOvertaken == \A o \in overtaken : call[o].type # "delete"
<1>1. Init => NoneOvertaken
  BY DEF Init
<1>2. ASSUME IInv, NoneOvertaken, DeletesTakeTurns, [Next]_vars PROVE NoneOvertaken'
  <2>1. ASSUME NEW r \in Requests, AdjustBalance(r), NEW o \in OvertakenBy(r)
        PROVE  call[o].type # "delete"
    <3>1. /\ pc[r] = "adjust" /\ o \in Requests
          /\ pc[o] \in {"adjust", "remove"} /\ call[o].customer = call[r].customer
      BY <2>1 DEF AdjustBalance, OvertakenBy
    <3>2. pc[o] = "adjust"
      BY <1>2, <3>1 DEF DeletesTakeTurns
    <3>3. TypeOK /\ call[o] \in Movements
      BY <1>2, <3>1, <3>2 DEF IInv, TypeOK
    <3> QED BY <3>1, <3>3, MovementFields
  <2> QED BY <1>2, <2>1, OvertakenOnlyByAdjust
<1>3. ASSUME IInv, NoneOvertaken PROVE NoDebtorDeleted
  BY <1>3 DEF IInv, DebtDeletedNeedsOvertaking, NoDebtorDeleted
<1> QED BY <1>1, <1>2, <1>3, InvariantHolds, PTL DEF Spec
=============================================================================
