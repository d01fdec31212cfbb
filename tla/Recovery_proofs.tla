-------------------------- MODULE Recovery_proofs ---------------------------
(***************************************************************************)
(* Proofs about Recovery, for any set of requests and any settings.        *)
(***************************************************************************)
EXTENDS Recovery, TLAPS

USE DEF MoveTo, history, Awaits, Answers, Never

Step(r) ==
    \/ Login(r) \/ RegisterFailedLogin(r) \/ SucceedLogin(r)
    \/ ChangePassword(r) \/ WriteChange(r)
    \/ RequestReset(r) \/ InvalidateLinks(r) \/ CreateLink(r) \/ SendLink(r)
    \/ \E l \in Requests : ResetPassword(r, l)
    \/ FindUser(r) \/ WriteReset(r) \/ MarkUsed(r)

Environment ==
    \/ \E r \in Requests : Purge(r)
    \/ \E status \in {"active", "disabled", "deleted"} : Administer(status)
    \/ Tick

LEMMA Steps ==
    ASSUME [Next]_vars
    PROVE  (\E r \in Requests : Step(r)) \/ Environment \/ UNCHANGED vars
  BY DEF Next, Step, Environment

(***************************************************************************)
(* The fields of the account after each of the writes to it.               *)
(***************************************************************************)
LEMMA AccountFields ==
    ASSUME TypeOK
    PROVE  /\ account.status \in {"active", "disabled", "deleted"}
           /\ account.password \in Passwords /\ account.old \in BOOLEAN
           /\ account.attempts \in Nat /\ account.locked \in Nat \cup {-1}
           /\ account.attempts \in Int /\ account.locked \in Int
           /\ account.attempts < MaxFailed
           /\ account = [status |-> account.status, password |-> account.password,
                         old |-> account.old, attempts |-> account.attempts,
                         locked |-> account.locked]
  BY DEF TypeOK, Accounts

LEMMA DocFields ==
    ASSUME TypeOK, NEW r \in Requests
    PROVE  /\ doc[r] \in Accounts
           /\ doc[r].status \in {"active", "disabled", "deleted"}
           /\ doc[r].password \in Passwords /\ doc[r].old \in BOOLEAN
           /\ doc[r].attempts \in Nat /\ doc[r].locked \in Nat \cup {-1}
           /\ doc[r].attempts < MaxFailed
           /\ at[r] \in Nat /\ at[r] <= now /\ now \in Nat
<1>1. doc[r] \in Accounts /\ doc[r].attempts < MaxFailed /\ at[r] \in Nat /\ at[r] <= now
  BY DEF TypeOK
<1>2. now \in Nat
  BY SettingsAreNatural DEF TypeOK
<1> QED BY <1>1, <1>2 DEF Accounts

LEMMA FailedFields ==
    ASSUME TypeOK, NEW r \in Requests, RegisterFailedLogin(r)
    PROVE  /\ account' \in Accounts /\ account'.attempts < MaxFailed
           /\ account'.password = account.password
           /\ account.status = "deleted" => account' = account
           /\ account.status # "deleted" =>
                IF doc[r].attempts + 1 >= MaxFailed
                THEN account'.attempts = 0 /\ account'.locked = at[r] + Lockout
                ELSE account'.attempts = doc[r].attempts + 1 /\ account'.locked = account.locked
<1>1. /\ Lockout \in Nat /\ MaxFailed \in Nat \ {0} /\ at[r] \in Nat
      /\ doc[r].attempts \in Nat /\ doc[r].attempts < MaxFailed
  BY SettingsAreNatural, DocFields
<1>2. CASE account.status = "deleted"
  BY <1>2 DEF RegisterFailedLogin, Set, TypeOK
<1>3. CASE account.status # "deleted" /\ doc[r].attempts + 1 >= MaxFailed
  <2>1. account' = [account EXCEPT !.attempts = 0, !.locked = at[r] + Lockout]
    BY <1>3 DEF RegisterFailedLogin, Set, FailedLogin
  <2>2. at[r] + Lockout \in Nat /\ 0 < MaxFailed
    BY <1>1
  <2> QED BY <1>3, <2>1, <2>2, AccountFields DEF Accounts
<1>4. CASE account.status # "deleted" /\ ~(doc[r].attempts + 1 >= MaxFailed)
  <2>1. account' = [account EXCEPT !.attempts = doc[r].attempts + 1]
    BY <1>4 DEF RegisterFailedLogin, Set, FailedLogin
  <2>2. doc[r].attempts + 1 \in Nat /\ doc[r].attempts + 1 < MaxFailed
    BY <1>1, <1>4
  <2> QED BY <1>4, <2>1, <2>2, AccountFields DEF Accounts
<1> QED BY <1>2, <1>3, <1>4

LEMMA LoggedInFields ==
    ASSUME TypeOK, NEW r \in Requests, SucceedLogin(r)
    PROVE  /\ account' \in Accounts /\ account'.attempts < MaxFailed
           /\ account.status = "deleted" => account' = account
           /\ account.status # "deleted" =>
                /\ account'.attempts = 0 /\ account'.locked = -1
                /\ account'.password = IF doc[r].old THEN doc[r].password ELSE account.password
<1>1. 0 < MaxFailed
  BY SettingsAreNatural
<1>2. CASE account.status = "deleted"
  BY <1>2 DEF SucceedLogin, Set, TypeOK
<1>3. CASE account.status # "deleted"
  <2> DEFINE cleared == [account EXCEPT !.attempts = 0, !.locked = -1]
  <2>1. /\ cleared \in Accounts
        /\ cleared.attempts = 0 /\ cleared.locked = -1 /\ cleared.password = account.password
    BY AccountFields DEF Accounts
  <2>2. account' = IF doc[r].old THEN [cleared EXCEPT !.password = doc[r].password, !.old = FALSE]
                   ELSE cleared
    BY <1>3 DEF SucceedLogin, Set, LoggedIn
  <2> HIDE DEF cleared
  <2> QED BY <1>1, <1>3, <2>1, <2>2, DocFields DEF Accounts
<1> QED BY <1>2, <1>3

LEMMA ChangedFields ==
    ASSUME TypeOK, NEW r \in Requests, WriteChange(r)
    PROVE  /\ account' \in Accounts /\ account'.attempts = account.attempts
           /\ account'.locked = account.locked
           /\ account.status = "deleted" => account' = account
           /\ account.status # "deleted" => account'.password = r
<1>1. CASE account.status = "deleted"
  BY <1>1 DEF WriteChange, Set, TypeOK
<1>2. CASE account.status # "deleted"
  <2>1. account' = [account EXCEPT !.password = r, !.old = FALSE]
    BY <1>2 DEF WriteChange, Set
  <2> QED BY <1>2, <2>1, AccountFields DEF Accounts, Passwords
<1> QED BY <1>1, <1>2

LEMMA ResetFields ==
    ASSUME TypeOK, NEW r \in Requests, WriteReset(r)
    PROVE  /\ account' \in Accounts /\ account'.attempts < MaxFailed
           /\ account.status = "deleted" => account' = account
           /\ account.status # "deleted" => account'.password = r
<1>1. 0 < MaxFailed
  BY SettingsAreNatural
<1>2. CASE account.status = "deleted"
  BY <1>2 DEF WriteReset, Set, TypeOK
<1>3. CASE account.status # "deleted"
  <2>1. account' = [account EXCEPT !.password = r, !.old = FALSE, !.attempts = 0, !.locked = -1]
    BY <1>3 DEF WriteReset, Set
  <2> QED BY <1>1, <1>3, <2>1, AccountFields DEF Accounts, Passwords
<1> QED BY <1>2, <1>3

LEMMA AdministeredFields ==
    ASSUME TypeOK, NEW status \in {"active", "disabled", "deleted"}, Administer(status)
    PROVE  /\ account' \in Accounts /\ account'.attempts = account.attempts
           /\ account'.locked = account.locked /\ account'.password = account.password
           /\ account.status # "deleted"
<1>1. account' = [account EXCEPT !.status = status] /\ account.status # "deleted"
  BY DEF Administer
<1> QED BY <1>1, AccountFields DEF Accounts

(***************************************************************************)
(* What a request at an await asks for, and what its copy of the account   *)
(* was checked for.  A link is mailed once its request is over.            *)
(***************************************************************************)
Fits(r) ==
    /\ pc[r] \in {"find", "write", "mark", "204"} =>
            call[r].type = "reset" /\ call[r].link \in mailed
    /\ pc[r] \in {"fail", "succeed"} =>
            doc[r].status # "deleted" /\ (doc[r].locked = -1 \/ doc[r].locked <= at[r])

CallFits ==
    /\ \A r \in Requests : Fits(r)
    /\ \A r \in mailed : pc[r] = "202"

LEMMA CallFields ==
    ASSUME NEW c \in Calls PROVE c.type \in Types /\ c.link \in Requests
  BY DEF Calls

(***************************************************************************)
(* What a step of one request leaves alone, and what every step does.      *)
(***************************************************************************)
LEMMA Frame ==
    ASSUME TypeOK, NEW r \in Requests, Step(r)
    PROVE  /\ \A o \in Requests \ {r} :
                pc'[o] = pc[o] /\ call'[o] = call[o] /\ doc'[o] = doc[o] /\ at'[o] = at[o]
           /\ pc[r] # "new" => call'[r] = call[r] /\ doc'[r] = doc[r] /\ at'[r] = at[r]
           /\ pc[r] \notin Answers
           /\ now' = now
           /\ mailed \subseteq mailed' /\ late \subseteq late' /\ overtaken \subseteq overtaken'
<1> USE DEF TypeOK
<1>1. CASE Login(r)
  BY <1>1 DEF Login, Asks
<1>2. CASE RegisterFailedLogin(r) \/ SucceedLogin(r)
  BY <1>2 DEF RegisterFailedLogin, SucceedLogin
<1>3. CASE ChangePassword(r)
  BY <1>3 DEF ChangePassword, Asks
<1>4. CASE WriteChange(r)
  BY <1>4 DEF WriteChange
<1>5. CASE RequestReset(r)
  BY <1>5 DEF RequestReset, Asks
<1>6. CASE InvalidateLinks(r) \/ CreateLink(r) \/ SendLink(r)
  BY <1>6 DEF InvalidateLinks, CreateLink, SendLink
<1>7. ASSUME NEW l \in Requests, ResetPassword(r, l)
      PROVE  /\ \A o \in Requests \ {r} :
                pc'[o] = pc[o] /\ call'[o] = call[o] /\ doc'[o] = doc[o] /\ at'[o] = at[o]
             /\ pc[r] = "new"
             /\ now' = now
             /\ mailed \subseteq mailed' /\ late \subseteq late' /\ overtaken \subseteq overtaken'
  BY <1>7 DEF ResetPassword, Asks
<1>8. CASE FindUser(r)
  BY <1>8 DEF FindUser
<1>9. CASE WriteReset(r)
  BY <1>9 DEF WriteReset
<1>10. CASE MarkUsed(r)
  BY <1>10 DEF MarkUsed
<1> QED BY <1>1, <1>2, <1>3, <1>4, <1>5, <1>6, <1>7, <1>8, <1>9, <1>10 DEF Step

LEMMA Asked ==
    ASSUME TypeOK, NEW r \in Requests, NEW type \in Types, NEW l \in Requests, Asks(r, type, l)
    PROVE  /\ call' \in [Requests -> Calls \cup {NoCall}]
           /\ call'[r] \in Calls /\ call'[r].type = type /\ call'[r].link = l
           /\ \A o \in Requests \ {r} : call'[o] = call[o]
<1>1. [type |-> type, link |-> l] \in Calls
  BY DEF Calls
<1> HIDE DEF Calls
<1> QED BY <1>1 DEF Asks, TypeOK

LEMMA TypeInit == ASSUME Init PROVE TypeOK /\ CallFits
<1>1. account \in Accounts /\ account.attempts = 0
  BY DEF Init, Accounts, Passwords
<1>2. 0 < MaxFailed /\ 0 \in 0..MaxTime
  BY SettingsAreNatural
<1>3. \A r \in Requests : doc[r] = account
  BY DEF Init
<1>4. links \in [Requests -> Links]
  BY DEF Init, NoLink, Links
<1> HIDE DEF Accounts
<1> QED BY <1>1, <1>2, <1>3, <1>4 DEF Init, TypeOK, CallFits, Fits, Passwords

LEMMA TypeStep ==
    ASSUME TypeOK, CallFits, NEW r \in Requests, Step(r)
    PROVE  TypeOK'
<1>1. CASE Login(r)
  <2>1. Asks(r, "login", r) /\ pc'[r] \in Awaits \cup Answers
    BY <1>1 DEF Login, TypeOK
  <2>2. now \in Nat
    BY DocFields
  <2> QED BY <1>1, <2>1, <2>2, Asked DEF Login, TypeOK, Types
<1>2. CASE RegisterFailedLogin(r)
  <2>1. failures' \in Nat
    BY <1>2 DEF RegisterFailedLogin, TypeOK
  <2>2. late' \subseteq Requests
    BY <1>2 DEF RegisterFailedLogin, TypeOK
  <2>3. account' \in Accounts /\ account'.attempts < MaxFailed
    BY <1>2, FailedFields
  <2>4. /\ pc' \in [Requests -> {"new"} \cup Awaits \cup Answers]
        /\ \A o \in Requests : pc'[o] # "new" => pc[o] # "new"
    BY <1>2 DEF RegisterFailedLogin, TypeOK
  <2>5. UNCHANGED <<links, mailed, now, call, doc, at, chosen, overtaken>>
    BY <1>2 DEF RegisterFailedLogin
  <2> QED BY <2>1, <2>2, <2>3, <2>4, <2>5 DEF TypeOK
<1>3. CASE SucceedLogin(r)
  BY <1>3, LoggedInFields DEF SucceedLogin, TypeOK
<1>4. CASE ChangePassword(r)
  <2>1. Asks(r, "change", r) /\ pc'[r] \in Awaits \cup Answers
    BY <1>4 DEF ChangePassword, TypeOK
  <2> QED BY <1>4, <2>1, Asked DEF ChangePassword, TypeOK, Types
<1>5. CASE WriteChange(r)
  <2>1. chosen' \in Passwords
    BY <1>5 DEF WriteChange, TypeOK, Passwords
  <2> QED BY <1>5, <2>1, ChangedFields DEF WriteChange, TypeOK
<1>6. CASE RequestReset(r)
  <2>1. Asks(r, "forgot", r) /\ pc'[r] \in Awaits \cup Answers
    BY <1>6 DEF RequestReset, TypeOK
  <2> QED BY <1>6, <2>1, Asked DEF RequestReset, TypeOK, Types
<1>7. CASE InvalidateLinks(r)
  <2>1. links' \in [Requests -> Links]
    BY <1>7 DEF InvalidateLinks, Invalidated, TypeOK, Links
  <2> QED BY <1>7, <2>1 DEF InvalidateLinks, TypeOK
<1>8. CASE CreateLink(r)
  <2>1. now + ResetTtl \in Nat
    BY DocFields, SettingsAreNatural
  <2>2. links' \in [Requests -> Links]
    BY <1>8, <2>1 DEF CreateLink, TypeOK, Links
  <2> QED BY <1>8, <2>2 DEF CreateLink, TypeOK
<1>9. CASE SendLink(r)
  BY <1>9 DEF SendLink, TypeOK
<1>10. ASSUME NEW l \in Requests, ResetPassword(r, l) PROVE TypeOK'
  <2>1. Asks(r, "reset", l) /\ pc'[r] \in Awaits \cup Answers
    BY <1>10 DEF ResetPassword, TypeOK
  <2> QED BY <1>10, <2>1, Asked DEF ResetPassword, TypeOK, Types
<1>11. CASE FindUser(r)
  BY <1>11 DEF FindUser, TypeOK
<1>12. CASE WriteReset(r)
  <2>1. chosen' \in Passwords
    BY <1>12 DEF WriteReset, TypeOK, Passwords
  <2> QED BY <1>12, <2>1, ResetFields DEF WriteReset, TypeOK
<1>13. CASE MarkUsed(r)
  <2>1. call[r].link \in Requests
    BY <1>13, CallFields DEF MarkUsed, TypeOK
  <2>2. links' \in [Requests -> Links]
    <3> DEFINE l == call[r].link
    <3>1. [links[l] EXCEPT !.used = links[l].stored] \in Links
      BY <2>1 DEF TypeOK, Links
    <3>2. links' = [links EXCEPT ![l] = [links[l] EXCEPT !.used = links[l].stored]]
      BY <1>13 DEF MarkUsed
    <3> HIDE DEF l
    <3> QED BY <3>1, <3>2 DEF TypeOK
  <2> QED BY <1>13, <2>2 DEF MarkUsed, TypeOK
<1> QED BY <1>1, <1>2, <1>3, <1>4, <1>5, <1>6, <1>7, <1>8, <1>9, <1>10, <1>11, <1>12, <1>13
        DEF Step

LEMMA FitsStep ==
    ASSUME TypeOK, CallFits, NEW r \in Requests, Step(r)
    PROVE  CallFits'
<1>1. /\ \A o \in Requests \ {r} :
            pc'[o] = pc[o] /\ call'[o] = call[o] /\ doc'[o] = doc[o] /\ at'[o] = at[o]
      /\ pc[r] # "new" => call'[r] = call[r] /\ doc'[r] = doc[r] /\ at'[r] = at[r]
      /\ mailed \subseteq mailed'
  BY Frame
<1>2. \A o \in Requests \ {r} : Fits(o)'
  BY <1>1 DEF CallFits, Fits
<1>3. Fits(r) /\ r \notin mailed
  BY Frame DEF CallFits
<1>4. ASSUME NEW l \in Requests, ResetPassword(r, l)
      PROVE  /\ call'[r].type = "reset" /\ call'[r].link = l /\ l \in mailed
             /\ mailed' = mailed /\ pc'[r] \in {"find", "400"}
  <2>1. Asks(r, "reset", l)
    BY <1>4 DEF ResetPassword
  <2> QED BY <1>4, <2>1, Asked DEF ResetPassword, Types, TypeOK
<1>5. Fits(r)'
  <2> USE DEF TypeOK
  <2>1. CASE Login(r)
    <3>1. doc'[r] = account /\ at'[r] = now
      BY <2>1 DEF Login
    <3>2. /\ pc'[r] \in {"401", "429", "fail", "succeed", "403"}
          /\ pc'[r] \in {"fail", "succeed"} => account.status # "deleted" /\ ~Locked
      BY <2>1 DEF Login
    <3>3. ~Locked => account.locked = -1 \/ account.locked <= now
      <4>1. account.locked \in Int /\ now \in Int
        BY AccountFields, DocFields
      <4> QED BY <4>1 DEF Locked
    <3> QED BY <3>1, <3>2, <3>3 DEF Fits
  <2>2. CASE RegisterFailedLogin(r) \/ SucceedLogin(r)
    BY <2>2 DEF RegisterFailedLogin, SucceedLogin, Fits
  <2>3. CASE ChangePassword(r)
    BY <2>3 DEF ChangePassword, Fits
  <2>4. CASE WriteChange(r)
    BY <2>4 DEF WriteChange, Fits
  <2>5. CASE RequestReset(r)
    BY <2>5 DEF RequestReset, Fits
  <2>6. CASE InvalidateLinks(r) \/ CreateLink(r) \/ SendLink(r)
    BY <2>6 DEF InvalidateLinks, CreateLink, SendLink, Fits
  <2>7. CASE \E l \in Requests : ResetPassword(r, l)
    BY <1>4, <2>7 DEF Fits
  <2>8. CASE FindUser(r)
    BY <1>1, <1>3, <2>8 DEF FindUser, Fits
  <2>9. CASE WriteReset(r)
    BY <1>1, <1>3, <2>9 DEF WriteReset, Fits
  <2>10. CASE MarkUsed(r)
    BY <1>1, <1>3, <2>10 DEF MarkUsed, Fits
  <2> QED BY <2>1, <2>2, <2>3, <2>4, <2>5, <2>6, <2>7, <2>8, <2>9, <2>10 DEF Step
<1>6. ASSUME NEW o \in mailed' PROVE pc'[o] = "202"
  <2>1. o \in mailed \/ (o = r /\ pc'[r] = "202")
    BY DEF Step, TypeOK, Login, RegisterFailedLogin, SucceedLogin, ChangePassword, WriteChange,
           RequestReset, InvalidateLinks, CreateLink, SendLink, ResetPassword, FindUser,
           WriteReset, MarkUsed
  <2> QED BY <1>1, <1>3, <2>1 DEF CallFits, TypeOK
<1> QED BY <1>2, <1>5, <1>6 DEF CallFits

LEMMA EnvironmentStep ==
    ASSUME TypeOK, CallFits, Environment
    PROVE  /\ TypeOK' /\ CallFits'
           /\ UNCHANGED <<mailed, pc, call, doc, at, history>>
<1>1. UNCHANGED <<mailed, pc, call, doc, at, history>>
  BY DEF Environment, Purge, Administer, Tick
<1>2. now' \in 0..MaxTime /\ now <= now'
  BY SettingsAreNatural DEF Environment, Purge, Administer, Tick, TypeOK
<1>3. account' \in Accounts /\ account'.attempts < MaxFailed
  <2>1. account' = account \/ \E status \in {"active", "disabled", "deleted"} : Administer(status)
    BY DEF Environment, Purge, Tick
  <2> QED BY <2>1, AdministeredFields DEF TypeOK
<1>4. links' \in [Requests -> Links]
  <2>1. links' = links \/ \E l \in Requests : links' = [links EXCEPT ![l] = NoLink]
    BY DEF Environment, Purge, Administer, Tick
  <2>2. NoLink \in Links
    BY DEF NoLink, Links
  <2> QED BY <2>1, <2>2 DEF TypeOK
<1>5. \A r \in Requests : at'[r] <= now'
  BY <1>1, <1>2, SettingsAreNatural DEF TypeOK
<1>6. TypeOK'
  BY <1>1, <1>2, <1>3, <1>4, <1>5 DEF TypeOK
<1>7. CallFits'
  BY <1>1 DEF CallFits, Fits
<1> QED BY <1>1, <1>6, <1>7

LEMMA Stutter == ASSUME TypeOK, CallFits, UNCHANGED vars PROVE TypeOK' /\ CallFits'
  BY DEF vars, TypeOK, CallFits, Fits

LEMMA TypeNext == ASSUME TypeOK, CallFits, [Next]_vars PROVE TypeOK' /\ CallFits'
  BY TypeStep, FitsStep, EnvironmentStep, Stutter, Steps

(***************************************************************************)
(* The account, the links and the requests keep their types, and the       *)
(* counter stays below the limit.                                          *)
(***************************************************************************)
THEOREM TypeCorrect == Spec => []TypeOK
  BY TypeInit, TypeNext, PTL DEF Spec
-----------------------------------------------------------------------------
(***************************************************************************)
(* LockAfterMaxFailed: while every login wrote from a document that was    *)
(* still true, the counter in the document is no less than the failures    *)
(* recorded.                                                               *)
(***************************************************************************)
Counted == late # {} \/ failures <= account.attempts

LEMMA CountedStep ==
    ASSUME TypeOK, CallFits, Counted, [Next]_vars
    PROVE  Counted'
<1>1. failures \in Nat /\ account.attempts \in Nat
  BY AccountFields DEF TypeOK
<1>2. ASSUME NEW r \in Requests, RegisterFailedLogin(r) PROVE Counted'
  <2>1. CASE doc[r] # account
    BY <1>2, <2>1 DEF RegisterFailedLogin, Counted
  <2>2. CASE doc[r] = account
    <3>1. account.status # "deleted"
      BY <1>2, <2>2 DEF RegisterFailedLogin, CallFits, Fits
    <3>2. \/ account'.attempts = 0 /\ account'.locked = at[r] + Lockout
          \/ account'.attempts = account.attempts + 1
      BY <1>2, <2>2, <3>1, FailedFields
    <3>3. \/ failures' = 0
          \/ failures' = failures + 1 /\ account'.locked # at[r] + Lockout
      BY <1>2 DEF RegisterFailedLogin
    <3>4. failures' <= account'.attempts \/ failures > account.attempts
      BY <1>1, <3>2, <3>3
    <3>5. late' = late
      BY <1>2, <2>2 DEF RegisterFailedLogin
    <3> QED BY <1>1, <3>4, <3>5 DEF Counted
  <2> QED BY <2>1, <2>2
<1>3. ASSUME NEW r \in Requests, SucceedLogin(r) PROVE Counted'
  <2>1. failures' = 0 /\ account'.attempts \in Nat
    BY <1>3, LoggedInFields DEF SucceedLogin, Accounts
  <2> QED BY <2>1 DEF Counted
<1>4. ASSUME NEW r \in Requests, WriteChange(r) PROVE Counted'
  BY <1>4, ChangedFields DEF WriteChange, Counted
<1>5. ASSUME NEW r \in Requests, WriteReset(r) PROVE Counted'
  <2>1. failures' = 0 /\ account'.attempts \in Nat
    BY <1>5, ResetFields DEF WriteReset, Accounts
  <2> QED BY <2>1 DEF Counted
<1>6. CASE Environment
  <2>1. UNCHANGED <<failures, late>>
    BY <1>6, EnvironmentStep
  <2>2. account'.attempts = account.attempts
    BY <1>6, AdministeredFields DEF Environment, Purge, Tick
  <2> QED BY <2>1, <2>2 DEF Counted
<1>7. CASE UNCHANGED <<account, failures, late>>
  BY <1>7 DEF Counted
<1>8. ASSUME NEW r \in Requests, Step(r)
      PROVE  \/ RegisterFailedLogin(r) \/ SucceedLogin(r) \/ WriteChange(r) \/ WriteReset(r)
             \/ UNCHANGED <<account, failures, late>>
  BY <1>8 DEF Step, Login, ChangePassword, RequestReset, InvalidateLinks, CreateLink, SendLink,
        ResetPassword, FindUser, MarkUsed
<1> QED BY <1>2, <1>3, <1>4, <1>5, <1>6, <1>7, <1>8, Steps DEF vars

(***************************************************************************)
(* MaxFailed failures are never recorded without a lock, a success or a    *)
(* reset among them, unless one counted from a document out of date.       *)
(***************************************************************************)
THEOREM LockComesInTime == Spec => []LockAfterMaxFailed
<1>1. Init => Counted
  BY DEF Init, Counted
<1>2. /\ TypeOK /\ CallFits /\ Counted /\ [Next]_vars
      => TypeOK' /\ CallFits' /\ Counted'
  BY TypeNext, CountedStep
<1>3. TypeOK /\ Counted => LockAfterMaxFailed
  <2> SUFFICES ASSUME TypeOK, Counted PROVE LockAfterMaxFailed
    OBVIOUS
  <2>1. /\ failures \in Int /\ account.attempts \in Int /\ MaxFailed \in Int
        /\ account.attempts < MaxFailed
    BY AccountFields, SettingsAreNatural DEF TypeOK
  <2> QED BY <2>1 DEF Counted, LockAfterMaxFailed
<1> QED BY TypeInit, <1>1, <1>2, <1>3, PTL DEF Spec
-----------------------------------------------------------------------------
(***************************************************************************)
(* LockHolds: a login whose document is still true found it unlocked, and  *)
(* time has not turned back since.                                         *)
(***************************************************************************)
LockStays ==
    account.locked > now /\ account'.locked < account.locked =>
        \E r \in Requests :
            /\ pc'[r] # pc[r]
            /\ call[r].type = "reset" \/ (pc[r] \in {"fail", "succeed"} /\ doc[r] # account)

LEMMA LockStep ==
    ASSUME TypeOK, CallFits, [Next]_vars
    PROVE  LockStays
<1> SUFFICES ASSUME account.locked > now, account'.locked < account.locked
             PROVE  \E r \in Requests :
                        /\ pc'[r] # pc[r]
                        /\ \/ call[r].type = "reset"
                           \/ pc[r] \in {"fail", "succeed"} /\ doc[r] # account
  BY DEF LockStays
<1>1. now \in Int /\ account.locked \in Int /\ ~(account.locked < account.locked)
  BY AccountFields, SettingsAreNatural DEF TypeOK
<1>2. ASSUME NEW r \in Requests, pc[r] \in {"fail", "succeed"} PROVE doc[r] # account
  <2>1. account.locked # -1 /\ ~(account.locked <= at[r])
    <3>1. at[r] \in Int /\ at[r] <= now /\ 0 <= now
      BY DocFields, SettingsAreNatural DEF TypeOK
    <3> QED BY <1>1, <3>1
  <2> QED BY <1>2, <2>1 DEF CallFits, Fits
<1>3. ASSUME NEW r \in Requests, RegisterFailedLogin(r) \/ SucceedLogin(r)
      PROVE  pc'[r] # pc[r] /\ pc[r] \in {"fail", "succeed"} /\ doc[r] # account
  BY <1>2, <1>3 DEF RegisterFailedLogin, SucceedLogin, TypeOK
<1>4. ASSUME NEW r \in Requests, WriteReset(r)
      PROVE  pc'[r] # pc[r] /\ call[r].type = "reset"
  BY <1>4 DEF WriteReset, TypeOK, CallFits, Fits
<1>5. ASSUME NEW r \in Requests, WriteChange(r) PROVE FALSE
  BY <1>1, <1>5, ChangedFields
<1>6. ASSUME Environment PROVE account'.locked = account.locked
  BY <1>6, AdministeredFields DEF Environment, Purge, Tick
<1>7. ASSUME NEW r \in Requests, Step(r)
      PROVE  \/ RegisterFailedLogin(r) \/ SucceedLogin(r) \/ WriteChange(r) \/ WriteReset(r)
             \/ UNCHANGED account
  BY <1>7 DEF Step, Login, ChangePassword, RequestReset, InvalidateLinks, CreateLink, SendLink,
        ResetPassword, FindUser, MarkUsed
<1> QED BY <1>1, <1>3, <1>4, <1>5, <1>6, <1>7, Steps DEF vars

(***************************************************************************)
(* A lock is lifted or brought forward before its time only by a reset, or *)
(* by a login that had read the account before it last changed.            *)
(***************************************************************************)
THEOREM LockIsKept == Spec => LockHolds
<1>1. TypeOK /\ CallFits /\ [Next]_vars => LockStays
  BY LockStep
<1>2. TypeOK /\ CallFits /\ [Next]_vars => TypeOK' /\ CallFits'
  BY TypeNext
<1> QED BY TypeInit, <1>1, <1>2, PTL DEF Spec, LockHolds, LockStays
-----------------------------------------------------------------------------
(***************************************************************************)
(* PasswordIsTheLastChosen.                                                *)
(***************************************************************************)
Rehashed == \E r \in late : pc[r] = "200" /\ doc[r].old

LEMMA RehashedStays == ASSUME TypeOK, CallFits, Rehashed, [Next]_vars PROVE Rehashed'
<1>1. PICK r \in late : pc[r] = "200" /\ doc[r].old
  BY DEF Rehashed
<1>2. r \in Requests
  BY DEF TypeOK
<1>3. ASSUME NEW o \in Requests, Step(o) PROVE Rehashed'
  <2>1. r # o /\ r \in late'
    BY <1>1, <1>3, Frame
  <2> QED BY <1>1, <1>2, <1>3, <2>1, Frame DEF Rehashed
<1>4. CASE Environment
  BY <1>4, EnvironmentStep DEF Rehashed
<1>5. CASE UNCHANGED vars
  BY <1>5 DEF Rehashed, vars
<1> QED BY <1>3, <1>4, <1>5, Steps

LEMMA PasswordStep ==
    ASSUME TypeOK, CallFits, PasswordIsTheLastChosen, [Next]_vars
    PROVE  PasswordIsTheLastChosen'
<1>1. CASE Rehashed
  BY <1>1, RehashedStays DEF Rehashed, PasswordIsTheLastChosen
<1> SUFFICES ASSUME account.password = chosen PROVE PasswordIsTheLastChosen'
  BY <1>1 DEF Rehashed, PasswordIsTheLastChosen
<1>2. ASSUME NEW r \in Requests, RegisterFailedLogin(r) PROVE PasswordIsTheLastChosen'
  BY <1>2, FailedFields DEF RegisterFailedLogin, PasswordIsTheLastChosen
<1>3. ASSUME NEW r \in Requests, SucceedLogin(r) PROVE PasswordIsTheLastChosen'
  <2>1. chosen' = chosen /\ doc' = doc /\ pc'[r] = "200"
    BY <1>3 DEF SucceedLogin, TypeOK
  <2>2. CASE doc[r] = account \/ ~doc[r].old \/ account.status = "deleted"
    BY <1>3, <2>1, <2>2, LoggedInFields DEF PasswordIsTheLastChosen
  <2>3. CASE doc[r] # account /\ doc[r].old
    <3>1. r \in late'
      BY <1>3, <2>3 DEF SucceedLogin
    <3> QED BY <2>1, <2>3, <3>1 DEF PasswordIsTheLastChosen
  <2> QED BY <2>2, <2>3
<1>4. ASSUME NEW r \in Requests, WriteChange(r) PROVE PasswordIsTheLastChosen'
  BY <1>4, ChangedFields DEF WriteChange, PasswordIsTheLastChosen
<1>5. ASSUME NEW r \in Requests, WriteReset(r) PROVE PasswordIsTheLastChosen'
  BY <1>5, ResetFields DEF WriteReset, PasswordIsTheLastChosen
<1>6. CASE Environment
  <2>1. chosen' = chosen
    BY <1>6, EnvironmentStep
  <2>2. account'.password = account.password
    BY <1>6, AdministeredFields DEF Environment, Purge, Tick
  <2> QED BY <2>1, <2>2 DEF PasswordIsTheLastChosen
<1>7. CASE UNCHANGED <<account, chosen>>
  BY <1>7 DEF PasswordIsTheLastChosen
<1>8. ASSUME NEW r \in Requests, Step(r)
      PROVE  \/ RegisterFailedLogin(r) \/ SucceedLogin(r) \/ WriteChange(r) \/ WriteReset(r)
             \/ UNCHANGED <<account, chosen>>
  BY <1>8 DEF Step, Login, ChangePassword, RequestReset, InvalidateLinks, CreateLink, SendLink,
        ResetPassword, FindUser, MarkUsed
<1> QED BY <1>2, <1>3, <1>4, <1>5, <1>6, <1>7, <1>8, Steps DEF vars

(***************************************************************************)
(* The password stored is the one chosen last, unless a login rehashed a   *)
(* password that was changed while it ran.                                 *)
(***************************************************************************)
THEOREM PasswordIsKept == Spec => []PasswordIsTheLastChosen
<1>1. Init => PasswordIsTheLastChosen
  BY DEF Init, PasswordIsTheLastChosen
<1>2. /\ TypeOK /\ CallFits /\ PasswordIsTheLastChosen /\ [Next]_vars
      => TypeOK' /\ CallFits' /\ PasswordIsTheLastChosen'
  BY TypeNext, PasswordStep
<1> QED BY TypeInit, <1>1, <1>2, PTL DEF Spec
-----------------------------------------------------------------------------
(***************************************************************************)
(* The links.  A reset that is over has left its link useless; a reset     *)
(* that has looked at a link another one spends, or has spent, is in       *)
(* `overtaken`; one that is about to create its link has left no other     *)
(* usable, or is in `overtaken`.                                           *)
(***************************************************************************)
Open(l) == links[l].stored /\ ~links[l].used

SpentIsClosed == \A r, l \in Requests : pc[r] = "204" /\ call[r].link = l => ~Open(l)

LookedBefore ==
    \A r, o \in Requests :
        /\ pc[r] \in {"find", "write"} /\ pc[o] \in {"mark", "204"}
        /\ call[r].link = call[o].link
        => r \in overtaken

OthersClosed ==
    \A r \in Requests : pc[r] = "create" => r \in overtaken \/ \A l \in Requests : ~Open(l)

OneOpen == \A l, m \in Requests : Open(l) /\ Open(m) => l = m \/ l \in overtaken \/ m \in overtaken

LinkInv == SpentIsClosed /\ LookedBefore /\ LinkIsUsedOnce /\ OthersClosed /\ OneOpen

\* A link that a mailed one's request created is closed for good.
LEMMA LinksOpened ==
    ASSUME TypeOK, CallFits, [Next]_vars, NEW l \in Requests, Open(l)'
    PROVE  Open(l) \/ (CreateLink(l) /\ l \notin mailed)
<1>1. ASSUME NEW r \in Requests, CreateLink(r) PROVE Open(l) \/ (CreateLink(l) /\ l \notin mailed)
  <2>1. CASE l = r
    BY <1>1, <2>1 DEF CreateLink, CallFits
  <2>2. CASE l # r
    BY <1>1, <2>2 DEF CreateLink, TypeOK, Open
  <2> QED BY <2>1, <2>2
<1>2. ASSUME NEW r \in Requests, InvalidateLinks(r) PROVE Open(l)
  BY <1>2 DEF InvalidateLinks, Invalidated, TypeOK, Open
<1>3. ASSUME NEW r \in Requests, MarkUsed(r) PROVE Open(l)
  <2> DEFINE k == call[r].link
  <2>1. links' = [links EXCEPT ![k] = [links[k] EXCEPT !.used = links[k].stored]]
    BY <1>3 DEF MarkUsed
  <2> HIDE DEF k
  <2>2. CASE l = k
    <3>1. links'[l] = [links[l] EXCEPT !.used = links[l].stored]
      BY <2>1, <2>2 DEF TypeOK
    <3>2. links[l] \in Links
      BY DEF TypeOK
    <3>3. links'[l].used = links[l].stored /\ links'[l].stored = links[l].stored
      BY <3>1, <3>2 DEF Links
    <3> QED BY <3>3 DEF Open
  <2>3. CASE l # k
    BY <2>1, <2>3 DEF TypeOK, Open
  <2> QED BY <2>2, <2>3
<1>4. ASSUME NEW r \in Requests, Purge(r) PROVE Open(l)
  BY <1>4 DEF Purge, NoLink, TypeOK, Open
<1>5. CASE links' = links
  BY <1>5 DEF Open
<1>6. ASSUME NEW r \in Requests, Step(r)
      PROVE  CreateLink(r) \/ InvalidateLinks(r) \/ MarkUsed(r) \/ links' = links
  BY <1>6 DEF Step, Login, RegisterFailedLogin, SucceedLogin, ChangePassword, WriteChange,
        RequestReset, SendLink, ResetPassword, FindUser, WriteReset
<1>7. ASSUME Environment PROVE (\E r \in Requests : Purge(r)) \/ links' = links
  BY <1>7 DEF Environment, Administer, Tick
<1> QED BY <1>1, <1>2, <1>3, <1>4, <1>5, <1>6, <1>7, Steps DEF vars

\* Who is where after a step.
LEMMA Moves ==
    ASSUME TypeOK, [Next]_vars, NEW o \in Requests, pc'[o] # pc[o]
    PROVE  /\ Step(o)
           /\ pc'[o] = "write" => FindUser(o)
           /\ pc'[o] = "mark" => WriteReset(o)
           /\ pc'[o] = "204" => MarkUsed(o)
           /\ pc'[o] = "create" => InvalidateLinks(o)
           /\ pc'[o] = "find" => \E l \in Requests : ResetPassword(o, l)
<1>1. ~Environment /\ ~(UNCHANGED vars)
  BY DEF Environment, Purge, Administer, Tick, vars
<1>2. Step(o)
  BY <1>1, Steps, Frame
<1> QED BY <1>2 DEF TypeOK, Step, Login, RegisterFailedLogin, SucceedLogin, ChangePassword,
        WriteChange, RequestReset, InvalidateLinks, CreateLink, SendLink, ResetPassword,
        FindUser, WriteReset, MarkUsed

LEMMA KeepsCalls ==
    ASSUME TypeOK, [Next]_vars
    PROVE  /\ \A o \in Requests : pc[o] # "new" => call'[o] = call[o]
           /\ \A o \in Requests : pc'[o] = pc[o] => call'[o] = call[o]
           /\ overtaken \subseteq overtaken' /\ mailed \subseteq mailed'
<1>1. ASSUME NEW r \in Requests, Step(r), NEW o \in Requests
      PROVE  /\ pc[o] # "new" => call'[o] = call[o]
             /\ pc'[o] = pc[o] => call'[o] = call[o]
             /\ overtaken \subseteq overtaken' /\ mailed \subseteq mailed'
  <2>1. pc'[r] # "new"
    BY <1>1 DEF TypeOK, Step, Login, RegisterFailedLogin, SucceedLogin, ChangePassword,
        WriteChange, RequestReset, InvalidateLinks, CreateLink, SendLink, ResetPassword,
        FindUser, WriteReset, MarkUsed
  <2> QED BY <1>1, <2>1, Frame
<1>2. CASE Environment
  BY <1>2 DEF Environment, Purge, Administer, Tick
<1>3. CASE UNCHANGED vars
  BY <1>3 DEF vars
<1>4. ASSUME NEW r \in Requests, Step(r)
      PROVE  overtaken \subseteq overtaken' /\ mailed \subseteq mailed'
  BY <1>4, Frame
<1> QED BY <1>1, <1>2, <1>3, <1>4, Steps

LEMMA SpentStep ==
    ASSUME TypeOK, CallFits, SpentIsClosed, [Next]_vars
    PROVE  SpentIsClosed'
<1> SUFFICES ASSUME NEW r \in Requests, NEW l \in Requests,
                    pc'[r] = "204", call'[r].link = l, Open(l)'
             PROVE  FALSE
  BY DEF SpentIsClosed
<1>1. CASE pc[r] = "204"
  <2>1. call'[r] = call[r]
    BY <1>1, KeepsCalls
  <2>2. l \in mailed
    BY <1>1, <2>1 DEF CallFits, Fits
  <2> QED BY <1>1, <2>1, <2>2, LinksOpened DEF SpentIsClosed
<1>2. CASE pc[r] # "204"
  <2>1. MarkUsed(r)
    BY <1>2, Moves
  <2>2. call'[r] = call[r]
    BY <2>1 DEF MarkUsed
  <2>3. links' = [links EXCEPT ![l] = [links[l] EXCEPT !.used = links[l].stored]]
    BY <2>1, <2>2 DEF MarkUsed
  <2>4. links'[l] = [links[l] EXCEPT !.used = links[l].stored] /\ links[l] \in Links
    BY <2>3 DEF TypeOK
  <2>5. links'[l].used = links[l].stored /\ links'[l].stored = links[l].stored
    BY <2>4 DEF Links
  <2> QED BY <2>5 DEF Open
<1> QED BY <1>1, <1>2

LEMMA LookedStep ==
    ASSUME TypeOK, CallFits, SpentIsClosed, LookedBefore, [Next]_vars
    PROVE  LookedBefore'
<1> SUFFICES ASSUME NEW r \in Requests, NEW o \in Requests,
                    pc'[r] \in {"find", "write"}, pc'[o] \in {"mark", "204"},
                    call'[r].link = call'[o].link
             PROVE  r \in overtaken'
  BY DEF LookedBefore
<1>1. r # o
  OBVIOUS
<1>2. CASE \E l \in Requests : ResetPassword(r, l)
  <2>1. PICK l \in Requests : ResetPassword(r, l)
    BY <1>2
  <2>2. Asks(r, "reset", l) /\ Step(r) /\ pc'[r] = "find"
    BY <2>1 DEF ResetPassword, Step, TypeOK
  <2>3. call'[r].link = l
    BY <2>2, Asked DEF Types
  <2>4. pc[o] = pc'[o] /\ call[o] = call'[o]
    BY <1>1, <2>2, Frame
  <2>5. Usable(l)
    BY <2>1, <2>2 DEF ResetPassword, TypeOK
  <2>6. pc[o] # "204"
    BY <2>3, <2>4, <2>5 DEF SpentIsClosed, Open, Usable
  <2>7. pc[o] = "mark" /\ call[o].type = "reset" /\ call[o].link = l
    BY <2>3, <2>4, <2>6 DEF CallFits, Fits
  <2>8. o \in Spenders(l)
    BY <2>7 DEF Spenders
  <2> QED BY <2>1, <2>7, <2>8 DEF ResetPassword
<1>3. CASE ~\E l \in Requests : ResetPassword(r, l)
  <2>1. pc[r] \in {"find", "write"} /\ call'[r] = call[r]
    <3>1. CASE pc'[r] = pc[r]
      BY <3>1, KeepsCalls
    <3>2. CASE pc'[r] # pc[r]
      <4>1. FindUser(r)
        BY <1>3, <3>2, Moves
      <4> QED BY <4>1 DEF FindUser
    <3> QED BY <3>1, <3>2
  <2>2. CASE pc'[o] = pc[o]
    <3>1. call'[o] = call[o]
      BY <2>2, KeepsCalls
    <3> QED BY <2>1, <2>2, <3>1, KeepsCalls DEF LookedBefore
  <2>3. CASE pc'[o] # pc[o] /\ pc'[o] = "mark"
    <3>1. WriteReset(o)
      BY <2>3, Moves
    <3>2. call[r].link = call[o].link
      BY <2>1, <3>1 DEF WriteReset
    <3> QED BY <1>1, <2>1, <3>1, <3>2 DEF WriteReset
  <2>4. CASE pc'[o] # pc[o] /\ pc'[o] = "204"
    <3>1. MarkUsed(o)
      BY <2>4, Moves
    <3>2. call[r].link = call[o].link /\ pc[o] = "mark"
      BY <2>1, <3>1 DEF MarkUsed
    <3> QED BY <2>1, <3>2, KeepsCalls DEF LookedBefore
  <2> QED BY <2>2, <2>3, <2>4
<1> QED BY <1>2, <1>3

LEMMA OnceStep ==
    ASSUME TypeOK, CallFits, LookedBefore, LinkIsUsedOnce, [Next]_vars
    PROVE  LinkIsUsedOnce'
<1> SUFFICES ASSUME NEW l \in Requests, NEW r \in Spenders(l)', NEW o \in Spenders(l)', r # o
             PROVE  r \in overtaken' \/ o \in overtaken'
  BY DEF LinkIsUsedOnce
<1>1. ASSUME NEW p \in Spenders(l)'
      PROVE  /\ p \in Requests
             /\ p \in Spenders(l) \/ (WriteReset(p) /\ pc[p] = "write" /\ call[p].link = l)
  <2>1. p \in Requests /\ pc'[p] \in {"mark", "204"} /\ call'[p].type = "reset" /\ call'[p].link = l
    BY DEF Spenders
  <2>2. CASE pc'[p] = pc[p]
    <3>1. call'[p] = call[p]
      BY <2>1, <2>2, KeepsCalls
    <3> QED BY <2>1, <2>2, <3>1 DEF Spenders
  <2>3. CASE WriteReset(p)
    <3>1. pc[p] = "write" /\ call'[p] = call[p]
      BY <2>3 DEF WriteReset
    <3> QED BY <2>1, <2>3, <3>1
  <2>4. CASE MarkUsed(p)
    <3>1. pc[p] = "mark" /\ call'[p] = call[p]
      BY <2>4 DEF MarkUsed
    <3> QED BY <2>1, <3>1 DEF Spenders
  <2> QED BY <2>1, <2>2, <2>3, <2>4, Moves
<1>2. \A p \in Requests : p \in Spenders(l) => pc[p] \in {"mark", "204"} /\ call[p].link = l
  BY DEF Spenders
<1>3. CASE r \in Spenders(l) /\ o \in Spenders(l)
  BY <1>3, KeepsCalls DEF LinkIsUsedOnce
<1>4. CASE r \notin Spenders(l) /\ o \in Spenders(l)
  BY <1>1, <1>2, <1>4, KeepsCalls DEF LookedBefore
<1>5. CASE r \in Spenders(l) /\ o \notin Spenders(l)
  BY <1>1, <1>2, <1>5, KeepsCalls DEF LookedBefore
<1>6. CASE r \notin Spenders(l) /\ o \notin Spenders(l)
  <2>1. WriteReset(r) /\ WriteReset(o) /\ r \in Requests /\ o \in Requests
    BY <1>1, <1>6
  <2>2. pc'[o] = pc[o] /\ pc[o] = "write"
    BY <2>1 DEF WriteReset, TypeOK
  <2>3. pc'[o] = "mark"
    BY <2>1 DEF WriteReset, TypeOK
  <2> QED BY <2>2, <2>3
<1> QED BY <1>3, <1>4, <1>5, <1>6

LEMMA OpenStep ==
    ASSUME TypeOK, CallFits, OthersClosed, OneOpen, [Next]_vars
    PROVE  OthersClosed' /\ OneOpen'
<1>1. ASSUME NEW l \in Requests, NEW m \in Requests, Open(l)', Open(m)', l # m
      PROVE  l \in overtaken' \/ m \in overtaken'
  <2>1. CASE Open(l) /\ Open(m)
    BY <1>1, <2>1, KeepsCalls DEF OneOpen
  <2>2. ASSUME NEW p \in Requests, NEW q \in Requests, CreateLink(p), Open(q)
        PROVE  p \in overtaken'
    BY <2>2, KeepsCalls DEF CreateLink, OthersClosed
  <2>3. CASE CreateLink(l) /\ CreateLink(m)
    <3>1. pc'[m] = pc[m] /\ pc[m] = "create"
      BY <1>1, <2>3 DEF CreateLink, TypeOK
    <3>2. pc'[m] = "send"
      BY <2>3 DEF CreateLink, TypeOK
    <3> QED BY <3>1, <3>2
  <2> QED BY <1>1, <2>1, <2>2, <2>3, LinksOpened
<1>2. ASSUME NEW r \in Requests, pc'[r] = "create", r \notin overtaken', NEW l \in Requests, Open(l)'
      PROVE  FALSE
  <2>1. CASE pc[r] # "create"
    <3>1. InvalidateLinks(r)
      BY <1>2, <2>1, Moves
    <3>2. ~Open(l)'
      BY <3>1 DEF InvalidateLinks, Invalidated, Open, TypeOK
    <3> QED BY <1>2, <3>2
  <2>2. CASE pc[r] = "create"
    <3>1. ~Open(l)
      BY <1>2, <2>2, KeepsCalls DEF OthersClosed
    <3>2. CreateLink(l)
      BY <1>2, <3>1, LinksOpened
    <3>3. l # r
      BY <1>2, <3>2 DEF CreateLink, TypeOK
    <3> QED BY <1>2, <2>2, <3>2, <3>3 DEF CreateLink
  <2> QED BY <2>1, <2>2
<1> QED BY <1>1, <1>2 DEF OthersClosed, OneOpen

LEMMA LinkInit == ASSUME Init PROVE LinkInv
  BY DEF Init, LinkInv, SpentIsClosed, LookedBefore, LinkIsUsedOnce, Spenders, OthersClosed,
         OneOpen, Open, NoLink

LEMMA LinkStep == ASSUME TypeOK, CallFits, LinkInv, [Next]_vars PROVE LinkInv'
  BY SpentStep, LookedStep, OnceStep, OpenStep DEF LinkInv

(***************************************************************************)
(* Two resets succeed with one link only if one of them looked at it       *)
(* before the other had marked it.                                         *)
(***************************************************************************)
THEOREM LinksAreUsedOnce == Spec => []LinkIsUsedOnce
<1>1. /\ TypeOK /\ CallFits /\ LinkInv /\ [Next]_vars
      => TypeOK' /\ CallFits' /\ LinkInv'
  BY TypeNext, LinkStep
<1>2. LinkInv => LinkIsUsedOnce
  BY DEF LinkInv
<1> QED BY TypeInit, LinkInit, <1>1, <1>2, PTL DEF Spec

(***************************************************************************)
(* Two links are usable at once only if the requests for them invalidated  *)
(* before either had created its own.                                      *)
(***************************************************************************)
THEOREM OneLinkIsUsable == Spec => []OneUsableLink
<1>1. /\ TypeOK /\ CallFits /\ LinkInv /\ [Next]_vars
      => TypeOK' /\ CallFits' /\ LinkInv'
  BY TypeNext, LinkStep
<1>2. LinkInv => OneUsableLink
  BY DEF LinkInv, OneOpen, Open, OneUsableLink, Usable
<1> QED BY TypeInit, LinkInit, <1>1, <1>2, PTL DEF Spec
-----------------------------------------------------------------------------
(***************************************************************************)
(* The same promises without their exceptions, for requests that take      *)
(* turns.  Nobody writes the account between the read of a login and its   *)
(* write; nobody looks at a link that a reset under way has looked at; no  *)
(* two requests for a link stand between invalidating and creating.        *)
(***************************************************************************)
LoginsTakeTurns == \A r \in Requests : pc[r] \in {"fail", "succeed"} => doc[r] = account

Resetting(l) == {r \in Requests : pc[r] \in {"find", "write", "mark"} /\ call[r].link = l}

ResetsTakeTurns == \A l \in Requests : \A r, o \in Resetting(l) : r = o

ForgotsTakeTurns == \A r, o \in Requests : pc[r] = "create" /\ pc[o] = "create" => r = o

\* Only a login can be late.
LEMMA NobodyLate ==
    ASSUME TypeOK, late = {}, LoginsTakeTurns, [Next]_vars PROVE late' = {}
<1>1. ASSUME NEW r \in Requests, RegisterFailedLogin(r) \/ SucceedLogin(r) PROVE late' = late
  BY <1>1 DEF RegisterFailedLogin, SucceedLogin, LoginsTakeTurns
<1>2. ASSUME NEW r \in Requests, Step(r)
      PROVE  RegisterFailedLogin(r) \/ SucceedLogin(r) \/ late' = late
  BY <1>2 DEF Step, Login, ChangePassword, WriteChange, RequestReset, InvalidateLinks, CreateLink,
        SendLink, ResetPassword, FindUser, WriteReset, MarkUsed
<1>3. CASE Environment
  BY <1>3 DEF Environment, Purge, Administer, Tick
<1> QED BY <1>1, <1>2, <1>3, Steps DEF vars

(***************************************************************************)
(* Logins that nobody writes under: MaxFailed failures in a row always     *)
(* lock the account, only a reset lifts a lock before its time, and the    *)
(* password stored is the one chosen last.                                 *)
(***************************************************************************)
THEOREM LoginsInTurnAreCounted ==
    Spec /\ []LoginsTakeTurns =>
        /\ [](failures < MaxFailed)
        /\ [](account.password = chosen)
        /\ [][account.locked > now /\ account'.locked < account.locked =>
                \E r \in Requests : pc'[r] # pc[r] /\ call[r].type = "reset"]_vars
<1> DEFINE OnlyResets == account.locked > now /\ account'.locked < account.locked =>
                \E r \in Requests : pc'[r] # pc[r] /\ call[r].type = "reset"
<1>1. Init => late = {}
  BY DEF Init
<1>2. TypeOK /\ late = {} /\ LoginsTakeTurns /\ [Next]_vars => (late = {})'
  BY NobodyLate
<1>3. LockAfterMaxFailed /\ late = {} => failures < MaxFailed
  BY DEF LockAfterMaxFailed
<1>4. PasswordIsTheLastChosen /\ late = {} => account.password = chosen
  BY DEF PasswordIsTheLastChosen
<1>5. TypeOK /\ CallFits /\ LoginsTakeTurns /\ [Next]_vars => OnlyResets
  BY LockStep DEF LockStays, LoginsTakeTurns
<1>6. TypeOK /\ CallFits /\ [Next]_vars => TypeOK' /\ CallFits'
  BY TypeNext
<1> HIDE DEF OnlyResets
<1>7. Spec /\ []LoginsTakeTurns =>
        [](failures < MaxFailed) /\ [](account.password = chosen) /\ [][OnlyResets]_vars
  BY TypeInit, LockComesInTime, PasswordIsKept, <1>1, <1>2, <1>3, <1>4, <1>5, <1>6, PTL DEF Spec
<1> QED BY <1>7 DEF OnlyResets

\* Who is put into `overtaken`, and when.
LEMMA OvertakenWrites ==
    ASSUME TypeOK, [Next]_vars, NEW o \in overtaken' \ overtaken
    PROVE  /\ o \in Requests
           /\ \E r \in Requests :
                \/ CreateLink(r) /\ o # r /\ pc[o] = "create"
                \/ /\ WriteReset(r) /\ o # r
                   /\ pc[o] \in {"find", "write"} /\ call[o].link = call[r].link
                \/ \E l \in Requests : /\ ResetPassword(r, l) /\ o = r
                                       /\ \E p \in Spenders(l) : pc[p] = "mark"
<1>1. ASSUME NEW r \in Requests, Step(r)
      PROVE  \/ CreateLink(r) \/ WriteReset(r) \/ (\E l \in Requests : ResetPassword(r, l))
             \/ overtaken' = overtaken
  BY <1>1 DEF Step, Login, RegisterFailedLogin, SucceedLogin, ChangePassword, WriteChange,
        RequestReset, InvalidateLinks, SendLink, FindUser, MarkUsed
<1>2. ASSUME NEW r \in Requests, CreateLink(r) PROVE o \in Requests \ {r} /\ pc[o] = "create"
  BY <1>2 DEF CreateLink
<1>3. ASSUME NEW r \in Requests, WriteReset(r)
      PROVE  o \in Requests \ {r} /\ pc[o] \in {"find", "write"} /\ call[o].link = call[r].link
  BY <1>3 DEF WriteReset
<1>4. ASSUME NEW r \in Requests, NEW l \in Requests, ResetPassword(r, l)
      PROVE  o = r /\ \E p \in Spenders(l) : pc[p] = "mark"
  BY <1>4 DEF ResetPassword
<1>5. ~Environment /\ ~(UNCHANGED vars)
  BY DEF Environment, Purge, Administer, Tick, vars
<1>6. PICK r \in Requests : Step(r)
  BY <1>5, Steps
<1> QED BY <1>1, <1>2, <1>3, <1>4, <1>6

\* Nobody goes back to where requests begin.
LEMMA NeverBack ==
    ASSUME TypeOK, [Next]_vars, NEW o \in Requests, pc[o] # "new" \/ pc'[o] # pc[o]
    PROVE  pc'[o] # "new"
<1>1. CASE pc'[o] # pc[o]
  <2>1. Step(o)
    BY <1>1, Moves
  <2> QED BY <2>1 DEF TypeOK, Step, Login, RegisterFailedLogin, SucceedLogin, ChangePassword,
          WriteChange, RequestReset, InvalidateLinks, CreateLink, SendLink, ResetPassword,
          FindUser, WriteReset, MarkUsed
<1> QED BY <1>1

\* A reset that another one has overtaken has been refused.
Refused == \A r \in overtaken : pc[r] \notin {"new", "find", "write", "mark", "204"}

LEMMA RefusedStep ==
    ASSUME TypeOK, CallFits, Refused, ResetsTakeTurns, ResetsTakeTurns', [Next]_vars
    PROVE  Refused'
<1> SUFFICES ASSUME NEW o \in overtaken', pc'[o] \in {"new", "find", "write", "mark", "204"}
             PROVE  FALSE
  BY DEF Refused
<1>1. CASE o \in overtaken
  <2>1. /\ o \in Requests /\ pc'[o] # pc[o] /\ pc'[o] # "new"
        /\ pc[o] \notin {"new", "find", "write", "mark", "204"}
    BY <1>1, NeverBack DEF Refused, TypeOK
  <2>2. pc'[o] = "find"
    BY <2>1, Moves DEF FindUser, WriteReset, MarkUsed
  <2> QED BY <2>1, <2>2, Moves DEF ResetPassword, Asks
<1>2. CASE o \notin overtaken
  <2>1. o \in Requests
    BY <1>2, OvertakenWrites
  <2>2. PICK r \in Requests :
            \/ CreateLink(r) /\ o # r /\ pc[o] = "create"
            \/ /\ WriteReset(r) /\ o # r
               /\ pc[o] \in {"find", "write"} /\ call[o].link = call[r].link
            \/ \E l \in Requests : /\ ResetPassword(r, l) /\ o = r
                                   /\ \E p \in Spenders(l) : pc[p] = "mark"
    BY <1>2, OvertakenWrites
  <2>3. CASE CreateLink(r) /\ o # r /\ pc[o] = "create"
    BY <2>1, <2>3 DEF CreateLink, TypeOK
  <2>4. CASE /\ WriteReset(r) /\ o # r
             /\ pc[o] \in {"find", "write"} /\ call[o].link = call[r].link
    <3>1. pc[r] = "write" /\ call[r].link \in Requests
      BY <2>4 DEF WriteReset, CallFits, Fits, TypeOK
    <3> QED BY <2>1, <2>4, <3>1 DEF ResetsTakeTurns, Resetting
  <2>5. ASSUME NEW l \in Requests, ResetPassword(r, l), o = r,
               NEW p \in Spenders(l), pc[p] = "mark"
        PROVE  FALSE
    <3>1. pc'[o] = "find"
      BY <1>2, <2>1, <2>5 DEF ResetPassword, TypeOK
    <3>2. call'[o].link = l
      BY <2>1, <2>5, Asked DEF ResetPassword, Types
    <3>3. p \in Requests /\ p # o /\ call[p].link = l /\ pc'[p] = "mark" /\ call'[p] = call[p]
      BY <2>5 DEF Spenders, ResetPassword, Asks, TypeOK
    <3> QED BY <2>1, <3>1, <3>2, <3>3 DEF ResetsTakeTurns, Resetting
  <2> QED BY <2>2, <2>3, <2>4, <2>5
<1> QED BY <1>1, <1>2

(***************************************************************************)
(* "Un solo uso": when the resets with a link take turns, one at most      *)
(* succeeds with it, however many are tried.                               *)
(***************************************************************************)
THEOREM ResetsInTurnUseALinkOnce ==
    Spec /\ []ResetsTakeTurns => [](\A l \in Requests : \A r, o \in Spenders(l) : r = o)
<1>1. Init => Refused
  BY DEF Init, Refused
<1>2. /\ TypeOK /\ CallFits /\ Refused
      /\ ResetsTakeTurns /\ ResetsTakeTurns' /\ [Next]_vars
      => Refused'
  BY RefusedStep
<1>3. TypeOK /\ CallFits /\ [Next]_vars => TypeOK' /\ CallFits'
  BY TypeNext
<1>4. LinkIsUsedOnce /\ Refused => \A l \in Requests : \A r, o \in Spenders(l) : r = o
  BY DEF LinkIsUsedOnce, Refused, Spenders
<1> QED BY TypeInit, LinksAreUsedOnce, <1>1, <1>2, <1>3, <1>4, PTL DEF Spec

\* What `overtaken` holds then are resets, and a link is of a request for one.
OnlyResetsOvertaken == \A r \in overtaken : pc[r] # "new" /\ call[r].type = "reset"

Requested ==
    \A l \in Requests : links[l].stored \/ pc[l] \in {"invalidate", "create"} =>
        pc[l] # "new" /\ call[l].type = "forgot"

LEMMA RequestedStep ==
    ASSUME TypeOK, CallFits, Requested, [Next]_vars
    PROVE  Requested'
<1> SUFFICES ASSUME NEW l \in Requests, links'[l].stored \/ pc'[l] \in {"invalidate", "create"}
             PROVE  pc'[l] # "new" /\ call'[l].type = "forgot"
  BY DEF Requested
<1>1. CASE links[l].stored \/ pc[l] \in {"invalidate", "create"}
  <2>1. pc[l] # "new" /\ call[l].type = "forgot"
    BY <1>1 DEF Requested
  <2> QED BY <2>1, NeverBack, KeepsCalls
<1>2. CASE ~links[l].stored /\ pc[l] \notin {"invalidate", "create"}
  <2>1. CASE pc'[l] \in {"invalidate", "create"}
    <3>1. Step(l)
      BY <1>2, <2>1, Moves
    <3>2. RequestReset(l)
      BY <1>2, <2>1, <3>1 DEF TypeOK, Step, Login, RegisterFailedLogin, SucceedLogin, ChangePassword,
            WriteChange, RequestReset, InvalidateLinks, CreateLink, SendLink, ResetPassword,
            FindUser, WriteReset, MarkUsed
    <3>3. call'[l].type = "forgot"
      BY <3>2, Asked DEF RequestReset, Types
    <3> QED BY <2>1, <3>3
  <2>2. CASE links'[l].stored /\ pc'[l] \notin {"invalidate", "create"}
    <3>1. ASSUME NEW r \in Requests, CreateLink(r) PROVE l = r
      BY <1>2, <2>2, <3>1 DEF CreateLink, TypeOK
    <3>2. ASSUME NEW r \in Requests, InvalidateLinks(r) PROVE FALSE
      BY <1>2, <2>2, <3>2 DEF InvalidateLinks, Invalidated, TypeOK
    <3>3. ASSUME NEW r \in Requests, MarkUsed(r) PROVE FALSE
      <4> PICK k : k = call[r].link
        OBVIOUS
      <4>1. links' = [links EXCEPT ![k] = [links[k] EXCEPT !.used = links[k].stored]]
        BY <3>3 DEF MarkUsed
      <4>2. links[l] \in Links
        BY DEF TypeOK
      <4>3. links'[l].stored = links[l].stored
        BY <4>1, <4>2 DEF TypeOK, Links
      <4> QED BY <1>2, <2>2, <4>3
    <3>4. ASSUME NEW r \in Requests, Purge(r) PROVE FALSE
      BY <1>2, <2>2, <3>4 DEF Purge, NoLink, TypeOK
    <3>5. ASSUME NEW r \in Requests, Step(r)
          PROVE  CreateLink(r) \/ InvalidateLinks(r) \/ MarkUsed(r) \/ links' = links
      BY <3>5 DEF Step, Login, RegisterFailedLogin, SucceedLogin, ChangePassword, WriteChange,
            RequestReset, SendLink, ResetPassword, FindUser, WriteReset
    <3>6. ASSUME Environment PROVE (\E r \in Requests : Purge(r)) \/ links' = links
      BY <3>6 DEF Environment, Administer, Tick
    <3>7. CreateLink(l)
      BY <1>2, <2>2, <3>1, <3>2, <3>3, <3>4, <3>5, <3>6, Steps DEF vars
    <3> QED BY <1>2, <3>7 DEF CreateLink
  <2> QED BY <1>2, <2>1, <2>2
<1> QED BY <1>1, <1>2

LEMMA OnlyResetsStep ==
    ASSUME TypeOK, CallFits, OnlyResetsOvertaken, ForgotsTakeTurns, [Next]_vars
    PROVE  OnlyResetsOvertaken'
<1> SUFFICES ASSUME NEW o \in overtaken' PROVE pc'[o] # "new" /\ call'[o].type = "reset"
  BY DEF OnlyResetsOvertaken
<1>1. CASE o \in overtaken
  <2>1. o \in Requests /\ pc[o] # "new" /\ call[o].type = "reset"
    BY <1>1 DEF OnlyResetsOvertaken, TypeOK
  <2> QED BY <2>1, NeverBack, KeepsCalls
<1>2. CASE o \notin overtaken
  <2>1. o \in Requests
    BY <1>2, OvertakenWrites
  <2>2. PICK r \in Requests :
            \/ CreateLink(r) /\ o # r /\ pc[o] = "create"
            \/ /\ WriteReset(r) /\ o # r
               /\ pc[o] \in {"find", "write"} /\ call[o].link = call[r].link
            \/ \E l \in Requests : /\ ResetPassword(r, l) /\ o = r
                                   /\ \E p \in Spenders(l) : pc[p] = "mark"
    BY <1>2, OvertakenWrites
  <2>3. CASE CreateLink(r) /\ o # r /\ pc[o] = "create"
    BY <2>1, <2>3 DEF CreateLink, ForgotsTakeTurns
  <2>4. CASE WriteReset(r) /\ pc[o] \in {"find", "write"}
    <3>1. call[o].type = "reset" /\ pc[o] # "new"
      BY <2>1, <2>4 DEF CallFits, Fits
    <3> QED BY <2>1, <3>1, NeverBack, KeepsCalls
  <2>5. ASSUME NEW l \in Requests, ResetPassword(r, l), o = r
        PROVE  pc'[o] # "new" /\ call'[o].type = "reset"
    <3>1. call'[o].type = "reset"
      BY <2>1, <2>5, Asked DEF ResetPassword, Types
    <3>2. pc'[o] # "new"
      BY <2>1, <2>5 DEF ResetPassword, TypeOK
    <3> QED BY <3>1, <3>2
  <2> QED BY <2>2, <2>3, <2>4, <2>5
<1> QED BY <1>1, <1>2

(***************************************************************************)
(* A new link makes the earlier ones useless: always, when no two requests *)
(* for a link stand between invalidating the others and creating theirs.   *)
(***************************************************************************)
THEOREM ForgotsInTurnLeaveOneLink ==
    Spec /\ []ForgotsTakeTurns =>
        [](\A l, m \in Requests : Usable(l) /\ Usable(m) => l = m)
<1>1. Init => OnlyResetsOvertaken /\ Requested
  BY DEF Init, OnlyResetsOvertaken, Requested, NoLink
<1>2. /\ TypeOK /\ CallFits /\ OnlyResetsOvertaken /\ Requested
      /\ ForgotsTakeTurns /\ [Next]_vars
      => OnlyResetsOvertaken' /\ Requested'
  BY OnlyResetsStep, RequestedStep
<1>3. TypeOK /\ CallFits /\ [Next]_vars => TypeOK' /\ CallFits'
  BY TypeNext
<1>4. OneUsableLink /\ OnlyResetsOvertaken /\ Requested =>
        \A l, m \in Requests : Usable(l) /\ Usable(m) => l = m
  BY DEF OneUsableLink, OnlyResetsOvertaken, Requested, Usable
<1> QED BY TypeInit, OneLinkIsUsable, <1>1, <1>2, <1>3, <1>4, PTL DEF Spec
=============================================================================
