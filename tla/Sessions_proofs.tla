-------------------------- MODULE Sessions_proofs ---------------------------
(***************************************************************************)
(* Proofs about Sessions, for any requests, accounts, tolerance, life of a *)
(* token and bound of the clock.                                           *)
(***************************************************************************)
EXTENDS Sessions, TLAPS

(***************************************************************************)
(* What a call that is known looks like, and what taking one does.         *)
(***************************************************************************)
LEMMA CallFields ==
    ASSUME NEW k \in Calls
    PROVE  /\ k.type \in AccountTypes \cup TokenTypes
           /\ k.user \in Users /\ k.family \in Requests /\ k.token \in Requests
  BY DEF Calls

LEMMA DocFields ==
    ASSUME NEW d \in TokenDocs
    PROVE  /\ d.stored \in BOOLEAN /\ d.revoked \in BOOLEAN
           /\ d.rotated \in Nat \cup {Never} /\ d.expires \in Nat
           /\ d.rotated \in Int
  BY DEF TokenDocs, Never

LEMMA Known ==
    ASSUME TypeOK, NEW r \in Requests, pc[r] # "new"
    PROVE  /\ call[r] \in Calls
           /\ call[r].type \in AccountTypes \cup TokenTypes
           /\ User(r) \in Users /\ Family(r) \in Requests /\ call[r].token \in Requests
<1>1. call[r] \in Calls
  BY DEF TypeOK
<1> QED BY <1>1, CallFields DEF User, Family

LEMMA AsksCall ==
    ASSUME TypeOK, NEW r \in Requests, NEW type \in AccountTypes \cup TokenTypes,
           NEW u \in Users, NEW f \in Requests, NEW t \in Requests,
           Asks(r, type, u, f, t)
    PROVE  /\ pc[r] = "new"
           /\ call' \in [Requests -> Calls \cup {NoCall}]
           /\ call'[r] \in Calls
           /\ call'[r].type = type /\ call'[r].user = u
           /\ call'[r].family = f /\ call'[r].token = t
           /\ \A o \in Requests \ {r} : call'[o] = call[o]
<1>1. [type |-> type, user |-> u, family |-> f, token |-> t] \in Calls
  BY DEF Calls
<1>2. call \in [Requests -> Calls \cup {NoCall}]
  BY DEF TypeOK
<1> QED BY <1>1, <1>2 DEF Asks

LEMMA Moved ==
    ASSUME TypeOK, NEW r \in Requests, NEW where \in Awaits \cup Answers, MoveTo(r, where)
    PROVE  /\ pc' \in [Requests -> {"new"} \cup Awaits \cup Answers]
           /\ pc'[r] = where /\ where # "new"
           /\ \A o \in Requests \ {r} : pc'[o] = pc[o]
<1>1. pc \in [Requests -> {"new"} \cup Awaits \cup Answers]
  BY DEF TypeOK
<1> QED BY <1>1 DEF MoveTo, Awaits, Answers

(***************************************************************************)
(* Types.                                                                  *)
(***************************************************************************)
LEMMA TypeInit == ASSUME Init PROVE TypeOK
<1>1. NoToken \in TokenDocs
  BY DEF NoToken, TokenDocs
<1>2. users \in [Users -> Accounts]
  BY DEF Init, Statuses, Accounts, Passwords
<1>3. now \in 0..MaxTime
  BY TimesAreNatural DEF Init
<1>4. \A t \in Requests : tokens[t].rotated = Never
  BY DEF Init, NoToken
<1>5. saw \in [Requests -> Passwords]
  BY DEF Init, Passwords
<1> QED BY <1>1, <1>2, <1>3, <1>4, <1>5 DEF Init, TypeOK

(***************************************************************************)
(* What the four steps that write to refresh_tokens do to a document.      *)
(***************************************************************************)
LEMMA DocsOK ==
    ASSUME TypeOK, NEW t \in Requests
    PROVE  /\ tokens[t] \in TokenDocs
           /\ tokens[t].stored \in BOOLEAN /\ tokens[t].revoked \in BOOLEAN
           /\ tokens[t].rotated \in Nat \cup {Never} /\ tokens[t].rotated \in Int
           /\ tokens[t].expires \in Nat
           /\ tokens[t].rotated # Never => tokens[t].revoked /\ tokens[t].rotated <= now
<1>1. tokens[t] \in TokenDocs
  BY DEF TypeOK
<1>2. tokens[t].rotated # Never => tokens[t].revoked /\ tokens[t].rotated <= now
  BY DEF TypeOK
<1> QED BY <1>1, <1>2, DocFields

LEMMA ClockOK == ASSUME TypeOK PROVE now \in Nat /\ now <= MaxTime /\ Ttl \in Nat /\ Leeway \in Nat
  BY TimesAreNatural DEF TypeOK

LEMMA RevokedDocs ==
    ASSUME TypeOK, NEW T \in SUBSET Requests, tokens' = Revoked(T)
    PROVE  /\ tokens' \in [Requests -> TokenDocs]
           /\ \A t \in Requests : /\ tokens'[t].stored = tokens[t].stored
                                  /\ tokens'[t].rotated = tokens[t].rotated
                                  /\ tokens'[t].expires = tokens[t].expires
                                  /\ tokens'[t].revoked = (t \in T \/ tokens[t].revoked)
                                  /\ t \notin T => tokens'[t] = tokens[t]
<1>1. \A t \in Requests :
        tokens'[t] = IF t \in T THEN [tokens[t] EXCEPT !.revoked = TRUE] ELSE tokens[t]
  BY DEF Revoked
<1>2. ASSUME NEW t \in Requests
      PROVE  /\ [tokens[t] EXCEPT !.revoked = TRUE] \in TokenDocs
             /\ [tokens[t] EXCEPT !.revoked = TRUE].stored = tokens[t].stored
             /\ [tokens[t] EXCEPT !.revoked = TRUE].rotated = tokens[t].rotated
             /\ [tokens[t] EXCEPT !.revoked = TRUE].expires = tokens[t].expires
             /\ [tokens[t] EXCEPT !.revoked = TRUE].revoked = TRUE
             /\ tokens[t] \in TokenDocs /\ tokens[t].revoked \in BOOLEAN
  BY DocsOK DEF TokenDocs
<1>3. tokens' \in [Requests -> TokenDocs]
  BY <1>2 DEF Revoked
<1> QED BY <1>1, <1>2, <1>3

LEMMA RotateDocs ==
    ASSUME TypeOK, NEW p \in Requests, tokens' = [tokens EXCEPT ![p] = RotatedDoc(@)]
    PROVE  /\ tokens' \in [Requests -> TokenDocs]
           /\ \A t \in Requests \ {p} : tokens'[t] = tokens[t]
           /\ \/ tokens'[p] = tokens[p] /\ (~tokens[p].stored \/ tokens[p].revoked)
              \/ /\ tokens[p].stored /\ ~tokens[p].revoked
                 /\ tokens'[p].stored = tokens[p].stored /\ tokens'[p].revoked
                 /\ tokens'[p].rotated = now /\ tokens'[p].expires = tokens[p].expires
<1> DEFINE d == tokens[p]
           e == [d EXCEPT !.revoked = TRUE, !.rotated = now]
<1>1. d \in TokenDocs /\ now \in Nat
  BY DocsOK, ClockOK
<1>2. /\ e \in TokenDocs /\ e.stored = d.stored /\ e.revoked = TRUE
      /\ e.rotated = now /\ e.expires = d.expires
  BY <1>1 DEF TokenDocs
<1>3. tokens'[p] = RotatedDoc(d) /\ \A t \in Requests \ {p} : tokens'[t] = tokens[t]
  BY DEF TypeOK
<1>4. RotatedDoc(d) \in TokenDocs
  BY <1>1, <1>2 DEF RotatedDoc
<1>5. tokens' \in [Requests -> TokenDocs]
  BY <1>4 DEF TypeOK
<1> QED BY <1>1, <1>2, <1>3, <1>5, DocsOK DEF RotatedDoc

LEMMA OpenDocs ==
    ASSUME TypeOK, NEW r \in Requests, OpenSession(r)
    PROVE  /\ tokens' \in [Requests -> TokenDocs]
           /\ \A t \in Requests \ {r} : tokens'[t] = tokens[t]
           /\ tokens'[r].stored /\ ~tokens'[r].revoked
           /\ tokens'[r].rotated = Never /\ tokens'[r].expires = now + Ttl
<1> DEFINE d == [stored |-> TRUE, revoked |-> FALSE, rotated |-> Never, expires |-> now + Ttl]
<1>1. now + Ttl \in Nat
  BY ClockOK
<1>2. d \in TokenDocs
  BY <1>1 DEF TokenDocs
<1>3. tokens' = [tokens EXCEPT ![r] = d] /\ tokens \in [Requests -> TokenDocs]
  BY DEF OpenSession, TypeOK
<1> QED BY <1>2, <1>3

LEMMA PurgeDocs ==
    ASSUME TypeOK, NEW p \in Requests, Purge(p)
    PROVE  /\ tokens' \in [Requests -> TokenDocs]
           /\ \A t \in Requests \ {p} : tokens'[t] = tokens[t]
           /\ tokens[p].stored /\ ~tokens'[p].stored
           /\ tokens'[p].rotated = tokens[p].rotated
           /\ tokens'[p].revoked = tokens[p].revoked
           /\ tokens'[p].expires = tokens[p].expires
<1> DEFINE e == [tokens[p] EXCEPT !.stored = FALSE]
<1>1. /\ e \in TokenDocs /\ e.stored = FALSE /\ e.rotated = tokens[p].rotated
      /\ e.revoked = tokens[p].revoked /\ e.expires = tokens[p].expires
  BY DocsOK DEF TokenDocs
<1>2. tokens' = [tokens EXCEPT ![p] = e] /\ tokens \in [Requests -> TokenDocs] /\ tokens[p].stored
  BY DEF Purge, TypeOK
<1> HIDE DEF e
<1> QED BY <1>1, <1>2
-----------------------------------------------------------------------------
(***************************************************************************)
(* Types, and the request a step belongs to.                               *)
(***************************************************************************)
sets == <<closed, ended, reopened, overtaken, unrevoked, undone>>

\* A request arrives, goes as far as its first await, and is answered or waits.
Arrives(r, u, f, t) ==
    /\ \E type \in AccountTypes \cup TokenTypes :
         /\ Asks(r, type, u, f, t)
         /\ type \in AccountTypes => f = r
         /\ type \in TokenTypes => Handed(t) /\ u = User(t) /\ f = Family(t)
    /\ \E where \in Awaits \cup Answers : MoveTo(r, where)
    /\ UNCHANGED <<users, tokens, now, sets>>

LEMMA ArrivesTypes ==
    ASSUME TypeOK, NEW r \in Requests, NEW u \in Users, NEW f \in Requests, NEW t \in Requests,
           Arrives(r, u, f, t),
           at' \in [Requests -> Nat \cup {Never}], saw' \in [Requests -> Passwords]
    PROVE  TypeOK'
<1>1. PICK type \in AccountTypes \cup TokenTypes : Asks(r, type, u, f, t)
  BY DEF Arrives
<1>2. PICK where \in Awaits \cup Answers : MoveTo(r, where)
  BY DEF Arrives
<1>3. /\ call' \in [Requests -> Calls \cup {NoCall}] /\ call'[r] \in Calls
      /\ \A o \in Requests \ {r} : call'[o] = call[o]
  BY <1>1, AsksCall
<1>4. /\ pc' \in [Requests -> {"new"} \cup Awaits \cup Answers]
      /\ \A o \in Requests \ {r} : pc'[o] = pc[o]
  BY <1>2, Moved
<1>5. \A o \in Requests : pc'[o] # "new" => call'[o] \in Calls
  BY <1>3, <1>4 DEF TypeOK
<1> QED BY <1>3, <1>4, <1>5 DEF TypeOK, Arrives, sets

LEMMA LoginArrives ==
    ASSUME NEW r \in Requests, NEW u \in Users, Login(r, u) PROVE Arrives(r, u, r, r)
<1>1. \E where \in Awaits \cup Answers : MoveTo(r, where)
  BY DEF Login, Awaits, Answers
<1>2. Asks(r, "login", u, r, r) /\ "login" \in AccountTypes \ TokenTypes
  BY DEF Login, AccountTypes, TokenTypes
<1> QED BY <1>1, <1>2 DEF Login, Arrives, sets, history

LEMMA ChangeArrives ==
    ASSUME NEW r \in Requests, NEW u \in Users, ChangePassword(r, u) PROVE Arrives(r, u, r, r)
<1>1. \E where \in Awaits \cup Answers : MoveTo(r, where)
  BY DEF ChangePassword, Awaits, Answers
<1>2. Asks(r, "change", u, r, r) /\ "change" \in AccountTypes \ TokenTypes
  BY DEF ChangePassword, AccountTypes, TokenTypes
<1> QED BY <1>1, <1>2 DEF ChangePassword, Arrives, sets, history

LEMMA ResetArrives ==
    ASSUME NEW r \in Requests, NEW u \in Users, ResetPassword(r, u) PROVE Arrives(r, u, r, r)
<1>1. \E where \in Awaits \cup Answers : MoveTo(r, where)
  BY DEF ResetPassword, Awaits, Answers
<1>2. Asks(r, "reset", u, r, r) /\ "reset" \in AccountTypes \ TokenTypes
  BY DEF ResetPassword, AccountTypes, TokenTypes
<1> QED BY <1>1, <1>2 DEF ResetPassword, Arrives, sets, history

LEMMA AdministerArrives ==
    ASSUME NEW r \in Requests, NEW u \in Users, NEW type \in {"disable", "enable", "delete"},
           Administer(r, u, type)
    PROVE  Arrives(r, u, r, r)
<1>1. \E where \in Awaits \cup Answers : MoveTo(r, where)
  BY DEF Administer, Awaits, Answers
<1>2. Asks(r, type, u, r, r) /\ type \in AccountTypes \ TokenTypes
  BY DEF Administer, AccountTypes, TokenTypes
<1> QED BY <1>1, <1>2 DEF Administer, Arrives, sets, history

LEMMA HandedFields ==
    ASSUME TypeOK, NEW t \in Requests, Handed(t)
    PROVE  User(t) \in Users /\ Family(t) \in Requests /\ pc[t] # "new"
  BY Known DEF Handed

LEMMA RefreshArrives ==
    ASSUME TypeOK, NEW r \in Requests, NEW t \in Requests, Refresh(r, t)
    PROVE  Arrives(r, User(t), Family(t), t)
<1>1. \E where \in Awaits \cup Answers : MoveTo(r, where)
  BY DEF Refresh, Awaits, Answers
<1>2. Asks(r, "refresh", User(t), Family(t), t) /\ "refresh" \in TokenTypes \ AccountTypes /\ Handed(t)
  BY DEF Refresh, AccountTypes, TokenTypes
<1> QED BY <1>1, <1>2 DEF Refresh, Arrives, sets

LEMMA LogoutArrives ==
    ASSUME TypeOK, NEW r \in Requests, NEW t \in Requests, Logout(r, t)
    PROVE  Arrives(r, User(t), Family(t), t)
<1>1. \E where \in Awaits \cup Answers : MoveTo(r, where)
  BY DEF Logout, Awaits, Answers
<1>2. Asks(r, "logout", User(t), Family(t), t) /\ "logout" \in TokenTypes \ AccountTypes /\ Handed(t)
  BY DEF Logout, AccountTypes, TokenTypes
<1> QED BY <1>1, <1>2 DEF Logout, Arrives, sets, history

\* A request that has arrived goes on to its next await, or is answered.
Goes(r) ==
    /\ pc[r] \in Awaits
    /\ \E where \in Awaits \cup Answers : MoveTo(r, where)
    /\ UNCHANGED <<now, call, at>>

LEMMA GoesTypes ==
    ASSUME TypeOK, NEW r \in Requests, Goes(r)
    PROVE  /\ pc' \in [Requests -> {"new"} \cup Awaits \cup Answers]
           /\ pc[r] # "new" /\ pc'[r] # "new"
           /\ \A o \in Requests \ {r} : pc'[o] = pc[o]
           /\ \A o \in Requests : pc'[o] # "new" => call'[o] \in Calls
<1>1. PICK where \in Awaits \cup Answers : MoveTo(r, where)
  BY DEF Goes
<1>2. /\ pc' \in [Requests -> {"new"} \cup Awaits \cup Answers] /\ pc'[r] # "new"
      /\ \A o \in Requests \ {r} : pc'[o] = pc[o]
  BY <1>1, Moved
<1>3. pc[r] # "new"
  BY DEF Goes, Awaits
<1> QED BY <1>2, <1>3 DEF TypeOK, Goes

LEMMA SucceedLoginGoes == ASSUME NEW r \in Requests, SucceedLogin(r) PROVE Goes(r)
<1>1. \E where \in Awaits \cup Answers : MoveTo(r, where)
  BY DEF SucceedLogin, Awaits, Answers
<1> QED BY <1>1 DEF SucceedLogin, Goes, Awaits

LEMMA WriteGoes == ASSUME NEW r \in Requests, Write(r) PROVE Goes(r)
<1>1. \E where \in Awaits \cup Answers : MoveTo(r, where)
  BY DEF Write, WriteStatus, Awaits, Answers
<1> QED BY <1>1 DEF Write, Goes, Awaits

LEMMA CheckUserGoes == ASSUME NEW r \in Requests, CheckUser(r) PROVE Goes(r)
<1>1. \E where \in Awaits \cup Answers : MoveTo(r, where)
  BY DEF CheckUser, Awaits, Answers
<1> QED BY <1>1 DEF CheckUser, Goes, Awaits, history

LEMMA RotateGoes == ASSUME NEW r \in Requests, Rotate(r) PROVE Goes(r)
<1>1. \E where \in Awaits \cup Answers : MoveTo(r, where)
  BY DEF Rotate, Awaits, Answers
<1> QED BY <1>1 DEF Rotate, Goes, Awaits, history

LEMMA OpenSessionGoes == ASSUME NEW r \in Requests, OpenSession(r) PROVE Goes(r)
<1>1. \E where \in Awaits \cup Answers : MoveTo(r, where)
  BY DEF OpenSession, Awaits, Answers
<1> QED BY <1>1 DEF OpenSession, Goes, Awaits

LEMMA RevokeFamilyGoes == ASSUME NEW r \in Requests, RevokeFamily(r) PROVE Goes(r)
<1>1. \E where \in Awaits \cup Answers : MoveTo(r, where)
  BY DEF RevokeFamily, Awaits, Answers
<1> QED BY <1>1 DEF RevokeFamily, Goes, Awaits

LEMMA RevokeAllGoes == ASSUME NEW r \in Requests, RevokeAll(r) PROVE Goes(r)
<1>1. \E where \in Awaits \cup Answers : MoveTo(r, where)
  BY DEF RevokeAll, Awaits, Answers
<1> QED BY <1>1 DEF RevokeAll, Goes, Awaits

\* What a new password does to the document of its user, and to no other.
LEMMA SetPasswordUsers ==
    ASSUME users \in [Users -> Accounts], NEW u \in Users, NEW p \in Passwords, SetPassword(u, p)
    PROVE  /\ users' \in [Users -> Accounts]
           /\ \A v \in Users \ {u} : users'[v] = users[v]
           /\ users'[u].status = users[u].status
           /\ users'[u].password = IF users[u].status = "deleted" THEN users[u].password ELSE p
           /\ users'[u].password \in Passwords
<1> DEFINE n == [status |-> users[u].status, password |-> p, old |-> FALSE]
           d == IF users[u].status = "deleted" THEN users[u] ELSE n
<1>1. users[u] \in Accounts /\ users[u].status \in Statuses /\ users[u].password \in Passwords
  BY DEF Accounts
<1>2. n \in Accounts /\ n.status = users[u].status /\ n.password = p
  BY <1>1 DEF Accounts
<1>3. users' = [users EXCEPT ![u] = d]
  BY DEF SetPassword
<1> HIDE DEF n
<1>4. /\ d \in Accounts /\ d.status = users[u].status
      /\ d.password = IF users[u].status = "deleted" THEN users[u].password ELSE p
  BY <1>1, <1>2
<1> HIDE DEF d
<1> QED BY <1>1, <1>3, <1>4

LEMMA SucceedLoginUsers ==
    ASSUME TypeOK, NEW r \in Requests, SucceedLogin(r)
    PROVE  /\ User(r) \in Users
           /\ users' \in [Users -> Accounts]
           /\ \A u \in Users \ {User(r)} : users'[u] = users[u]
           /\ users'[User(r)].status = users[User(r)].status
           /\ saw' = saw /\ undone \subseteq undone' /\ undone' \subseteq Requests
           /\ \A f \in Requests :
                /\ pc[f] # "new" /\ User(f) = User(r)
                /\ saw[f] = users[User(r)].password /\ saw[f] # users'[User(r)].password
                => f \in undone'
<1>1. User(r) \in Users /\ users \in [Users -> Accounts] /\ saw[r] \in Passwords
  BY Known DEF SucceedLogin, TypeOK
<1>2. CASE UNCHANGED <<users, undone>>
  BY <1>1, <1>2 DEF SucceedLogin, TypeOK
<1>3. CASE SetPassword(User(r), saw[r]) /\ undone' = undone \cup {f \in Requests :
                /\ pc[f] # "new" /\ User(f) = User(r)
                /\ saw[f] = users[User(r)].password /\ saw[f] # users'[User(r)].password}
  <2>1. saw' = saw /\ undone \subseteq Requests
    BY DEF SucceedLogin, TypeOK
  <2> QED BY <1>1, <1>3, <2>1, SetPasswordUsers
<1> QED BY <1>2, <1>3 DEF SucceedLogin

LEMMA WriteUsers ==
    ASSUME TypeOK, NEW r \in Requests, Write(r)
    PROVE  /\ User(r) \in Users
           /\ users' \in [Users -> Accounts]
           /\ \A u \in Users \ {User(r)} : users'[u] = users[u]
           /\ saw' \in [Requests -> Passwords]
           /\ \A o \in Requests \ {r} : saw'[o] = saw[o]
<1> DEFINE u == User(r)
<1>1. pc[r] # "new" /\ u \in Users
  BY Known DEF Write
<1>2. users \in [Users -> Accounts] /\ saw \in [Requests -> Passwords]
  BY DEF TypeOK
<1>3. users[u].status \in Statuses /\ users[u] \in Accounts /\ r \in Passwords
  BY <1>1, <1>2 DEF Accounts, Passwords
<1>4. "active" \in Statuses /\ "disabled" \in Statuses /\ "deleted" \in Statuses
  BY DEF Statuses
<1> HIDE DEF u
<1>5. CASE SetPassword(u, r) /\ saw' = [saw EXCEPT ![r] = users'[u].password]
  BY <1>1, <1>2, <1>3, <1>5, SetPasswordUsers DEF u
<1>6. ASSUME NEW status \in Statuses, NEW next, WriteStatus(r, status, next)
      PROVE  /\ users' \in [Users -> Accounts]
             /\ \A v \in Users \ {u} : users'[v] = users[v]
             /\ saw' = saw
  <2> DEFINE q == IF users[u].status = "deleted" THEN users[u].status ELSE status
  <2>1. q \in Statuses
    BY <1>3
  <2>2. users' = [users EXCEPT ![u].status = q] /\ saw' = saw
    BY <1>1, <1>2, <1>6 DEF WriteStatus, u
  <2>3. [users[u] EXCEPT !.status = q] \in Accounts
    BY <1>3, <2>1 DEF Accounts
  <2> HIDE DEF q
  <2> QED BY <1>1, <1>2, <2>2, <2>3
<1>7. CASE users' = [users EXCEPT ![u].status = "deleted"] /\ saw' = saw
  <2>1. [users[u] EXCEPT !.status = "deleted"] \in Accounts
    BY <1>3, <1>4 DEF Accounts
  <2> QED BY <1>1, <1>2, <1>7, <2>1 DEF u
<1>8. \/ SetPassword(u, r) /\ saw' = [saw EXCEPT ![r] = users'[u].password]
      \/ WriteStatus(r, "disabled", "revoke_all")
      \/ WriteStatus(r, "active", "200")
      \/ users' = [users EXCEPT ![u].status = "deleted"] /\ saw' = saw
  BY DEF Write, u
<1> QED BY <1>1, <1>2, <1>4, <1>5, <1>6, <1>7, <1>8 DEF u

LEMMA TypeStep == ASSUME TypeOK, Opened, [Next]_vars PROVE TypeOK'
<1>0. /\ at \in [Requests -> Nat \cup {Never}] /\ saw \in [Requests -> Passwords]
      /\ now \in Nat /\ Ttl \in Nat /\ now \in 0..MaxTime /\ MaxTime \in Nat
  BY ClockOK, TimesAreNatural DEF TypeOK
<1>1. ASSUME NEW r \in Requests, NEW u \in Users, Login(r, u) PROVE TypeOK'
  <2>1. users[u].password \in Passwords
    BY DEF TypeOK, Accounts
  <2>2. saw' \in [Requests -> Passwords] /\ at' = at
    BY <1>0, <1>1, <2>1 DEF Login, history
  <2> QED BY <1>0, <1>1, <2>2, LoginArrives, ArrivesTypes
<1>2. ASSUME NEW r \in Requests, NEW u \in Users, ChangePassword(r, u) PROVE TypeOK'
  BY <1>0, <1>2, ChangeArrives, ArrivesTypes DEF ChangePassword, history
<1>3. ASSUME NEW r \in Requests, NEW u \in Users, ResetPassword(r, u) PROVE TypeOK'
  BY <1>0, <1>3, ResetArrives, ArrivesTypes DEF ResetPassword, history
<1>4. ASSUME NEW r \in Requests, NEW u \in Users, NEW type \in {"disable", "enable", "delete"},
             Administer(r, u, type)
      PROVE  TypeOK'
  BY <1>0, <1>4, AdministerArrives, ArrivesTypes DEF Administer, history
<1>5. ASSUME NEW r \in Requests, NEW t \in Requests, Refresh(r, t) PROVE TypeOK'
  <2>1. at' \in [Requests -> Nat \cup {Never}] /\ saw' = saw
    BY <1>0, <1>5 DEF Refresh
  <2>2. User(t) \in Users /\ Family(t) \in Requests
    BY <1>5, HandedFields DEF Refresh
  <2> QED BY <1>0, <1>5, <2>1, <2>2, RefreshArrives, ArrivesTypes
<1>6. ASSUME NEW r \in Requests, NEW t \in Requests, Logout(r, t) PROVE TypeOK'
  <2>1. User(t) \in Users /\ Family(t) \in Requests
    BY <1>6, HandedFields DEF Logout
  <2> QED BY <1>0, <1>6, <2>1, LogoutArrives, ArrivesTypes DEF Logout, history
<1>7. ASSUME NEW r \in Requests, Write(r) PROVE TypeOK'
  <2>1. /\ users' \in [Users -> Accounts]
        /\ saw' \in [Requests -> Passwords]
    BY <1>7, WriteUsers
  <2>2. unrevoked' \subseteq Requests
    BY <1>7 DEF Write, TypeOK
  <2>3. /\ pc' \in [Requests -> {"new"} \cup Awaits \cup Answers]
        /\ \A o \in Requests : pc'[o] # "new" => call'[o] \in Calls
    BY <1>7, WriteGoes, GoesTypes
  <2> QED BY <1>7, <2>1, <2>2, <2>3 DEF Write, TypeOK
<1>8. ASSUME NEW r \in Requests, CheckUser(r) PROVE TypeOK'
  <2>1. /\ pc' \in [Requests -> {"new"} \cup Awaits \cup Answers]
        /\ \A o \in Requests : pc'[o] # "new" => call'[o] \in Calls
    BY <1>8, CheckUserGoes, GoesTypes
  <2> QED BY <1>8, <2>1 DEF CheckUser, history, TypeOK
<1>9. ASSUME NEW r \in Requests, Rotate(r) PROVE TypeOK'
  <2>1. /\ pc' \in [Requests -> {"new"} \cup Awaits \cup Answers]
        /\ \A o \in Requests : pc'[o] # "new" => call'[o] \in Calls
    BY <1>9, RotateGoes, GoesTypes
  <2>2. PICK p \in Requests : tokens' = [tokens EXCEPT ![p] = RotatedDoc(@)]
    BY <1>9, Known DEF Rotate
  <2>3. /\ tokens' \in [Requests -> TokenDocs]
        /\ \A t \in Requests : tokens'[t].rotated # Never =>
             tokens'[t].revoked /\ tokens'[t].rotated <= now
    <3>1. now <= now
      BY <1>0
    <3> QED BY <2>2, <3>1, RotateDocs, DocsOK
  <2> QED BY <1>9, <2>1, <2>3 DEF Rotate, history, TypeOK
<1>10. ASSUME NEW r \in Requests, OpenSession(r) PROVE TypeOK'
  <2>1. /\ pc' \in [Requests -> {"new"} \cup Awaits \cup Answers]
        /\ \A o \in Requests : pc'[o] # "new" => call'[o] \in Calls
    BY <1>10, OpenSessionGoes, GoesTypes
  <2>2. /\ tokens' \in [Requests -> TokenDocs]
        /\ \A t \in Requests : tokens'[t].rotated # Never =>
             tokens'[t].revoked /\ tokens'[t].rotated <= now
    BY <1>10, OpenDocs, DocsOK
  <2>3. closed' \subseteq Requests /\ reopened' \subseteq Requests
    BY <1>10 DEF OpenSession, TypeOK
  <2> QED BY <1>10, <2>1, <2>2, <2>3 DEF OpenSession, TypeOK
<1>11. ASSUME NEW r \in Requests, RevokeFamily(r) PROVE TypeOK'
  <2>1. /\ pc' \in [Requests -> {"new"} \cup Awaits \cup Answers]
        /\ \A o \in Requests : pc'[o] # "new" => call'[o] \in Calls
    BY <1>11, RevokeFamilyGoes, GoesTypes
  <2>2. tokens' = Revoked(Members(Family(r))) /\ Members(Family(r)) \subseteq Requests
    BY <1>11 DEF RevokeFamily, Members
  <2>3. /\ tokens' \in [Requests -> TokenDocs]
        /\ \A t \in Requests : tokens'[t].rotated # Never =>
             tokens'[t].revoked /\ tokens'[t].rotated <= now
    BY <2>2, RevokedDocs, DocsOK
  <2>4. Family(r) \in Requests
    BY <1>11, Known DEF RevokeFamily
  <2>5. closed' \subseteq Requests /\ ended' \subseteq Requests /\ overtaken' \subseteq Requests
    BY <1>11, <2>4 DEF RevokeFamily, TypeOK, Committed
  <2> QED BY <1>11, <2>1, <2>3, <2>5 DEF RevokeFamily, TypeOK
<1>12. ASSUME NEW r \in Requests, RevokeAll(r) PROVE TypeOK'
  <2> DEFINE theirs == {t \in Requests : tokens[t].stored /\ User(t) = User(r)}
  <2>1. /\ pc' \in [Requests -> {"new"} \cup Awaits \cup Answers]
        /\ \A o \in Requests : pc'[o] # "new" => call'[o] \in Calls
    BY <1>12, RevokeAllGoes, GoesTypes
  <2>2. tokens' = Revoked(theirs) /\ theirs \subseteq Requests
    BY <1>12 DEF RevokeAll
  <2>3. /\ tokens' \in [Requests -> TokenDocs]
        /\ \A t \in Requests : tokens'[t].rotated # Never =>
             tokens'[t].revoked /\ tokens'[t].rotated <= now
    BY <2>2, RevokedDocs, DocsOK
  <2>4. \A t \in theirs : Family(t) \in Requests
    BY Known DEF Opened, NoToken
  <2>5. closed' \subseteq Requests /\ ended' \subseteq Requests
    BY <1>12, <2>4 DEF RevokeAll, TypeOK
  <2>6. overtaken' \subseteq Requests /\ unrevoked' \subseteq Requests
    BY <1>12 DEF RevokeAll, TypeOK, Committed
  <2> QED BY <1>12, <2>1, <2>3, <2>5, <2>6 DEF RevokeAll, TypeOK
<1>13. ASSUME NEW t \in Requests, Purge(t) PROVE TypeOK'
  <2>1. /\ tokens' \in [Requests -> TokenDocs]
        /\ \A o \in Requests : tokens'[o].rotated # Never =>
             tokens'[o].revoked /\ tokens'[o].rotated <= now
    BY <1>13, PurgeDocs, DocsOK
  <2> QED BY <1>13, <2>1 DEF Purge, history, TypeOK
<1>14. CASE Tick
  <2>1. now' \in 0..MaxTime
    BY <1>0, <1>14 DEF Tick
  <2>2. \A t \in Requests : tokens[t].rotated # Never => tokens[t].rotated <= now'
    BY <1>0, <1>14, DocsOK DEF Tick
  <2> QED BY <1>14, <2>1, <2>2 DEF Tick, history, TypeOK
<1>15. CASE UNCHANGED vars
  BY <1>15 DEF vars, TypeOK
<1>16. ASSUME NEW r \in Requests, SucceedLogin(r) PROVE TypeOK'
  <2>1. /\ pc' \in [Requests -> {"new"} \cup Awaits \cup Answers]
        /\ \A o \in Requests : pc'[o] # "new" => call'[o] \in Calls
    BY <1>16, SucceedLoginGoes, GoesTypes
  <2>2. users' \in [Users -> Accounts] /\ undone' \subseteq Requests
    BY <1>16, SucceedLoginUsers
  <2> QED BY <1>16, <2>1, <2>2 DEF SucceedLogin, TypeOK
<1> QED BY <1>1, <1>2, <1>3, <1>4, <1>5, <1>6, <1>7, <1>8, <1>9, <1>10, <1>11, <1>12,
           <1>13, <1>14, <1>15, <1>16 DEF Next

\* Every step is a request that arrives, one that goes on, the TTL index, or
\* the clock.
LEMMA StepKinds ==
    ASSUME TypeOK, [Next]_vars
    PROVE  \/ \E r, t, f \in Requests, u \in Users : Arrives(r, u, f, t)
           \/ \E r \in Requests : Goes(r)
           \/ UNCHANGED <<pc, call, at>>
<1>1. ASSUME NEW r \in Requests, NEW u \in Users,
             \/ Login(r, u) \/ ChangePassword(r, u) \/ ResetPassword(r, u)
             \/ \E type \in {"disable", "enable", "delete"} : Administer(r, u, type)
      PROVE  Arrives(r, u, r, r)
  BY <1>1, LoginArrives, ChangeArrives, ResetArrives, AdministerArrives
<1>2. ASSUME NEW r \in Requests, NEW t \in Requests, Refresh(r, t) \/ Logout(r, t)
      PROVE  User(t) \in Users /\ Family(t) \in Requests /\ Arrives(r, User(t), Family(t), t)
  <2>1. Handed(t)
    BY <1>2 DEF Refresh, Logout
  <2> QED BY <1>2, <2>1, HandedFields, RefreshArrives, LogoutArrives
<1>3. ASSUME NEW r \in Requests,
             \/ SucceedLogin(r) \/ Write(r) \/ CheckUser(r) \/ Rotate(r)
             \/ OpenSession(r) \/ RevokeFamily(r) \/ RevokeAll(r)
      PROVE  Goes(r)
  BY <1>3, SucceedLoginGoes, WriteGoes, CheckUserGoes, RotateGoes, OpenSessionGoes, RevokeFamilyGoes, RevokeAllGoes
<1>4. CASE (\E t \in Requests : Purge(t)) \/ Tick \/ UNCHANGED vars
  BY <1>4 DEF Purge, Tick, vars, history
<1> QED BY <1>1, <1>2, <1>3, <1>4 DEF Next

\* What a request has asked never changes, and what it was answered neither.
LEMMA Persists ==
    ASSUME TypeOK, [Next]_vars, NEW o \in Requests, pc[o] # "new"
    PROVE  /\ pc'[o] # "new" /\ call'[o] = call[o]
           /\ User(o)' = User(o) /\ Family(o)' = Family(o)
           /\ pc[o] \in Answers => pc'[o] = pc[o]
           /\ Handed(o) => Handed(o)'
<1> SUFFICES /\ pc'[o] # "new" /\ call'[o] = call[o]
             /\ pc[o] \in Answers => pc'[o] = pc[o]
  BY DEF User, Family, Handed, Answers
<1>1. ASSUME NEW r \in Requests, NEW u \in Users, NEW f \in Requests, NEW t \in Requests,
             Arrives(r, u, f, t)
      PROVE  pc'[o] = pc[o] /\ call'[o] = call[o]
  <2>1. PICK type \in AccountTypes \cup TokenTypes : Asks(r, type, u, f, t)
    BY <1>1 DEF Arrives
  <2>2. pc[r] = "new" /\ \A x \in Requests \ {r} : call'[x] = call[x]
    BY <2>1, AsksCall
  <2>3. \A x \in Requests \ {r} : pc'[x] = pc[x]
    BY <1>1, Moved DEF Arrives
  <2> QED BY <2>2, <2>3
<1>2. ASSUME NEW r \in Requests, Goes(r)
      PROVE  /\ pc'[o] # "new" /\ call'[o] = call[o]
             /\ pc[o] \in Answers => pc'[o] = pc[o]
  <2>1. call' = call /\ pc[r] \in Awaits /\ pc'[r] # "new" /\ \A x \in Requests \ {r} : pc'[x] = pc[x]
    BY <1>2, GoesTypes DEF Goes
  <2>2. pc[r] \notin Answers
    BY <2>1 DEF Awaits, Answers
  <2> QED BY <2>1, <2>2
<1> QED BY <1>1, <1>2, StepKinds

LEMMA BegunStep == ASSUME TypeOK, TypeOK', Begun, [Next]_vars PROVE Begun'
<1> USE DEF Begun
<1> DEFINE Good(x) == /\ pc[Family(x)] # "new"
                      /\ User(Family(x)) = User(x)
                      /\ Family(x) = x \/ pc[Family(x)] = "200"
                      /\ call[x].type \in AccountTypes => Family(x) = x
                      /\ call[x].type \in TokenTypes =>
                          Handed(call[x].token) /\ Family(x) = Family(call[x].token)
<1>1. ASSUME NEW x \in Requests, pc[x] # "new" PROVE Good(x)'
  <2>1. Good(x) /\ Family(x) \in Requests /\ call[x].token \in Requests
    BY <1>1, Known
  <2>2. call'[x] = call[x] /\ User(x)' = User(x) /\ Family(x)' = Family(x)
    BY <1>1, Persists
  <2>3. /\ pc'[Family(x)] # "new" /\ User(Family(x))' = User(Family(x))
        /\ pc[Family(x)] = "200" => pc'[Family(x)] = "200"
    BY <2>1, <2>2, Persists DEF Answers, User
  <2>4. Handed(call[x].token) => /\ Handed(call[x].token)'
                                 /\ Family(call[x].token)' = Family(call[x].token)
    BY <2>1, <2>2, Persists, HandedFields DEF Handed, Family
  <2> QED BY <2>1, <2>2, <2>3, <2>4 DEF User, Family, Handed
<1>2. ASSUME NEW r \in Requests, NEW u \in Users, NEW f \in Requests, NEW t \in Requests,
             Arrives(r, u, f, t)
      PROVE  Good(r)'
  <2>1. PICK type \in AccountTypes \cup TokenTypes :
             /\ Asks(r, type, u, f, t)
             /\ type \in AccountTypes => f = r
             /\ type \in TokenTypes => Handed(t) /\ u = User(t) /\ f = Family(t)
    BY <1>2 DEF Arrives
  <2>2. /\ call'[r].type = type /\ User(r)' = u /\ Family(r)' = f /\ call'[r].token = t
    BY <2>1, AsksCall DEF User, Family
  <2>3. pc'[r] # "new"
    BY <1>2, Moved DEF Arrives
  <2>4. CASE type \in AccountTypes
    <3>1. type \notin TokenTypes
      BY <2>4 DEF AccountTypes, TokenTypes
    <3> QED BY <2>1, <2>2, <2>3, <2>4, <3>1 DEF User, Family
  <2>5. CASE type \in TokenTypes
    <3>1. Handed(t) /\ pc[t] = "200" /\ u = User(t) /\ f = Family(t)
      BY <2>1, <2>5 DEF Handed
    <3>2. pc[f] = "200" /\ User(f) = u
      BY <3>1
    <3>3. /\ Handed(t)' /\ Family(t)' = f
          /\ pc'[f] = "200" /\ User(f)' = u
      BY <3>1, <3>2, Persists DEF Answers
    <3>4. type \notin AccountTypes
      BY <2>5 DEF AccountTypes, TokenTypes
    <3> QED BY <2>2, <3>3, <3>4 DEF User, Family, Handed
  <2> QED BY <2>4, <2>5
<1>3. ASSUME NEW x \in Requests, pc[x] = "new", pc'[x] # "new" PROVE Good(x)'
  <2>1. ASSUME NEW r \in Requests, NEW u \in Users, NEW f \in Requests, NEW t \in Requests,
               Arrives(r, u, f, t)
        PROVE  Good(x)'
    <3>1. \A y \in Requests \ {r} : pc'[y] = pc[y]
      BY <2>1, Moved DEF Arrives
    <3>2. x = r
      BY <1>3, <3>1
    <3> QED BY <1>2, <2>1, <3>2
  <2>2. ASSUME NEW r \in Requests, Goes(r) PROVE FALSE
    BY <1>3, <2>2, GoesTypes
  <2> QED BY <1>3, <2>1, <2>2, StepKinds
<1> QED BY <1>1, <1>3

LEMMA StagesStep == ASSUME TypeOK, Stages, [Next]_vars PROVE Stages'
<1> DEFINE Good(x) == /\ pc[x] \in {"succeed", "rehash"} => call[x].type = "login"
                      /\ pc[x] \in {"user", "rotate", "revoke_reused"} => call[x].type = "refresh"
                      /\ pc[x] = "open" => call[x].type \in {"login", "change", "refresh"}
                      /\ x \in unrevoked => pc[x] = "revoke_all"
<1> SUFFICES ASSUME NEW x \in Requests PROVE Good(x)'
  BY DEF Stages
<1>0. Good(x)
  BY DEF Stages
<1>1. ASSUME NEW r \in Requests, NEW u \in Users,
             \/ Login(r, u) \/ ChangePassword(r, u) \/ ResetPassword(r, u)
             \/ \E type \in {"disable", "enable", "delete"} : Administer(r, u, type)
      PROVE  Good(x)'
  <2>1. /\ pc[r] = "new" /\ \A o \in Requests \ {r} : call'[o] = call[o] /\ pc'[o] = pc[o]
        /\ unrevoked' = unrevoked
    <3>1. Arrives(r, u, r, r)
      BY <1>1, LoginArrives, ChangeArrives, ResetArrives, AdministerArrives
    <3> QED BY <3>1, AsksCall, Moved DEF Arrives, sets
  <2>2. CASE x # r
    BY <1>0, <2>1, <2>2
  <2>3. CASE x = r
    <3>1. r \notin unrevoked
      BY <1>0, <2>1, <2>3
    <3>2. /\ pc'[r] \notin {"user", "rotate", "revoke_reused"}
          /\ pc'[r] \in {"succeed", "rehash", "open"} => call'[r].type = "login"
      <4>1. CASE Login(r, u)
        <5>1. call'[r].type = "login"
          BY <4>1, AsksCall DEF Login, AccountTypes
        <5>2. pc'[r] \in {"401", "403", "succeed", "rehash"}
          BY <4>1, Moved DEF Login, Awaits, Answers
        <5> QED BY <5>1, <5>2
      <4>2. CASE ChangePassword(r, u)
        BY <4>2, Moved DEF ChangePassword, Awaits, Answers
      <4>3. CASE ResetPassword(r, u)
        BY <4>3, Moved DEF ResetPassword, Awaits, Answers
      <4>4. ASSUME NEW type \in {"disable", "enable", "delete"}, Administer(r, u, type)
            PROVE  pc'[r] \in {"404", "200", "write"}
        BY <4>4, Moved DEF Administer, Awaits, Answers
      <4> QED BY <1>1, <4>1, <4>2, <4>3, <4>4
    <3> QED BY <2>1, <2>3, <3>1, <3>2
  <2> QED BY <2>2, <2>3
<1>2. ASSUME NEW r \in Requests, NEW t \in Requests, Refresh(r, t) \/ Logout(r, t) PROVE Good(x)'
  <2>1. User(t) \in Users /\ Family(t) \in Requests
    BY <1>2, HandedFields DEF Refresh, Logout
  <2>2. /\ pc[r] = "new" /\ \A o \in Requests \ {r} : call'[o] = call[o] /\ pc'[o] = pc[o]
        /\ unrevoked' = unrevoked
    <3>1. Arrives(r, User(t), Family(t), t)
      BY <1>2, RefreshArrives, LogoutArrives
    <3> QED BY <2>1, <3>1, AsksCall, Moved DEF Arrives, sets
  <2>3. CASE Refresh(r, t)
    <3>1. call'[r].type = "refresh"
      BY <2>1, <2>3, AsksCall DEF Refresh, TokenTypes
    <3>2. pc'[r] \in {"401", "revoke_reused", "user"}
      BY <2>3, Moved DEF Refresh, Awaits, Answers
    <3> QED BY <1>0, <2>2, <3>1, <3>2
  <2>4. CASE Logout(r, t)
    <3>1. pc'[r] \in {"204", "revoke_family"}
      BY <2>4, Moved DEF Logout, Awaits, Answers
    <3> QED BY <1>0, <2>2, <3>1
  <2> QED BY <1>2, <2>3, <2>4
<1>3. ASSUME NEW r \in Requests, Goes(r),
             x # r => (x \in unrevoked' => x \in unrevoked),
             x = r => Good(x)'
      PROVE  Good(x)'
  <2>1. call' = call /\ \A o \in Requests \ {r} : pc'[o] = pc[o]
    BY <1>3, GoesTypes DEF Goes
  <2> QED BY <1>0, <1>3, <2>1
<1>4. ASSUME NEW r \in Requests, Write(r) PROVE Good(x)'
  <2>1. pc'[r] \in {"revoke_all", "404", "200"}
    BY <1>4, Moved DEF Write, WriteStatus, Awaits, Answers
  <2>2. r \notin unrevoked
    BY <1>4 DEF Write, Stages
  <2>3. unrevoked' = IF pc'[r] = "revoke_all" THEN unrevoked \cup {r} ELSE unrevoked
    BY <1>4 DEF Write
  <2> QED BY <1>3, <1>4, <2>1, <2>2, <2>3, WriteGoes
<1>5. ASSUME NEW r \in Requests, CheckUser(r) PROVE Good(x)'
  <2>1. pc'[r] \in {"rotate", "revoke_family"} /\ pc[r] = "user" /\ call' = call /\ unrevoked' = unrevoked
    BY <1>5, Moved DEF CheckUser, Awaits, Answers, history
  <2> QED BY <1>0, <1>3, <1>5, <2>1, CheckUserGoes
<1>6. ASSUME NEW r \in Requests, Rotate(r) PROVE Good(x)'
  <2>1. pc'[r] = "open" /\ pc[r] = "rotate" /\ call' = call /\ unrevoked' = unrevoked
    BY <1>6, Moved DEF Rotate, Awaits, Answers, history
  <2> QED BY <1>0, <1>3, <1>6, <2>1, RotateGoes
<1>7. ASSUME NEW r \in Requests, OpenSession(r) PROVE Good(x)'
  <2>1. pc'[r] = "200" /\ pc[r] = "open" /\ call' = call /\ unrevoked' = unrevoked
    BY <1>7, Moved DEF OpenSession, Awaits, Answers
  <2> QED BY <1>0, <1>3, <1>7, <2>1, OpenSessionGoes
<1>8. ASSUME NEW r \in Requests, RevokeFamily(r) PROVE Good(x)'
  <2>1. pc'[r] \in {"204", "401"} /\ call' = call /\ unrevoked' = unrevoked
        /\ pc[r] \in {"revoke_family", "revoke_reused"}
    BY <1>8, Moved DEF RevokeFamily, Awaits, Answers
  <2> QED BY <1>0, <1>3, <1>8, <2>1, RevokeFamilyGoes
<1>9. ASSUME NEW r \in Requests, RevokeAll(r) PROVE Good(x)'
  <2>1. pc'[r] \in {"open", "204", "200"} /\ call' = call /\ unrevoked' = unrevoked \ {r}
    BY <1>9, Moved DEF RevokeAll, Awaits, Answers
  <2>2. pc'[r] = "open" => call[r].type = "change"
    BY <1>9, Moved DEF RevokeAll, Awaits, Answers
  <2> QED BY <1>0, <1>3, <1>9, <2>1, <2>2, RevokeAllGoes
<1>10. CASE (\E t \in Requests : Purge(t)) \/ Tick \/ UNCHANGED vars
  BY <1>0, <1>10 DEF Purge, Tick, vars, history
<1>11. ASSUME NEW r \in Requests, SucceedLogin(r) PROVE Good(x)'
  <2>1. /\ pc'[r] = "open" /\ pc[r] \in {"succeed", "rehash"}
        /\ call' = call /\ unrevoked' = unrevoked
    BY <1>11, Moved DEF SucceedLogin, Awaits, Answers
  <2> QED BY <1>0, <1>3, <1>11, <2>1, SucceedLoginGoes
<1> QED BY <1>1, <1>2, <1>4, <1>5, <1>6, <1>7, <1>8, <1>9, <1>10, <1>11 DEF Next
-----------------------------------------------------------------------------
(***************************************************************************)
(* What a step does to one document of refresh_tokens.                     *)
(***************************************************************************)
LEMMA RotatesOne ==
    ASSUME TypeOK, NEW r \in Requests, Rotate(r)
    PROVE  \E p \in Requests : p = call[r].token /\ tokens' = [tokens EXCEPT ![p] = RotatedDoc(@)]
<1>1. call[r].token \in Requests
  BY Known DEF Rotate
<1> QED BY <1>1 DEF Rotate

LEMMA RevokesSome ==
    ASSUME NEW r \in Requests, RevokeFamily(r) \/ RevokeAll(r)
    PROVE  \E T \in SUBSET Requests : tokens' = Revoked(T) /\ \A t \in T : tokens[t].stored
<1>1. CASE RevokeFamily(r)
  <2>1. Members(Family(r)) \subseteq Requests /\ \A t \in Members(Family(r)) : tokens[t].stored
    BY DEF Members
  <2> QED BY <1>1, <2>1 DEF RevokeFamily
<1>2. CASE RevokeAll(r)
  <2> DEFINE theirs == {t \in Requests : tokens[t].stored /\ User(t) = User(r)}
  <2>1. theirs \subseteq Requests /\ \A t \in theirs : tokens[t].stored
    OBVIOUS
  <2>2. tokens' = Revoked(theirs)
    BY <1>2 DEF RevokeAll
  <2> HIDE DEF theirs
  <2> QED BY <2>1, <2>2
<1> QED BY <1>1, <1>2

TokenWrites ==
    \/ UNCHANGED tokens
    \/ \E p \in Requests : tokens' = [tokens EXCEPT ![p] = RotatedDoc(@)]
    \/ \E r \in Requests : OpenSession(r)
    \/ \E T \in SUBSET Requests : tokens' = Revoked(T) /\ \A t \in T : tokens[t].stored
    \/ \E p \in Requests : Purge(p)

LEMMA TokenKinds == ASSUME TypeOK, [Next]_vars PROVE TokenWrites
<1>1. ASSUME NEW r \in Requests, NEW u \in Users,
             \/ Login(r, u) \/ ChangePassword(r, u) \/ ResetPassword(r, u)
             \/ \E type \in {"disable", "enable", "delete"} : Administer(r, u, type)
      PROVE  UNCHANGED tokens
  BY <1>1 DEF Login, ChangePassword, ResetPassword, Administer
<1>2. ASSUME NEW r \in Requests, NEW t \in Requests, Refresh(r, t) \/ Logout(r, t)
      PROVE  UNCHANGED tokens
  BY <1>2 DEF Refresh, Logout
<1>3. ASSUME NEW r \in Requests, SucceedLogin(r) \/ Write(r) \/ CheckUser(r) PROVE UNCHANGED tokens
  BY <1>3 DEF SucceedLogin, Write, CheckUser
<1>4. CASE Tick \/ UNCHANGED vars
  BY <1>4 DEF Tick, vars, TokenWrites
<1> QED BY <1>1, <1>2, <1>3, <1>4, RotatesOne, RevokesSome DEF Next, TokenWrites

LEMMA TokenStep ==
    ASSUME TypeOK, Opened, [Next]_vars, NEW t \in Requests
    PROVE  /\ tokens[t].revoked => tokens'[t].revoked /\ tokens'[t].rotated = tokens[t].rotated
           /\ pc[t] = "200" => /\ tokens'[t].stored => tokens[t].stored
                               /\ Live(t)' => Live(t)
                               /\ tokens'[t].expires = tokens[t].expires
           /\ pc[t] # "200" => tokens'[t] = NoToken \/ OpenSession(t)
<1> DEFINE Goal == /\ tokens[t].revoked => tokens'[t].revoked /\ tokens'[t].rotated = tokens[t].rotated
                   /\ pc[t] = "200" => /\ tokens'[t].stored => tokens[t].stored
                                       /\ Live(t)' => Live(t)
                                       /\ tokens'[t].expires = tokens[t].expires
                   /\ pc[t] # "200" => tokens'[t] = NoToken \/ OpenSession(t)
<1>0. pc[t] # "200" => tokens[t] = NoToken /\ ~tokens[t].stored /\ ~tokens[t].revoked
  <2>1. ~NoToken.stored /\ ~NoToken.revoked
    BY DEF NoToken
  <2> QED BY <2>1 DEF Opened
<1>1. CASE tokens' = tokens
  BY <1>0, <1>1 DEF Live
<1>2. ASSUME NEW p \in Requests, tokens' = [tokens EXCEPT ![p] = RotatedDoc(@)] PROVE Goal
  BY <1>0, <1>2, RotateDocs DEF Live
<1>3. ASSUME NEW r \in Requests, OpenSession(r) PROVE Goal
  <2>1. pc[r] = "open" /\ \A o \in Requests \ {r} : tokens'[o] = tokens[o]
    BY <1>3, OpenDocs DEF OpenSession
  <2> QED BY <1>0, <1>3, <2>1 DEF Live
<1>4. ASSUME NEW T \in SUBSET Requests, tokens' = Revoked(T), \A o \in T : tokens[o].stored PROVE Goal
  BY <1>0, <1>4, RevokedDocs DEF Live
<1>5. ASSUME NEW p \in Requests, Purge(p) PROVE Goal
  BY <1>0, <1>5, PurgeDocs DEF Live
<1> QED BY <1>1, <1>2, <1>3, <1>4, <1>5, TokenKinds DEF TokenWrites

LEMMA OpenedStep == ASSUME TypeOK, Stages, Opened, [Next]_vars PROVE Opened'
<1>1. ASSUME NEW t \in Requests, pc'[t] # "200" PROVE tokens'[t] = NoToken
  <2>1. pc[t] # "200"
    <3>1. pc[t] = "200" => pc[t] # "new" /\ pc[t] \in Answers
      BY DEF Answers
    <3> QED BY <1>1, <3>1, Persists
  <2>2. ~OpenSession(t)
    BY <1>1, Moved DEF OpenSession, Answers
  <2> QED BY <2>1, <2>2, TokenStep
<1>2. now \in Nat /\ now' \in Nat /\ now <= now'
  <2>1. now' = now \/ now' = now + 1
    BY DEF Next, Login, ChangePassword, ResetPassword, Administer, Refresh, Logout, Write,
           SucceedLogin, CheckUser, Rotate, OpenSession, RevokeFamily, RevokeAll, Purge, Tick, vars
  <2> QED BY <2>1, ClockOK
<1>3. ASSUME NEW t \in Requests, Handed(t)', ~tokens'[t].stored PROVE tokens'[t].expires <= now'
  <2>1. CASE pc[t] = "200"
    <3>1. Handed(t)
      <4>1. call'[t] = call[t]
        BY <2>1, Persists
      <4> QED BY <1>3, <2>1, <4>1 DEF Handed
    <3>2. tokens'[t].expires = tokens[t].expires /\ tokens[t].expires \in Nat
      BY <2>1, TokenStep, DocsOK
    <3>3. CASE tokens[t].stored
      <4>1. PICK p \in Requests : Purge(p)
        <5>1. ASSUME NEW p \in Requests, tokens' = [tokens EXCEPT ![p] = RotatedDoc(@)] PROVE FALSE
          BY <1>3, <3>3, <5>1, RotateDocs
        <5>2. ASSUME NEW r \in Requests, OpenSession(r) PROVE FALSE
          BY <1>3, <3>3, <5>2, OpenDocs
        <5>3. ASSUME NEW T \in SUBSET Requests, tokens' = Revoked(T) PROVE FALSE
          BY <1>3, <3>3, <5>3, RevokedDocs
        <5> QED BY <1>3, <3>3, <5>1, <5>2, <5>3, TokenKinds DEF TokenWrites
      <4>2. p = t /\ tokens[p].expires <= now
        BY <1>3, <3>3, <4>1, PurgeDocs DEF Purge
      <4> QED BY <1>2, <3>2, <4>2
    <3>4. CASE ~tokens[t].stored
      BY <1>2, <3>1, <3>2, <3>4 DEF Opened
    <3> QED BY <3>3, <3>4
  <2>2. CASE pc[t] # "200"
    <3>1. ~OpenSession(t)
      BY <1>3, OpenDocs
    <3>2. tokens'[t] = NoToken
      BY <2>2, <3>1, TokenStep
    <3> QED BY <1>2, <3>2 DEF NoToken
  <2> QED BY <2>1, <2>2
<1> QED BY <1>1, <1>3 DEF Opened

LEMMA BaseInit == ASSUME Init PROVE Base
<1>1. TypeOK
  BY TypeInit
<1>2. \A r \in Requests : pc[r] = "new" /\ tokens[r] = NoToken
  BY DEF Init
<1>3. unrevoked = {}
  BY DEF Init
<1>4. Begun
  BY <1>2 DEF Begun
<1>5. Stages
  BY <1>2, <1>3 DEF Stages
<1>6. Opened
  BY <1>2 DEF Opened, Handed
<1> QED BY <1>1, <1>4, <1>5, <1>6 DEF Base

LEMMA BaseStep == ASSUME Base, [Next]_vars PROVE Base'
  BY TypeStep, BegunStep, StagesStep, OpenedStep DEF Base

(***************************************************************************)
(* Every variable keeps its type.                                          *)
(***************************************************************************)
THEOREM TypeCorrect == Spec => []TypeOK
<1>1. Base => TypeOK
  BY DEF Base
<1> QED BY <1>1, BaseInit, BaseStep, PTL DEF Spec

(***************************************************************************)
(* A token is rotated once and never comes back, for any number of racing  *)
(* refreshes, logouts and revocations: a revoked document keeps its        *)
(* revocation and its rotated_at for good.                                 *)
(***************************************************************************)
THEOREM RotationCorrect == Spec => RotationIsOnce
<1>1. ASSUME Base, [Next]_vars
      PROVE  \A t \in Requests : tokens[t].revoked =>
                 tokens'[t].revoked /\ tokens'[t].rotated = tokens[t].rotated
  BY <1>1, TokenStep DEF Base
<1> QED BY <1>1, BaseInit, BaseStep, PTL DEF Spec, RotationIsOnce
-----------------------------------------------------------------------------
(***************************************************************************)
(* What the invariants have in common: a request moves by its own steps    *)
(* only, and what history remembers stays.                                 *)
(***************************************************************************)
ArrivesAt(x) ==
    \/ \E u \in Users :
        \/ Login(x, u) \/ ChangePassword(x, u) \/ ResetPassword(x, u)
        \/ \E type \in {"disable", "enable", "delete"} : Administer(x, u, type)
    \/ \E t \in Requests : Refresh(x, t) \/ Logout(x, t)

GoesOn(x) ==
    \/ SucceedLogin(x) \/ Write(x)
    \/ CheckUser(x) \/ Rotate(x) \/ OpenSession(x)
    \/ RevokeFamily(x) \/ RevokeAll(x)

LEMMA Steps ==
    ASSUME TypeOK, [Next]_vars
    PROVE  \/ \E r \in Requests : ArrivesAt(r) \/ GoesOn(r)
           \/ \E t \in Requests : Purge(t)
           \/ Tick
           \/ UNCHANGED vars
  BY DEF Next, ArrivesAt, GoesOn

LEMMA ArrivesFrame ==
    ASSUME TypeOK, NEW r \in Requests, ArrivesAt(r)
    PROVE  /\ pc[r] = "new" /\ pc'[r] # "new"
           /\ \A o \in Requests \ {r} : pc'[o] = pc[o] /\ call'[o] = call[o]
           /\ UNCHANGED <<users, tokens, now, sets>>
<1>1. ASSUME NEW u \in Users, NEW f \in Requests, NEW t \in Requests, Arrives(r, u, f, t)
      PROVE  /\ pc[r] = "new" /\ pc'[r] # "new"
             /\ \A o \in Requests \ {r} : pc'[o] = pc[o] /\ call'[o] = call[o]
             /\ UNCHANGED <<users, tokens, now, sets>>
  BY <1>1, AsksCall, Moved DEF Arrives
<1>2. ASSUME NEW u \in Users,
             \/ Login(r, u) \/ ChangePassword(r, u) \/ ResetPassword(r, u)
             \/ \E type \in {"disable", "enable", "delete"} : Administer(r, u, type)
      PROVE  Arrives(r, u, r, r)
  BY <1>2, LoginArrives, ChangeArrives, ResetArrives, AdministerArrives
<1>3. ASSUME NEW t \in Requests, Refresh(r, t) \/ Logout(r, t)
      PROVE  User(t) \in Users /\ Family(t) \in Requests /\ Arrives(r, User(t), Family(t), t)
  <2>1. Handed(t)
    BY <1>3 DEF Refresh, Logout
  <2> QED BY <1>3, <2>1, HandedFields, RefreshArrives, LogoutArrives
<1> QED BY <1>1, <1>2, <1>3 DEF ArrivesAt

LEMMA GoesFrame ==
    ASSUME TypeOK, NEW r \in Requests, GoesOn(r)
    PROVE  /\ pc[r] # "new" /\ pc'[r] # "new" /\ pc[r] \in Awaits
           /\ \A o \in Requests \ {r} : pc'[o] = pc[o]
           /\ UNCHANGED <<now, call, at>>
<1>1. Goes(r)
  BY SucceedLoginGoes, WriteGoes, CheckUserGoes, RotateGoes, OpenSessionGoes, RevokeFamilyGoes,
     RevokeAllGoes DEF GoesOn
<1> QED BY <1>1, GoesTypes DEF Goes

LEMMA Moves ==
    ASSUME TypeOK, [Next]_vars, NEW x \in Requests, pc'[x] # pc[x]
    PROVE  ArrivesAt(x) \/ GoesOn(x)
<1>1. ASSUME NEW r \in Requests, ArrivesAt(r) \/ GoesOn(r) PROVE r = x
  BY <1>1, ArrivesFrame, GoesFrame
<1>2. CASE (\E t \in Requests : Purge(t)) \/ Tick \/ UNCHANGED vars
  BY <1>2 DEF Purge, Tick, vars
<1> QED BY <1>1, <1>2, Steps

LEMMA HistoryGrows ==
    ASSUME TypeOK, [Next]_vars
    PROVE  /\ overtaken \subseteq overtaken' /\ ended \subseteq ended'
           /\ reopened \subseteq reopened' /\ undone \subseteq undone'
<1>1. ASSUME NEW r \in Requests, ArrivesAt(r) PROVE UNCHANGED <<overtaken, ended, reopened, undone>>
  BY <1>1, ArrivesFrame DEF sets
<1>2. ASSUME NEW r \in Requests, GoesOn(r)
      PROVE  /\ overtaken \subseteq overtaken' /\ ended \subseteq ended'
             /\ reopened \subseteq reopened' /\ undone \subseteq undone'
  BY <1>2 DEF GoesOn, SucceedLogin, Write, CheckUser, Rotate, OpenSession, RevokeFamily, RevokeAll, history
<1>3. CASE (\E t \in Requests : Purge(t)) \/ Tick \/ UNCHANGED vars
  BY <1>3 DEF Purge, Tick, vars, history
<1> QED BY <1>1, <1>2, <1>3, Steps

LEMMA AtPersists ==
    ASSUME TypeOK, [Next]_vars, NEW o \in Requests, pc[o] # "new"
    PROVE  at'[o] = at[o]
<1>1. ASSUME NEW r \in Requests, ArrivesAt(r) PROVE at'[o] = at[o]
  <2>1. o # r
    BY <1>1, ArrivesFrame
  <2>2. at' = at \/ at' = [at EXCEPT ![r] = now]
    BY <1>1 DEF ArrivesAt, Login, ChangePassword, ResetPassword, Administer, Refresh, Logout, history
  <2> QED BY <2>1, <2>2 DEF TypeOK
<1>2. ASSUME NEW r \in Requests, GoesOn(r) PROVE at' = at
  BY <1>2, GoesFrame
<1>3. CASE (\E t \in Requests : Purge(t)) \/ Tick \/ UNCHANGED vars
  BY <1>3 DEF Purge, Tick, vars, history
<1> QED BY <1>1, <1>2, <1>3, Steps

\* A token in the database was handed out, and belongs to the user of its family.
LEMMA StoredToken ==
    ASSUME Base, NEW t \in Requests, tokens[t].stored \/ tokens[t].revoked \/ tokens[t].rotated # Never
    PROVE  /\ pc[t] = "200" /\ Family(t) \in Requests
           /\ User(Family(t)) = User(t) /\ pc[Family(t)] = "200"
<1>1. ~NoToken.stored /\ ~NoToken.revoked /\ NoToken.rotated = Never
  BY DEF NoToken
<1>2. pc[t] = "200"
  BY <1>1 DEF Base, Opened
<1>3. Family(t) \in Requests
  BY <1>2, Known DEF Base
<1> QED BY <1>2, <1>3 DEF Base, Begun

\* The token a request presents was handed out, of its family and its user.
LEMMA PresentedToken ==
    ASSUME Base, NEW r \in Requests, pc[r] # "new", call[r].type = "refresh"
    PROVE  /\ call[r].token \in Requests /\ Handed(call[r].token) /\ pc[call[r].token] = "200"
           /\ Family(r) = Family(call[r].token)
<1>1. call[r].token \in Requests
  BY Known DEF Base
<1>2. Handed(call[r].token) /\ Family(r) = Family(call[r].token)
  BY DEF Base, Begun, TokenTypes
<1> QED BY <1>1, <1>2 DEF Handed

(***************************************************************************)
(* What a request that refreshes went through when it came.                *)
(***************************************************************************)
LEMMA RefreshCame ==
    ASSUME TypeOK, NEW x \in Requests, ArrivesAt(x), call'[x].type = "refresh"
    PROVE  \E t \in Requests :
             /\ Refresh(x, t) /\ Handed(t)
             /\ call'[x].token = t /\ Family(x)' = Family(t) /\ User(x)' = User(t)
             /\ at'[x] = now
             /\ pc'[x] \in {"401", "revoke_reused", "user"}
<1>1. ASSUME NEW u \in Users, NEW type \in AccountTypes, Asks(x, type, u, x, x) PROVE FALSE
  <2>1. call'[x].type = type
    BY <1>1, AsksCall
  <2> QED BY <2>1 DEF AccountTypes
<1>2. ASSUME NEW t \in Requests, Logout(x, t) PROVE FALSE
  <2>1. Handed(t) /\ Asks(x, "logout", User(t), Family(t), t)
    BY <1>2 DEF Logout
  <2>2. call'[x].type = "logout"
    BY <2>1, HandedFields, AsksCall DEF TokenTypes
  <2> QED BY <2>2
<1>3. ASSUME NEW u \in Users,
             \/ Login(x, u) \/ ChangePassword(x, u) \/ ResetPassword(x, u)
             \/ \E type \in {"disable", "enable", "delete"} : Administer(x, u, type)
      PROVE  FALSE
  BY <1>1, <1>3 DEF Login, ChangePassword, ResetPassword, Administer, AccountTypes
<1>4. PICK t \in Requests : Refresh(x, t)
  BY <1>2, <1>3 DEF ArrivesAt
<1>5. Handed(t) /\ Asks(x, "refresh", User(t), Family(t), t)
  BY <1>4 DEF Refresh
<1>6. call'[x].token = t /\ call'[x].family = Family(t) /\ call'[x].user = User(t)
  <2>1. User(t) \in Users /\ Family(t) \in Requests /\ "refresh" \in AccountTypes \cup TokenTypes
    BY <1>5, HandedFields DEF TokenTypes
  <2> QED BY <1>5, <2>1, AsksCall
<1>7. pc'[x] \in {"401", "revoke_reused", "user"}
  BY <1>4, Moved DEF Refresh, Awaits, Answers
<1>8. at'[x] = now
  BY <1>4 DEF Refresh, TypeOK
<1> QED BY <1>4, <1>5, <1>6, <1>7, <1>8 DEF Family, User
-----------------------------------------------------------------------------
(***************************************************************************)
(* A refresh spends its token: it is rotated just before the answer, and   *)
(* nothing gives life back to a token that was handed out.                 *)
(***************************************************************************)
LEMMA SpentStep == ASSUME Base, Spent, [Next]_vars PROVE Spent'
<1> USE DEF Base
<1> SUFFICES ASSUME NEW x \in Requests, pc'[x] \in {"open", "200"}, call'[x].type = "refresh"
             PROVE  ~Live(call[x].token)'
  BY DEF Spent
<1>1. pc[x] # "new"
  <2>1. CASE pc[x] = "new"
    <3>1. ArrivesAt(x)
      <4>1. ArrivesAt(x) \/ GoesOn(x)
        BY <2>1, Moves
      <4> QED BY <2>1, <4>1, GoesFrame
    <3> QED BY <3>1, RefreshCame
  <2> QED BY <2>1
<1>2. call'[x] = call[x] /\ call[x].type = "refresh"
  BY <1>1, Persists
<1> DEFINE p == call[x].token
<1>3. p \in Requests /\ pc[p] = "200"
  BY <1>1, <1>2, PresentedToken
<1>4. CASE pc[x] \in {"open", "200"}
  BY <1>2, <1>3, <1>4, TokenStep DEF Spent, Live
<1>5. CASE pc[x] \notin {"open", "200"}
  <2>1. GoesOn(x)
    BY <1>1, <1>5, Moves, ArrivesFrame
  <2>2. ~Write(x) /\ ~RevokeAll(x) /\ ~SucceedLogin(x)
    BY <1>1, <1>2, Moved DEF SucceedLogin, Write, WriteStatus, RevokeAll, Stages, Awaits, Answers
  <2>3. ~CheckUser(x) /\ ~RevokeFamily(x) /\ ~OpenSession(x)
    BY <1>5, Moved DEF CheckUser, RevokeFamily, OpenSession, Awaits, Answers
  <2>4. tokens' = [tokens EXCEPT ![p] = RotatedDoc(@)]
    BY <2>1, <2>2, <2>3 DEF GoesOn, Rotate
  <2> QED BY <1>2, <1>3, <2>4, RotateDocs DEF Live
<1> QED BY <1>4, <1>5

(***************************************************************************)
(* Revocation reaches every token of the family, and whoever opens one     *)
(* takes the family off the closed ones.                                   *)
(***************************************************************************)
\* What a family is closed by.
LEMMA Closings ==
    ASSUME Base, [Next]_vars, NEW f \in closed', f \notin closed
    PROVE  \E r \in Requests :
             \/ RevokeFamily(r) /\ f = Family(r)
             \/ RevokeAll(r) /\ \E t \in Requests : tokens[t].stored /\ User(t) = User(r) /\ f = Family(t)
<1> USE DEF Base
<1>1. ASSUME NEW r \in Requests, ArrivesAt(r) PROVE FALSE
  BY <1>1, ArrivesFrame DEF sets
<1>2. CASE (\E t \in Requests : Purge(t)) \/ Tick \/ UNCHANGED vars
  BY <1>2 DEF Purge, Tick, vars, history
<1>3. ASSUME NEW r \in Requests, GoesOn(r) PROVE RevokeFamily(r) \/ RevokeAll(r)
  BY <1>3 DEF GoesOn, SucceedLogin, Write, CheckUser, Rotate, OpenSession, history
<1>4. PICK r \in Requests : RevokeFamily(r) \/ RevokeAll(r)
  BY <1>1, <1>2, <1>3, Steps
<1>5. CASE RevokeFamily(r)
  BY <1>5 DEF RevokeFamily
<1>6. CASE RevokeAll(r)
  BY <1>6 DEF RevokeAll
<1> QED BY <1>4, <1>5, <1>6

LEMMA HistoryBegunStep == ASSUME Base, HistoryHasBegun, [Next]_vars PROVE HistoryHasBegun'
<1>0. closed \subseteq Requests /\ overtaken \subseteq Requests
  BY DEF Base, TypeOK
<1>1. ASSUME NEW f \in closed' PROVE f \in Requests /\ pc[f] # "new"
  <2>1. CASE f \in closed
    BY <1>0, <2>1 DEF HistoryHasBegun
  <2>2. ASSUME NEW r \in Requests, RevokeFamily(r), f = Family(r) PROVE f \in Requests /\ pc[f] # "new"
    <3>1. pc[r] # "new"
      BY <2>2 DEF RevokeFamily
    <3> QED BY <2>2, <3>1, Known DEF Base, Begun
  <2>3. ASSUME NEW t \in Requests, tokens[t].stored, f = Family(t) PROVE f \in Requests /\ pc[f] # "new"
    BY <2>3, StoredToken
  <2> QED BY <1>1, <2>1, <2>2, <2>3, Closings
<1>2. ASSUME NEW o \in overtaken' PROVE o \in Requests /\ pc[o] # "new"
  <2>1. \A c \in Committed : c \in Requests /\ pc[c] # "new"
    BY DEF Committed
  <2>2. overtaken' \subseteq overtaken \cup Committed
    <3>1. ASSUME NEW r \in Requests, ArrivesAt(r) PROVE overtaken' = overtaken
      BY <3>1, ArrivesFrame DEF sets, Base
    <3>2. ASSUME NEW r \in Requests, GoesOn(r) PROVE overtaken' \subseteq overtaken \cup Committed
      BY <3>2 DEF GoesOn, SucceedLogin, Write, CheckUser, Rotate, OpenSession, RevokeFamily, RevokeAll, history
    <3>3. CASE (\E t \in Requests : Purge(t)) \/ Tick \/ UNCHANGED vars
      BY <3>3 DEF Purge, Tick, vars, history
    <3> QED BY <3>1, <3>2, <3>3, Steps DEF Base
  <2> QED BY <1>0, <1>2, <2>1, <2>2 DEF HistoryHasBegun
<1>3. ASSUME NEW x \in Requests, pc[x] # "new" PROVE pc'[x] # "new"
  BY <1>3, Persists DEF Base
<1> QED BY <1>1, <1>2, <1>3 DEF HistoryHasBegun

LEMMA ClosedStep == ASSUME Base, ClosedIsDead, [Next]_vars PROVE ClosedIsDead'
<1> SUFFICES ASSUME NEW f \in closed', NEW t \in Requests, tokens'[t].stored, Family(t)' = f
             PROVE  tokens'[t].revoked
  BY DEF ClosedIsDead, Members
<1>1. ~OpenSession(t)
  BY DEF OpenSession, Family
<1>2. pc[t] = "200" /\ tokens[t].stored
  <2>1. ~NoToken.stored
    BY DEF NoToken
  <2> QED BY <1>1, <2>1, TokenStep DEF Base
<1>3. Family(t) = f
  BY <1>2, Persists DEF Base
<1>4. CASE f \in closed
  <2>1. tokens[t].revoked
    BY <1>2, <1>3, <1>4 DEF ClosedIsDead, Members
  <2> QED BY <2>1, TokenStep DEF Base
<1>5. ASSUME NEW r \in Requests, RevokeFamily(r), f = Family(r) PROVE tokens'[t].revoked
  <2>1. t \in Members(Family(r)) /\ Members(Family(r)) \subseteq Requests
    BY <1>2, <1>3, <1>5 DEF Members
  <2>2. tokens' = Revoked(Members(Family(r)))
    BY <1>5 DEF RevokeFamily
  <2> QED BY <2>1, <2>2, RevokedDocs DEF Base
<1>6. ASSUME NEW r \in Requests, RevokeAll(r),
             NEW y \in Requests, tokens[y].stored, User(y) = User(r), f = Family(y)
      PROVE  tokens'[t].revoked
  <2> DEFINE theirs == {z \in Requests : tokens[z].stored /\ User(z) = User(r)}
  <2>1. User(t) = User(r)
    BY <1>2, <1>3, <1>6, StoredToken
  <2>2. t \in theirs /\ theirs \subseteq Requests
    BY <1>2, <2>1
  <2>3. tokens' = Revoked(theirs)
    BY <1>6 DEF RevokeAll
  <2> HIDE DEF theirs
  <2> QED BY <2>2, <2>3, RevokedDocs DEF Base
<1> QED BY <1>4, <1>5, <1>6, Closings

(***************************************************************************)
(* Who can open a closed family: a request that closing found half way, or *)
(* a refresh that was tolerated when it came.                              *)
(***************************************************************************)
LEMMA CommittedBefore ==
    ASSUME Base, [Next]_vars, NEW x \in Committed', pc[x] # "new"
    PROVE  x \in Committed
<1> USE DEF Base
<1>1. x \in Requests /\ call'[x] = call[x]
  BY Persists DEF Committed
<1>2. CASE pc'[x] = pc[x]
  BY <1>1, <1>2 DEF Committed
<1>3. CASE pc'[x] # pc[x]
  <2>1. GoesOn(x)
    BY <1>1, <1>3, Moves, ArrivesFrame
  <2>2. CASE Write(x) \/ RevokeAll(x)
    <3>1. pc[x] \in {"write", "revoke_all"}
      BY <2>2 DEF Write, RevokeAll
    <3>2. call[x].type = "change"
      <4>1. CASE RevokeAll(x)
        BY <1>1, <4>1, Moved DEF RevokeAll, Committed, Awaits, Answers
      <4>2. CASE Write(x)
        BY <1>1, <4>2, Moved DEF Write, WriteStatus, Committed, Awaits, Answers
      <4> QED BY <2>2, <4>1, <4>2
    <3> QED BY <1>1, <3>1, <3>2 DEF Committed
  <2>3. CASE SucceedLogin(x) \/ CheckUser(x) \/ Rotate(x) \/ OpenSession(x)
    BY <1>1, <2>3 DEF SucceedLogin, CheckUser, Rotate, OpenSession, Committed
  <2>4. ~RevokeFamily(x)
    BY <1>1, Moved DEF RevokeFamily, Committed, Awaits, Answers
  <2> QED BY <2>1, <2>2, <2>3, <2>4 DEF GoesOn
<1> QED BY <1>2, <1>3

LEMMA ToleranceStays ==
    ASSUME Base, [Next]_vars, NEW x \in Requests, pc[x] # "new", Tolerated(x)
    PROVE  Tolerated(x)'
<1> USE DEF Base
<1>1. call'[x] = call[x] /\ at'[x] = at[x] /\ call[x].token \in Requests
  BY Persists, AtPersists, Known
<1>2. tokens[call[x].token].rotated # Never
  BY DEF Tolerated
<1>3. tokens'[call[x].token].rotated = tokens[call[x].token].rotated
  BY <1>1, <1>2, DocsOK, TokenStep
<1> QED BY <1>1, <1>3 DEF Tolerated

\* Who could open a closed family after a step, and no closing found it: one
\* that could before, or a refresh that comes with a token already revoked.
LEMMA Reopeners ==
    ASSUME Base, ClosedIsDead, HistoryHasBegun, [Next]_vars,
           NEW x \in Committed', Family(x)' \in closed', x \notin overtaken'
    PROVE  \/ /\ pc[x] = "new" /\ pc'[x] = "user" /\ tokens' = tokens
              /\ \E p \in Requests : /\ call'[x].token = p /\ at'[x] = now
                                    /\ tokens[p].revoked /\ WithinReuseLeeway(p)
           \/ pc[x] # "new" /\ x \in Committed /\ Family(x) \in closed /\ x \notin overtaken
<1> USE DEF Base
<1>0. x \in Requests
  BY DEF Committed
<1>1. CASE pc[x] = "new"
  <2>1. ArrivesAt(x)
    <3>1. pc'[x] # "new"
      BY DEF Committed
    <3> QED BY <1>0, <1>1, <3>1, Moves, GoesFrame
  <2>2. closed' = closed /\ tokens' = tokens
    BY <1>0, <2>1, ArrivesFrame DEF sets
  <2>3. ASSUME NEW u \in Users, NEW type \in AccountTypes, Asks(x, type, u, x, x) PROVE FALSE
    <3>1. Family(x)' = x
      BY <1>0, <2>3, AsksCall DEF Family
    <3> QED BY <1>1, <2>2, <3>1 DEF HistoryHasBegun
  <2>4. ASSUME NEW u \in Users,
               \/ Login(x, u) \/ ChangePassword(x, u) \/ ResetPassword(x, u)
               \/ \E type \in {"disable", "enable", "delete"} : Administer(x, u, type)
        PROVE  FALSE
    BY <2>3, <2>4 DEF Login, ChangePassword, ResetPassword, Administer, AccountTypes
  <2>5. ASSUME NEW t \in Requests, Logout(x, t) PROVE FALSE
    <3>1. pc'[x] \in {"204", "revoke_family"}
      BY <1>0, <2>5, Moved DEF Logout, Awaits, Answers
    <3> QED BY <3>1 DEF Committed
  <2>6. PICK t \in Requests : Refresh(x, t)
    BY <2>1, <2>4, <2>5 DEF ArrivesAt
  <2>7. call'[x].type = "refresh"
    <3>1. Handed(t) /\ Asks(x, "refresh", User(t), Family(t), t)
      BY <2>6 DEF Refresh
    <3>2. User(t) \in Users /\ Family(t) \in Requests /\ "refresh" \in AccountTypes \cup TokenTypes
      BY <3>1, HandedFields DEF TokenTypes
    <3> QED BY <1>0, <3>1, <3>2, AsksCall
  <2>8. PICK p \in Requests : /\ Refresh(x, p) /\ call'[x].token = p /\ Family(x)' = Family(p)
                              /\ at'[x] = now /\ pc'[x] \in {"401", "revoke_reused", "user"}
    BY <1>0, <2>1, <2>7, RefreshCame
  <2>9. pc'[x] = "user"
    BY <2>8 DEF Committed
  <2>10. tokens[p].stored /\ (tokens[p].revoked => WithinReuseLeeway(p))
    BY <1>0, <2>8, <2>9, Moved DEF Refresh, Awaits, Answers
  <2>11. tokens[p].revoked
    BY <2>2, <2>8, <2>10 DEF ClosedIsDead, Members
  <2> QED BY <1>1, <2>2, <2>8, <2>9, <2>10, <2>11
<1>2. CASE pc[x] # "new"
  <2>1. x \in Committed /\ x \notin overtaken /\ Family(x)' = Family(x)
    BY <1>0, <1>2, CommittedBefore, HistoryGrows, Persists
  <2>2. CASE Family(x) \in closed
    BY <1>2, <2>1, <2>2
  <2>3. ASSUME NEW r \in Requests, RevokeFamily(r), Family(x) = Family(r) PROVE FALSE
    BY <1>0, <2>1, <2>3 DEF RevokeFamily
  <2>4. ASSUME NEW r \in Requests, RevokeAll(r),
               NEW y \in Requests, tokens[y].stored, User(y) = User(r), Family(x) = Family(y)
        PROVE  FALSE
    <3>1. User(x) = User(r)
      <4>1. User(x) = User(Family(x))
        BY <1>0, <1>2 DEF Begun
      <4>2. User(Family(y)) = User(y)
        BY <2>4, StoredToken
      <4> QED BY <2>4, <4>1, <4>2
    <3>2. x # r => x \in overtaken'
      BY <2>1, <2>4, <3>1 DEF RevokeAll
    <3>3. CASE x = r
      <4>1. call[x].type = "change"
        BY <2>1, <2>4, <3>3 DEF RevokeAll, Committed
      <4>2. Family(x) = x /\ pc[x] # "200"
        BY <1>0, <1>2, <2>4, <3>3, <4>1 DEF Begun, AccountTypes, RevokeAll
      <4>3. pc[Family(y)] = "200"
        BY <2>4, StoredToken
      <4> QED BY <2>4, <4>2, <4>3
    <3> QED BY <3>2, <3>3
  <2> QED BY <2>1, <2>2, <2>3, <2>4, Closings
<1> QED BY <1>1, <1>2

LEMMA ReopenersStep ==
    ASSUME Base, ClosedIsDead, HistoryHasBegun, ReopenersAreKnown, [Next]_vars
    PROVE  ReopenersAreKnown'
<1> USE DEF Base
<1> SUFFICES ASSUME NEW x \in Committed', Family(x)' \in closed', x \notin overtaken'
             PROVE  Tolerated(x)'
  BY DEF ReopenersAreKnown
<1>1. x \in Requests
  BY DEF Committed
<1>2. ASSUME tokens' = tokens,
             NEW p \in Requests, call'[x].token = p, at'[x] = now, WithinReuseLeeway(p)
      PROVE  Tolerated(x)'
  <2>1. /\ tokens[p].rotated # Never /\ tokens[p].rotated \in Int
        /\ tokens[p].rotated <= now /\ now - tokens[p].rotated <= Leeway
    BY <1>2, DocsOK DEF WithinReuseLeeway
  <2> QED BY <1>2, <2>1, ClockOK DEF Tolerated
<1>3. CASE pc[x] # "new" /\ x \in Committed /\ Family(x) \in closed /\ x \notin overtaken
  BY <1>1, <1>3, ToleranceStays DEF ReopenersAreKnown
<1> QED BY <1>2, <1>3, Reopeners

(***************************************************************************)
(* Why a token can be found revoked, and why a refresh is refused.         *)
(***************************************************************************)
LEMMA BlameStays ==
    ASSUME Base, [Next]_vars, NEW f \in Requests, Blamed(f)
    PROVE  Blamed(f)'
<1> USE DEF Base
<1>1. CASE f \in ended
  BY <1>1, HistoryGrows DEF Blamed
<1>2. ASSUME NEW o \in Requests, pc[o] # "new", Family(o) = f, Late(o)
      PROVE  pc'[o] # "new" /\ Family(o)' = f /\ Late(o)'
  <2>1. pc'[o] # "new" /\ Family(o)' = f /\ call'[o] = call[o] /\ at'[o] = at[o]
    BY <1>2, Persists, AtPersists
  <2>2. call[o].token \in Requests /\ tokens[call[o].token].rotated # Never
    BY <1>2, Known DEF Late
  <2>3. tokens'[call[o].token].rotated = tokens[call[o].token].rotated
    BY <2>2, DocsOK, TokenStep
  <2>4. call'[o].type = "refresh" /\ at'[o] - tokens'[call'[o].token].rotated > Leeway
        /\ tokens'[call'[o].token].rotated # Never
    BY <1>2, <2>1, <2>2, <2>3 DEF Late
  <2> QED BY <2>1, <2>4 DEF Late
<1> QED BY <1>1, <1>2 DEF Blamed

LEMMA RevocationsStep ==
    ASSUME Base, RevocationsAreExplained, [Next]_vars
    PROVE  RevocationsAreExplained'
<1> USE DEF Base
<1>0. now \in Nat
  BY ClockOK
<1>1. ASSUME NEW t \in Requests, tokens'[t].revoked, tokens'[t].rotated = Never
      PROVE  Blamed(Family(t))'
  <2>1. ASSUME pc[t] = "200" PROVE Family(t) \in Requests /\ Family(t)' = Family(t)
    BY <2>1, Persists, Known
  <2>2. CASE tokens[t].revoked
    <3>1. tokens[t].rotated = Never
      BY <1>1, <2>2, TokenStep
    <3>2. Family(t) \in Requests /\ Family(t)' = Family(t)
      BY <2>1, <2>2, StoredToken
    <3> QED BY <2>2, <3>1, <3>2, BlameStays DEF RevocationsAreExplained
  <2>3. CASE ~tokens[t].revoked
    <3>1. ASSUME NEW p \in Requests, tokens' = [tokens EXCEPT ![p] = RotatedDoc(@)] PROVE FALSE
      <4>1. now # Never
        BY <1>0 DEF Never
      <4> QED BY <1>1, <2>3, <3>1, <4>1, RotateDocs
    <3>2. ASSUME NEW r \in Requests, OpenSession(r) PROVE FALSE
      BY <1>1, <2>3, <3>2, OpenDocs
    <3>3. ASSUME NEW p \in Requests, Purge(p) PROVE FALSE
      BY <1>1, <2>3, <3>3, PurgeDocs
    <3>4. ASSUME NEW r \in Requests, RevokeFamily(r) PROVE Blamed(Family(t))'
      <4>1. tokens' = Revoked(Members(Family(r))) /\ Members(Family(r)) \subseteq Requests
        BY <3>4 DEF RevokeFamily, Members
      <4>2. t \in Members(Family(r))
        BY <1>1, <2>3, <4>1, RevokedDocs
      <4>3. Family(t) = Family(r) /\ tokens[t].stored
        BY <4>2 DEF Members
      <4>4. Family(t) \in Requests /\ Family(t)' = Family(t)
        BY <2>1, <4>3, StoredToken
      <4>5. CASE pc[r] = "revoke_family"
        BY <3>4, <4>3, <4>4, <4>5 DEF RevokeFamily, Blamed
      <4>6. CASE pc[r] = "revoke_reused"
        BY <4>3, <4>4, <4>6, BlameStays DEF RevocationsAreExplained
      <4> QED BY <3>4, <4>5, <4>6 DEF RevokeFamily
    <3>5. ASSUME NEW r \in Requests, RevokeAll(r) PROVE Blamed(Family(t))'
      <4> DEFINE theirs == {z \in Requests : tokens[z].stored /\ User(z) = User(r)}
      <4>1. /\ tokens' = Revoked(theirs) /\ theirs \subseteq Requests
            /\ ended' = ended \cup {Family(z) : z \in theirs}
            /\ \A z \in theirs : tokens[z].stored
        BY <3>5 DEF RevokeAll
      <4> HIDE DEF theirs
      <4>2. t \in theirs /\ tokens[t].stored
        BY <1>1, <2>3, <4>1, RevokedDocs
      <4>3. Family(t)' = Family(t) /\ Family(t) \in ended'
        BY <2>1, <4>1, <4>2, StoredToken
      <4> QED BY <4>3 DEF Blamed
    <3>6. (\E r \in Requests : RevokeFamily(r) \/ RevokeAll(r)) \/ tokens' = tokens
          \/ (\E p \in Requests : tokens' = [tokens EXCEPT ![p] = RotatedDoc(@)])
          \/ (\E r \in Requests : OpenSession(r)) \/ (\E p \in Requests : Purge(p))
      <4>1. ASSUME NEW r \in Requests, ArrivesAt(r) PROVE tokens' = tokens
        BY <4>1, ArrivesFrame
      <4>2. ASSUME NEW r \in Requests, SucceedLogin(r) \/ Write(r) \/ CheckUser(r) PROVE tokens' = tokens
        BY <4>2 DEF SucceedLogin, Write, CheckUser
      <4>3. CASE Tick \/ UNCHANGED vars
        BY <4>3 DEF Tick, vars
      <4> QED BY <4>1, <4>2, <4>3, Steps, RotatesOne DEF GoesOn
    <3> QED BY <1>1, <2>3, <3>1, <3>2, <3>3, <3>4, <3>5, <3>6
  <2> QED BY <2>2, <2>3
<1>2. ASSUME NEW r \in Requests, pc'[r] = "revoke_reused" PROVE Blamed(Family(r))'
  <2>1. CASE pc[r] = "revoke_reused"
    <3>1. Family(r) \in Requests /\ Family(r)' = Family(r)
      BY <2>1, Known, Persists
    <3> QED BY <2>1, <3>1, BlameStays DEF RevocationsAreExplained
  <2>2. CASE pc[r] # "revoke_reused"
    <3>1. ~GoesOn(r)
      BY <1>2, Moved DEF GoesOn, SucceedLogin, Write, WriteStatus, CheckUser, Rotate, OpenSession,
                         RevokeFamily, RevokeAll, Awaits, Answers
    <3>2. ArrivesAt(r)
      BY <1>2, <2>2, <3>1, Moves
    <3>3. call'[r].type = "refresh"
      <4>1. Stages'
        BY BaseStep
      <4> QED BY <1>2, <4>1 DEF Stages
    <3>4. PICK t \in Requests : /\ Refresh(r, t) /\ Handed(t) /\ call'[r].token = t
                                /\ Family(r)' = Family(t) /\ at'[r] = now
      BY <3>2, <3>3, RefreshCame
    <3>5. tokens[t].stored /\ tokens[t].revoked /\ ~WithinReuseLeeway(t) /\ tokens' = tokens
      BY <1>2, <3>4, Moved DEF Refresh, Awaits, Answers
    <3>6. CASE tokens[t].rotated = Never
      <4>1. Blamed(Family(t)) /\ Family(t) \in Requests
        BY <3>5, <3>6, StoredToken DEF RevocationsAreExplained
      <4>2. Blamed(Family(t))'
        <5>1. Family(t)' = Family(t)
          BY <3>4, HandedFields, Persists
        <5> QED BY <4>1, <5>1, BlameStays
      <4>3. Family(r)' = Family(t)'
        BY <3>4, HandedFields, Persists
      <4> QED BY <4>2, <4>3 DEF Blamed
    <3>7. CASE tokens[t].rotated # Never
      <4>1. now - tokens[t].rotated > Leeway
        BY <1>0, <3>5, <3>7, ClockOK, DocsOK DEF WithinReuseLeeway
      <4>2. Late(r)'
        BY <3>3, <3>4, <3>5, <3>7, <4>1 DEF Late
      <4> QED BY <1>2, <4>2 DEF Blamed
    <3> QED BY <3>6, <3>7
  <2> QED BY <2>1, <2>2
<1> QED BY <1>1, <1>2 DEF RevocationsAreExplained

LEMMA RefusalsStep ==
    ASSUME Base, RevocationsAreExplained, RefusalsAreExplained, [Next]_vars
    PROVE  RefusalsAreExplained'
<1> USE DEF Base
<1> SUFFICES ASSUME NEW x \in Requests, pc'[x] = "401", call'[x].type = "refresh",
                    ~(tokens'[call'[x].token].expires <= at'[x])
             PROVE  Blamed(Family(x))'
  BY DEF RefusalsAreExplained, Blamed
<1>1. CASE pc[x] = "new"
  <2>1. ArrivesAt(x)
    BY <1>1, Moves, GoesFrame
  <2>2. PICK t \in Requests : Refresh(x, t) /\ Handed(t) /\ call'[x].token = t /\ at'[x] = now
    BY <2>1, RefreshCame
  <2>3. tokens' = tokens /\ (~tokens[t].stored \/ tokens[t].expires <= now)
    BY <2>2, Moved DEF Refresh, Awaits, Answers
  <2> QED BY <2>2, <2>3 DEF Opened
<1>2. CASE pc[x] # "new"
  <2> DEFINE p == call[x].token
  <2>1. call'[x] = call[x] /\ at'[x] = at[x] /\ Family(x)' = Family(x) /\ Family(x) \in Requests
    BY <1>2, Persists, AtPersists, Known
  <2>2. p \in Requests /\ pc[p] = "200"
    BY <1>2, <2>1, PresentedToken
  <2>3. ~(tokens[p].expires <= at[x])
    BY <2>1, <2>2, TokenStep
  <2>4. CASE pc[x] = "401"
    <3>1. Blamed(Family(x))
      BY <2>1, <2>3, <2>4 DEF RefusalsAreExplained, Blamed
    <3> QED BY <2>1, <3>1, BlameStays
  <2>5. CASE pc[x] # "401"
    <3>1. GoesOn(x)
      BY <1>2, <2>5, Moves, ArrivesFrame
    <3>2. RevokeFamily(x)
      <4>1. ~(SucceedLogin(x) \/ Write(x) \/ CheckUser(x) \/ Rotate(x) \/ OpenSession(x) \/ RevokeAll(x))
        BY Moved DEF SucceedLogin, Write, WriteStatus, CheckUser, Rotate, OpenSession, RevokeAll,
                     Awaits, Answers
      <4> QED BY <3>1, <4>1 DEF GoesOn
    <3>3. CASE pc[x] = "revoke_family"
      BY <2>1, <3>2, <3>3 DEF RevokeFamily, Blamed
    <3>4. CASE pc[x] = "revoke_reused"
      BY <2>1, <3>4, BlameStays DEF RevocationsAreExplained
    <3> QED BY <3>2, <3>3, <3>4 DEF RevokeFamily
  <2> QED BY <2>4, <2>5
<1> QED BY <1>1, <1>2

(***************************************************************************)
(* Sessions that outlive the reason to end them.                           *)
(***************************************************************************)
\* A request leaves the pending revocations by making its own.
LEMMA PendingEnds ==
    ASSUME Base, [Next]_vars, NEW o \in unrevoked, o \notin unrevoked'
    PROVE  RevokeAll(o)
<1> USE DEF Base
<1>1. ASSUME NEW r \in Requests, ArrivesAt(r) PROVE FALSE
  BY <1>1, ArrivesFrame DEF sets
<1>2. ASSUME NEW r \in Requests, GoesOn(r) PROVE RevokeAll(r) /\ r = o
  BY <1>2 DEF GoesOn, SucceedLogin, Write, CheckUser, Rotate, OpenSession, RevokeFamily, RevokeAll, history
<1>3. CASE (\E t \in Requests : Purge(t)) \/ Tick \/ UNCHANGED vars
  BY <1>3 DEF Purge, Tick, vars, history
<1> QED BY <1>1, <1>2, <1>3, Steps

LEMMA WriteSteps ==
    ASSUME Base, [Next]_vars
    PROVE  users' = users \/ \E r \in Requests : Write(r) \/ SucceedLogin(r)
<1> USE DEF Base
<1>1. ASSUME NEW r \in Requests, ArrivesAt(r) PROVE users' = users
  BY <1>1, ArrivesFrame
<1>2. ASSUME NEW r \in Requests, GoesOn(r), ~Write(r), ~SucceedLogin(r)
      PROVE  users' = users
  BY <1>2 DEF GoesOn, CheckUser, Rotate, OpenSession, RevokeFamily, RevokeAll
<1>3. CASE (\E t \in Requests : Purge(t)) \/ Tick \/ UNCHANGED vars
  BY <1>3 DEF Purge, Tick, vars
<1> QED BY <1>1, <1>2, <1>3, Steps

\* Whoever makes the sessions of an account stale owes the revocation.
LEMMA WriteOwes ==
    ASSUME Base, NEW r \in Requests, Write(r)
    PROVE  \/ users' = users
           \/ users'[User(r)].status = "active" /\ users'[User(r)].password = users[User(r)].password
           \/ r \in unrevoked' /\ pc'[r] = "revoke_all"
<1> USE DEF Base
<1> DEFINE u == User(r)
<1>1. u \in Users /\ users \in [Users -> Accounts]
  BY Known DEF Write, TypeOK
<1>2. unrevoked' = IF pc'[r] = "revoke_all" THEN unrevoked \cup {r} ELSE unrevoked
  BY DEF Write
<1>3. users[u] \in Accounts /\ users = [users EXCEPT ![u] = users[u]]
  BY <1>1
<1>4. \A v : users[u].status = v => [users EXCEPT ![u].status = v] = users
  <2>1. \A v : users[u].status = v => [users[u] EXCEPT !.status = v] = users[u]
    BY <1>3 DEF Accounts
  <2> QED BY <1>1, <1>3, <2>1
<1> HIDE DEF u
<1>5. CASE MoveTo(r, "revoke_all")
  BY <1>2, <1>5, Moved DEF Awaits
<1>6. ASSUME NEW status \in Statuses, NEW next \in {"revoke_all", "200"},
             WriteStatus(r, status, next), ~MoveTo(r, "revoke_all")
      PROVE  \/ users' = users
             \/ next = "200" /\ users' = [users EXCEPT ![u].status = status]
  <2>1. users' = [users EXCEPT ![u].status = IF users[u].status = "deleted" THEN users[u].status ELSE status]
    BY <1>1, <1>6 DEF WriteStatus, u
  <2>2. CASE users[u].status = "deleted"
    BY <1>4, <2>1, <2>2
  <2>3. CASE users[u].status # "deleted"
    BY <1>6, <2>1, <2>3 DEF WriteStatus, u
  <2> QED BY <2>2, <2>3
<1>7. CASE WriteStatus(r, "disabled", "revoke_all") /\ ~MoveTo(r, "revoke_all")
  BY <1>6, <1>7 DEF Statuses
<1>8. CASE WriteStatus(r, "active", "200") /\ ~MoveTo(r, "revoke_all")
  <2>1. users' = users \/ users' = [users EXCEPT ![u].status = "active"]
    BY <1>6, <1>8 DEF Statuses
  <2> DEFINE e == [users[u] EXCEPT !.status = "active"]
  <2>2. e.status = "active" /\ e.password = users[u].password
    BY <1>3 DEF Accounts
  <2>3. users' = [users EXCEPT ![u].status = "active"] => users'[u] = e
    BY <1>1
  <2> QED BY <2>1, <2>2, <2>3 DEF u
<1>9. \/ MoveTo(r, "revoke_all")
      \/ WriteStatus(r, "disabled", "revoke_all")
      \/ WriteStatus(r, "active", "200")
  BY DEF Write
<1> QED BY <1>5, <1>7, <1>8, <1>9

\* The password a family was begun with is fixed before it is in use.
LEMMA SawStays ==
    ASSUME Base, [Next]_vars, NEW x \in Requests, pc[x] # "new", ~Write(x)
    PROVE  saw'[x] = saw[x]
<1> USE DEF Base
<1>0. saw \in [Requests -> Passwords]
  BY DEF TypeOK
<1>1. ASSUME NEW r \in Requests, ArrivesAt(r) PROVE saw'[x] = saw[x]
  <2>1. r # x
    BY <1>1, ArrivesFrame
  <2>2. saw' = saw \/ \E v : saw' = [saw EXCEPT ![r] = v]
    BY <1>1 DEF ArrivesAt, Login, ChangePassword, ResetPassword, Administer, Refresh, Logout, history
  <2> QED BY <1>0, <2>1, <2>2
<1>2. ASSUME NEW r \in Requests, GoesOn(r) PROVE saw'[x] = saw[x]
  <2>1. CASE Write(r)
    <3>1. r # x
      BY <2>1
    <3> QED BY <2>1, <3>1, WriteUsers
  <2>2. CASE ~Write(r)
    BY <1>2, <2>2 DEF GoesOn, SucceedLogin, CheckUser, Rotate, OpenSession, RevokeFamily, RevokeAll, history
  <2> QED BY <2>1, <2>2
<1>3. CASE (\E t \in Requests : Purge(t)) \/ Tick \/ UNCHANGED vars
  BY <1>3 DEF Purge, Tick, vars, history
<1> QED BY <1>1, <1>2, <1>3, Steps

\* What makes a family stale that was not.
LEMMA BecomesStale ==
    ASSUME Base, [Next]_vars, NEW x \in Requests, pc[x] # "new", ~Write(x),
           ~Stale(x), Stale(x)'
    PROVE  x \in undone' \/ \E r \in unrevoked' : User(r)' = User(x)' /\ r # x
<1> USE DEF Base
<1>1. saw'[x] = saw[x] /\ User(x)' = User(x) /\ User(x) \in Users
  BY SawStays, Persists, Known
<1>2. users[User(x)].status = "active" /\ users[User(x)].password = saw[x]
  BY DEF Stale
<1>3. users'[User(x)].status # "active" \/ users'[User(x)].password # saw[x]
  BY <1>1 DEF Stale
<1>4. PICK r \in Requests : Write(r) \/ SucceedLogin(r)
  BY <1>2, <1>3, WriteSteps
<1>5. User(r) = User(x)
  BY <1>1, <1>2, <1>3, <1>4, WriteUsers, SucceedLoginUsers
<1>6. CASE Write(r)
  <2>1. r \in unrevoked'
    BY <1>2, <1>3, <1>5, <1>6, WriteOwes
  <2>2. User(r)' = User(r)
    BY <1>6, Persists DEF Write
  <2> QED BY <1>1, <1>5, <1>6, <2>1, <2>2
<1>7. CASE SucceedLogin(r)
  <2>1. users'[User(x)].status = "active"
    BY <1>2, <1>5, <1>7, SucceedLoginUsers
  <2>2. saw[x] = users[User(r)].password /\ saw[x] # users'[User(r)].password
    BY <1>2, <1>3, <1>5, <2>1
  <2> QED BY <1>5, <1>7, <2>2, SucceedLoginUsers
<1> QED BY <1>4, <1>6, <1>7

\* A pending revocation that excuses a change either stays pending or finds it.
LEMMA OwedToChange ==
    ASSUME Base, [Next]_vars, NEW x \in Requests, call[x].type = "change",
           pc[x] \in {"write", "revoke_all"},
           NEW o \in unrevoked, User(o) = User(x), o # x
    PROVE  x \in overtaken' \/ (o \in unrevoked' /\ User(o)' = User(x)')
<1> USE DEF Base
<1>1. o \in Requests /\ pc[o] = "revoke_all"
  BY DEF TypeOK, Stages
<1>2. User(o)' = User(o) /\ User(x)' = User(x)
  BY <1>1, Persists
<1>3. CASE o \notin unrevoked'
  <2>1. RevokeAll(o)
    BY <1>3, PendingEnds
  <2>2. x \in Committed
    BY DEF Committed
  <2> QED BY <2>1, <2>2 DEF RevokeAll
<1> QED BY <1>2, <1>3

LEMMA ChangesStep ==
    ASSUME Base, ChangesAreExcused, [Next]_vars
    PROVE  ChangesAreExcused'
<1> USE DEF Base
<1>0. unrevoked \subseteq Requests
  BY DEF TypeOK
<1>1. ASSUME NEW x \in Requests, pc'[x] # "new", call'[x].type = "change",
             pc[x] = "new", pc'[x] \in {"write", "revoke_all"}
      PROVE  pc'[x] = "write" /\ users'[User(x)'].status = "active"
  <2>1. ArrivesAt(x)
    BY <1>1, Moves, GoesFrame
  <2>2. ASSUME NEW u \in Users, NEW type \in AccountTypes, Asks(x, type, u, x, x)
        PROVE  call'[x].type = type /\ User(x)' = u
    BY <2>2, AsksCall DEF User
  <2>3. ASSUME NEW t \in Requests, Refresh(x, t) \/ Logout(x, t) PROVE FALSE
    <3>1. pc'[x] \notin {"write", "revoke_all"}
      BY <2>3, Moved DEF Refresh, Logout, Awaits, Answers
    <3> QED BY <1>1, <3>1
  <2>4. ASSUME NEW u \in Users, Login(x, u) \/ ResetPassword(x, u) PROVE FALSE
    BY <1>1, <2>2, <2>4 DEF Login, ResetPassword, AccountTypes
  <2>5. ASSUME NEW u \in Users, NEW type \in {"disable", "enable", "delete"}, Administer(x, u, type) PROVE FALSE
    BY <1>1, <2>2, <2>5 DEF Administer, AccountTypes
  <2>6. PICK u \in Users : ChangePassword(x, u)
    BY <2>1, <2>3, <2>4, <2>5 DEF ArrivesAt
  <2>7. User(x)' = u /\ users' = users
    BY <2>2, <2>6 DEF ChangePassword, AccountTypes
  <2>8. pc'[x] = "write" /\ users[u].status = "active"
    BY <1>1, <2>6, Moved DEF ChangePassword, Awaits, Answers
  <2> QED BY <2>7, <2>8
<1>2. ASSUME NEW x \in Requests, call'[x].type = "change", pc'[x] = "write",
             users'[User(x)'].status # "active"
      PROVE  x \in overtaken' \/ \E o \in unrevoked' : User(o)' = User(x)'
  <2>1. pc[x] # "new"
    BY <1>1, <1>2
  <2>2. call[x].type = "change" /\ User(x)' = User(x) /\ User(x) \in Users
    BY <1>2, <2>1, Persists, Known
  <2>3. pc[x] = "write"
    <3>1. ~GoesOn(x)
      BY <1>2, Moved DEF GoesOn, SucceedLogin, Write, WriteStatus, CheckUser, Rotate, OpenSession,
                         RevokeFamily, RevokeAll, Awaits, Answers
    <3> QED BY <1>2, <2>1, <3>1, Moves, ArrivesFrame
  <2>4. CASE users[User(x)].status # "active"
    <3>1. x \in overtaken \/ \E o \in unrevoked : User(o) = User(x)
      BY <2>2, <2>3, <2>4 DEF ChangesAreExcused
    <3>2. CASE x \in overtaken
      BY <3>2, HistoryGrows
    <3>3. ASSUME NEW o \in unrevoked, User(o) = User(x)
          PROVE  x \in overtaken' \/ \E z \in unrevoked' : User(z)' = User(x)'
      <4>1. o # x
        BY <1>0, <2>3, <3>3 DEF Stages
      <4> QED BY <2>2, <2>3, <3>3, <4>1, OwedToChange
    <3> QED BY <3>1, <3>2, <3>3
  <2>5. CASE users[User(x)].status = "active"
    <3>1. PICK r \in Requests : Write(r)
      <4>1. ASSUME NEW r \in Requests, SucceedLogin(r) PROVE FALSE
        BY <1>2, <2>2, <2>5, <4>1, SucceedLoginUsers
      <4> QED BY <1>2, <2>2, <2>5, <4>1, WriteSteps
    <3>2. User(r) = User(x)
      BY <1>2, <2>2, <2>5, <3>1, WriteUsers
    <3>3. r \in unrevoked'
      BY <1>2, <2>2, <2>5, <3>1, <3>2, WriteOwes
    <3>4. User(r)' = User(r)
      BY <3>1, Persists DEF Write
    <3> QED BY <2>2, <3>2, <3>3, <3>4
  <2> QED BY <2>4, <2>5
<1>3. ASSUME NEW x \in Requests, call'[x].type = "change", pc'[x] = "revoke_all", Stale(x)'
      PROVE  x \in overtaken' \cup undone' \/ \E o \in unrevoked' : User(o)' = User(x)' /\ o # x
  <2>1. pc[x] # "new"
    BY <1>1, <1>3
  <2>2. call[x].type = "change" /\ User(x)' = User(x) /\ User(x) \in Users
    BY <1>3, <2>1, Persists, Known
  <2>3. ASSUME pc[x] \in {"write", "revoke_all"}, NEW o \in unrevoked, User(o) = User(x), o # x
        PROVE  x \in overtaken' \/ \E z \in unrevoked' : User(z)' = User(x)' /\ z # x
    BY <2>2, <2>3, OwedToChange
  <2>4. CASE pc[x] = "revoke_all"
    <3>1. ~Write(x)
      BY <2>4 DEF Write
    <3>2. CASE Stale(x)
      <4>1. x \in overtaken \cup undone \/ \E o \in unrevoked : User(o) = User(x) /\ o # x
        BY <2>2, <2>4, <3>2 DEF ChangesAreExcused
      <4> QED BY <2>3, <2>4, <4>1, HistoryGrows
    <3>3. CASE ~Stale(x)
      BY <1>3, <2>1, <3>1, <3>3, BecomesStale
    <3> QED BY <3>2, <3>3
  <2>5. CASE pc[x] # "revoke_all"
    <3>1. Write(x)
      <4>1. GoesOn(x)
        BY <1>3, <2>1, <2>5, Moves, ArrivesFrame
      <4>2. ~(SucceedLogin(x) \/ CheckUser(x) \/ Rotate(x) \/ OpenSession(x) \/ RevokeFamily(x) \/ RevokeAll(x))
        BY <1>3, Moved DEF SucceedLogin, CheckUser, Rotate, OpenSession, RevokeFamily, RevokeAll,
                           Awaits, Answers
      <4> QED BY <4>1, <4>2 DEF GoesOn
    <3>2. /\ SetPassword(User(x), x)
          /\ saw' = [saw EXCEPT ![x] = users'[User(x)].password]
          /\ pc[x] = "write"
      BY <2>2, <3>1 DEF Write
    <3>3. saw'[x] = users'[User(x)].password
      BY <3>2 DEF TypeOK
    <3>4. users'[User(x)].status = users[User(x)].status
      BY <2>2, <3>2, SetPasswordUsers DEF TypeOK, Passwords
    <3>5. users[User(x)].status # "active"
      BY <1>3, <2>2, <3>3, <3>4 DEF Stale
    <3>6. x \in overtaken \/ \E o \in unrevoked : User(o) = User(x)
      BY <2>2, <3>2, <3>5 DEF ChangesAreExcused
    <3>7. \A o \in unrevoked : o # x
      BY <1>0, <3>2 DEF Stages
    <3> QED BY <2>3, <3>2, <3>6, <3>7, HistoryGrows
  <2> QED BY <2>4, <2>5
<1> QED BY <1>2, <1>3 DEF ChangesAreExcused

\* The user of a family in use, and of whoever is about to open a token in it.
LEMMA InUseFacts ==
    ASSUME Base, NEW f \in Requests, InUse(f)
    PROVE  /\ pc[f] # "new" /\ User(f) \in Users
           /\ pc[f] = "200" \/ pc[f] \in {"succeed", "rehash", "user", "rotate", "open"}
<1> USE DEF Base
<1>1. ASSUME NEW t \in Requests, tokens[t].stored, Family(t) = f PROVE pc[f] = "200"
  BY <1>1, StoredToken
<1>2. ASSUME NEW r \in Requests, pc[r] \in {"succeed", "rehash", "user", "rotate", "open"}, Family(r) = f
      PROVE  pc[f] = "200" \/ pc[f] \in {"succeed", "rehash", "user", "rotate", "open"}
  BY <1>2 DEF Begun
<1>3. pc[f] = "200" \/ pc[f] \in {"succeed", "rehash", "user", "rotate", "open"}
  BY <1>1, <1>2 DEF InUse
<1> QED BY <1>3, Known

LEMMA ExcuseStays ==
    ASSUME Base, HistoryHasBegun, [Next]_vars, NEW f \in Requests, InUse(f), Excused(f)
    PROVE  Excused(f)'
<1> USE DEF Base
<1>0. /\ User(f)' = User(f) /\ unrevoked \subseteq Requests /\ overtaken \subseteq Requests
      /\ closed \subseteq Requests
  BY InUseFacts, Persists DEF TypeOK
<1>1. ASSUME NEW o \in unrevoked, User(o) = User(f) PROVE Excused(f)'
  <2>1. o \in Requests /\ pc[o] = "revoke_all" /\ User(o)' = User(o)
    BY <1>0, Persists DEF Stages
  <2>2. CASE o \in unrevoked'
    BY <1>0, <1>1, <2>1, <2>2 DEF Excused
  <2>3. CASE o \notin unrevoked'
    <3>1. RevokeAll(o)
      BY <2>3, PendingEnds
    <3>2. ASSUME NEW t \in Requests, tokens[t].stored, Family(t) = f PROVE f \in closed'
      <4>1. User(t) = User(o)
        BY <1>1, <3>2, StoredToken
      <4> QED BY <3>1, <3>2, <4>1 DEF RevokeAll
    <3>3. ASSUME NEW r \in Requests, pc[r] \in {"succeed", "rehash", "user", "rotate", "open"}, Family(r) = f
          PROVE  r \in overtaken' /\ Family(r)' = f
      <4>1. User(r) = User(o) /\ r # o /\ r \in Committed
        BY <1>1, <2>1, <3>3 DEF Begun, Committed
      <4>2. r \in overtaken'
        BY <3>1, <4>1 DEF RevokeAll
      <4> QED BY <3>3, <4>2, Persists
    <3> QED BY <3>2, <3>3 DEF InUse, Excused
  <2> QED BY <2>2, <2>3
<1>2. CASE f \in reopened
  BY <1>2, HistoryGrows DEF Excused
<1>3. CASE f \in closed
  <2>1. f \in closed' \cup reopened'
    <3>1. ASSUME NEW r \in Requests, ArrivesAt(r) PROVE closed' = closed
      BY <3>1, ArrivesFrame DEF sets
    <3>2. ASSUME NEW r \in Requests, GoesOn(r) PROVE f \in closed' \cup reopened'
      <4>1. CASE OpenSession(r)
        BY <1>3, <4>1 DEF OpenSession
      <4>2. CASE RevokeFamily(r)
        BY <1>3, <4>2 DEF RevokeFamily
      <4>3. CASE RevokeAll(r)
        BY <1>3, <4>3 DEF RevokeAll
      <4>4. CASE SucceedLogin(r) \/ Write(r) \/ CheckUser(r) \/ Rotate(r)
        BY <1>3, <4>4 DEF SucceedLogin, Write, CheckUser, Rotate, history
      <4> QED BY <3>2, <4>1, <4>2, <4>3, <4>4 DEF GoesOn
    <3>3. CASE (\E t \in Requests : Purge(t)) \/ Tick \/ UNCHANGED vars
      BY <1>3, <3>3 DEF Purge, Tick, vars, history
    <3>4. CASE closed' = closed
      BY <1>3, <3>4
    <3> QED BY <3>1, <3>2, <3>3, <3>4, Steps
  <2> QED BY <2>1 DEF Excused
<1>4. ASSUME NEW o \in overtaken, Family(o) = f PROVE Excused(f)'
  <2>1. o \in overtaken' /\ Family(o)' = f
    BY <1>0, <1>4, HistoryGrows, Persists DEF HistoryHasBegun
  <2> QED BY <2>1 DEF Excused
<1>5. CASE f \in undone
  BY <1>5, HistoryGrows DEF Excused
<1> QED BY <1>1, <1>2, <1>3, <1>4, <1>5 DEF Excused

\* How a family comes into use.
LEMMA ComesIntoUse ==
    ASSUME Base, [Next]_vars, NEW f \in Requests, InUse(f)', ~InUse(f), Stale(f)'
    PROVE  RevokeAll(f) /\ call[f].type = "change" /\ User(f)' = User(f)
<1> USE DEF Base
<1>1. ASSUME NEW t \in Requests, tokens'[t].stored, Family(t)' = f PROVE FALSE
  <2>1. CASE OpenSession(t)
    <3>1. Family(t) = f /\ pc[t] = "open"
      BY <1>1, <2>1 DEF OpenSession, Family
    <3> QED BY <3>1 DEF InUse
  <2>2. CASE ~OpenSession(t)
    <3>1. tokens[t].stored /\ pc[t] = "200"
      <4>1. ~NoToken.stored
        BY DEF NoToken
      <4> QED BY <1>1, <2>2, <4>1, TokenStep
    <3>2. Family(t) = f
      BY <1>1, <3>1, Persists
    <3> QED BY <3>1, <3>2 DEF InUse
  <2> QED BY <2>1, <2>2
<1>2. PICK r \in Requests : pc'[r] \in {"succeed", "rehash", "user", "rotate", "open"} /\ Family(r)' = f
  BY <1>1 DEF InUse
<1>3. CASE pc[r] = "new"
  <2>1. ArrivesAt(r)
    BY <1>2, <1>3, Moves, GoesFrame
  <2>2. ASSUME NEW u \in Users, Login(r, u) PROVE FALSE
    <3>1. User(r)' = u /\ Family(r)' = r /\ users' = users
      <4>1. Asks(r, "login", u, r, r) /\ "login" \in AccountTypes \cup TokenTypes /\ users' = users
        BY <2>2 DEF Login, AccountTypes
      <4> QED BY <4>1, AsksCall DEF User, Family
    <3>2. saw'[r] = users[u].password
      BY <2>2 DEF Login, TypeOK
    <3>3. users[u].status = "active"
      BY <1>2, <2>2, Moved DEF Login, Awaits, Answers
    <3> QED BY <1>2, <3>1, <3>2, <3>3 DEF Stale
  <2>3. ASSUME NEW u \in Users,
               \/ ChangePassword(r, u) \/ ResetPassword(r, u)
               \/ \E type \in {"disable", "enable", "delete"} : Administer(r, u, type)
        PROVE  FALSE
    BY <1>2, <2>3, Moved DEF ChangePassword, ResetPassword, Administer, Awaits, Answers
  <2>4. ASSUME NEW t \in Requests, Logout(r, t) PROVE FALSE
    BY <1>2, <2>4, Moved DEF Logout, Awaits, Answers
  <2>5. ASSUME NEW t \in Requests, Refresh(r, t) PROVE FALSE
    <3>1. tokens[t].stored
      BY <1>2, <2>5, Moved DEF Refresh, Awaits, Answers
    <3>2. Family(r)' = Family(t)
      <4>1. Handed(t) /\ Asks(r, "refresh", User(t), Family(t), t)
        BY <2>5 DEF Refresh
      <4>2. User(t) \in Users /\ Family(t) \in Requests /\ "refresh" \in AccountTypes \cup TokenTypes
        BY <4>1, HandedFields DEF TokenTypes
      <4> QED BY <4>1, <4>2, AsksCall DEF Family
    <3> QED BY <1>2, <3>1, <3>2 DEF InUse
  <2> QED BY <2>1, <2>2, <2>3, <2>4, <2>5 DEF ArrivesAt
<1>4. CASE pc[r] # "new"
  <2>1. Family(r) = f /\ call'[r] = call[r]
    BY <1>2, <1>4, Persists
  <2>2. pc[r] \notin {"succeed", "rehash", "user", "rotate", "open"}
    BY <2>1 DEF InUse
  <2>3. GoesOn(r)
    BY <1>2, <1>4, <2>2, Moves, ArrivesFrame
  <2>4. RevokeAll(r) /\ call[r].type = "change"
    BY <1>2, <2>2, <2>3, Moved DEF GoesOn, SucceedLogin, Write, WriteStatus, CheckUser, Rotate, OpenSession,
                                   RevokeFamily, RevokeAll, Awaits, Answers
  <2>5. f = r
    BY <1>4, <2>1, <2>4 DEF Begun, AccountTypes
  <2> QED BY <1>4, <2>4, <2>5, Persists
<1> QED BY <1>3, <1>4

LEMMA StaleStep ==
    ASSUME Base, HistoryHasBegun, ChangesAreExcused, StaleFamiliesAreExcused, [Next]_vars
    PROVE  StaleFamiliesAreExcused'
<1> USE DEF Base
<1> SUFFICES ASSUME NEW f \in Requests, InUse(f)', Stale(f)' PROVE Excused(f)'
  BY DEF StaleFamiliesAreExcused
<1>1. CASE InUse(f)
  <2>1. pc[f] # "new" /\ ~Write(f)
    BY <1>1, InUseFacts DEF Write
  <2>2. CASE Stale(f)
    BY <1>1, <2>2, ExcuseStays DEF StaleFamiliesAreExcused
  <2>3. CASE ~Stale(f)
    BY <2>1, <2>3, BecomesStale DEF Excused
  <2> QED BY <2>2, <2>3
<1>2. CASE ~InUse(f)
  <2>1. RevokeAll(f) /\ call[f].type = "change" /\ User(f)' = User(f)
    BY <1>2, ComesIntoUse
  <2>2. users' = users /\ saw' = saw /\ pc[f] = "revoke_all" /\ unrevoked' = unrevoked \ {f}
    BY <2>1 DEF RevokeAll
  <2>3. Stale(f)
    BY <2>1, <2>2 DEF Stale
  <2>4. f \in overtaken \cup undone \/ \E o \in unrevoked : User(o) = User(f) /\ o # f
    BY <2>1, <2>2, <2>3 DEF ChangesAreExcused
  <2>5. CASE f \in overtaken
    <3>1. f \in overtaken' /\ Family(f)' = Family(f) /\ Family(f) = f
      BY <2>1, <2>2, <2>5, HistoryGrows, Persists DEF Begun, AccountTypes
    <3> QED BY <3>1 DEF Excused
  <2>6. ASSUME NEW o \in unrevoked, User(o) = User(f), o # f PROVE Excused(f)'
    <3>1. o \in unrevoked' /\ o \in Requests /\ pc[o] # "new"
      BY <2>2, <2>6 DEF TypeOK, Stages
    <3>2. User(o)' = User(o)
      BY <3>1, Persists
    <3> QED BY <2>1, <2>6, <3>1, <3>2 DEF Excused
  <2>7. CASE f \in undone
    BY <2>7, HistoryGrows DEF Excused
  <2> QED BY <2>4, <2>5, <2>6, <2>7
<1> QED BY <1>1, <1>2
-----------------------------------------------------------------------------
LEMMA InvInit == ASSUME Init PROVE IInv
<1>1. /\ \A r \in Requests : pc[r] = "new" /\ tokens[r] = NoToken
      /\ closed = {} /\ overtaken = {} /\ unrevoked = {}
  BY DEF Init
<1>2. ~NoToken.stored /\ ~NoToken.revoked
  BY DEF NoToken
<1>3. Base
  BY BaseInit
<1>4. Spent /\ ClosedIsDead /\ HistoryHasBegun
  BY <1>1 DEF Spent, ClosedIsDead, HistoryHasBegun
<1>5. ReopenersAreKnown /\ ChangesAreExcused
  BY <1>1 DEF ReopenersAreKnown, ChangesAreExcused
<1>6. RevocationsAreExplained /\ RefusalsAreExplained
  BY <1>1, <1>2 DEF RevocationsAreExplained, RefusalsAreExplained
<1>7. StaleFamiliesAreExcused
  BY <1>1, <1>2 DEF StaleFamiliesAreExcused, InUse
<1> QED BY <1>3, <1>4, <1>5, <1>6, <1>7 DEF IInv

LEMMA InvStep == ASSUME IInv, [Next]_vars PROVE IInv'
<1>1. Base' /\ Spent' /\ HistoryHasBegun' /\ ClosedIsDead'
  BY BaseStep, SpentStep, HistoryBegunStep, ClosedStep DEF IInv
<1>2. ReopenersAreKnown' /\ RevocationsAreExplained' /\ RefusalsAreExplained'
  BY ReopenersStep, RevocationsStep, RefusalsStep DEF IInv
<1>3. StaleFamiliesAreExcused' /\ ChangesAreExcused'
  BY StaleStep, ChangesStep DEF IInv
<1> QED BY <1>1, <1>2, <1>3 DEF IInv

(***************************************************************************)
(* The inductive invariant: what is true of the tokens, of the requests    *)
(* half way and of the history, in every state.                            *)
(***************************************************************************)
THEOREM InvariantHolds == Spec => []IInv
  BY InvInit, InvStep, PTL DEF Spec

(***************************************************************************)
(* Closing a session (logout, reuse, a change or reset of the password,    *)
(* the end of the account) leaves none of its tokens live, however many    *)
(* refreshes race with it, until a token is opened in it again.            *)
(***************************************************************************)
THEOREM ClosedCorrect == Spec => []ClosedIsDead
<1>1. IInv => ClosedIsDead
  BY DEF IInv
<1> QED BY <1>1, InvariantHolds, PTL

(***************************************************************************)
(* A refresh that was answered has spent the token it was given.           *)
(***************************************************************************)
THEOREM SpentCorrect == Spec => []RefreshSpendsToken
<1>1. IInv => RefreshSpendsToken
  BY DEF IInv, Spent, RefreshSpendsToken
<1> QED BY <1>1, InvariantHolds, PTL

(***************************************************************************)
(* A refresh is refused because its token was past its life, because its   *)
(* session was ended, or because somebody presented, in that session, a    *)
(* token rotated longer ago than the tolerance.                            *)
(***************************************************************************)
THEOREM RefusalsCorrect == Spec => []RefusalsAreExplained
<1>1. IInv => RefusalsAreExplained
  BY DEF IInv
<1> QED BY <1>1, InvariantHolds, PTL

(***************************************************************************)
(* A live session of an ended account, or of another password than the one *)
(* stored, is one of four races: a revocation still to come, one that      *)
(* overtook the request which opened the token, a closed session opened    *)
(* again, or a login that rehashed an earlier password over a new one.     *)
(***************************************************************************)
THEOREM StaleCorrect == Spec => []StaleSessionsAreExplained
<1>1. ASSUME IInv, NEW t \in Requests, Live(t), Stale(Family(t))
      PROVE  \/ \E o \in unrevoked : User(o) = User(t)
             \/ Family(t) \in reopened
             \/ \E o \in overtaken : Family(o) = Family(t)
             \/ Family(t) \in undone
  <2>1. tokens[t].stored /\ ~tokens[t].revoked /\ Base
    BY <1>1 DEF Live, IInv
  <2>2. Family(t) \in Requests /\ User(Family(t)) = User(t)
    BY <2>1, StoredToken
  <2>3. InUse(Family(t))
    BY <2>1 DEF InUse
  <2>4. Excused(Family(t))
    BY <1>1, <2>2, <2>3 DEF IInv, StaleFamiliesAreExcused
  <2>5. Family(t) \notin closed
    BY <1>1, <2>1 DEF IInv, ClosedIsDead, Members
  <2> QED BY <2>2, <2>4, <2>5 DEF Excused
<1>2. IInv => StaleSessionsAreExplained
  BY <1>1 DEF StaleSessionsAreExplained
<1> QED BY <1>2, InvariantHolds, PTL

(***************************************************************************)
(* A closed session comes back only through a request that closing it      *)
(* found past its checks, or through the tolerance of reuse.               *)
(***************************************************************************)
THEOREM ReopeningCorrect == Spec => ReopeningIsExplained
<1>1. ASSUME IInv, [Next]_vars, NEW r \in Requests,
             ~tokens[r].stored, tokens'[r].stored, Family(r) \in closed
      PROVE  \/ r \in overtaken
             \/ LET parent == tokens[call[r].token] IN
                parent.rotated # Never /\ at[r] - parent.rotated \in 0..Leeway
  <2>1. Base
    BY <1>1 DEF IInv
  <2>2. OpenSession(r)
    <3>1. ~NoToken.stored
      BY DEF NoToken
    <3>2. pc[r] # "200"
      BY <1>1, <2>1, TokenStep DEF Base
    <3> QED BY <1>1, <2>1, <3>1, <3>2, TokenStep DEF Base
  <2>3. r \in Committed
    BY <2>2 DEF OpenSession, Committed
  <2> QED BY <1>1, <2>3 DEF IInv, ReopenersAreKnown, Tolerated
<1>2. IInv /\ [Next]_vars =>
        [\A r \in Requests :
            (~tokens[r].stored /\ tokens'[r].stored /\ Family(r) \in closed) =>
                \/ r \in overtaken
                \/ LET parent == tokens[call[r].token] IN
                   parent.rotated # Never /\ at[r] - parent.rotated \in 0..Leeway]_vars
  BY <1>1
<1> QED BY <1>2, InvariantHolds, PTL DEF Spec, ReopeningIsExplained
-----------------------------------------------------------------------------
(***************************************************************************)
(* What the closing of a session promises without the exceptions.  Nobody  *)
(* reuses a token when no refresh gets past its checks with one that is    *)
(* revoked already (two tabs with one token are what Leeway is for).       *)
(* Closings take turns when none runs while a request of the same session, *)
(* or the same user, is between its checks and its token.                  *)
(***************************************************************************)
NobodyReuses ==
    \A r \in Requests : pc[r] = "new" /\ pc'[r] = "user" => ~tokens[call'[r].token].revoked

ClosingsTakeTurns ==
    \A r \in Requests, o \in Committed :
        /\ pc[r] \in {"revoke_family", "revoke_reused"} => Family(o) # Family(r)
        /\ pc[r] = "revoke_all" => o = r \/ User(o) # User(r)

\* Whoever can open a closed family was found by the closing.
ReopenersAreOvertaken ==
    /\ \A r \in Committed : Family(r) \in closed => r \in overtaken
    /\ \A f \in reopened : \E r \in overtaken : Family(r) = f

\* Only OpenSession opens a closed family again.
LEMMA Reopenings ==
    ASSUME Base, [Next]_vars, NEW f \in reopened', f \notin reopened
    PROVE  \E r \in Committed : Family(r) = f /\ f \in closed
<1> USE DEF Base
<1>1. ASSUME NEW r \in Requests, ArrivesAt(r) PROVE FALSE
  BY <1>1, ArrivesFrame DEF sets
<1>2. ASSUME (\E t \in Requests : Purge(t)) \/ Tick \/ UNCHANGED vars PROVE FALSE
  BY <1>2 DEF Purge, Tick, vars, history
<1>3. ASSUME NEW r \in Requests, GoesOn(r) PROVE OpenSession(r)
  BY <1>3 DEF GoesOn, SucceedLogin, Write, CheckUser, Rotate, RevokeFamily, RevokeAll, history
<1>4. PICK r \in Requests : OpenSession(r)
  BY <1>1, <1>2, <1>3, Steps
<1> QED BY <1>4 DEF OpenSession, Committed

LEMMA OvertakenStep ==
    ASSUME IInv, ReopenersAreOvertaken, NobodyReuses, [Next]_vars
    PROVE  ReopenersAreOvertaken'
<1> USE DEF IInv
<1>1. ASSUME NEW x \in Committed', Family(x)' \in closed', x \notin overtaken' PROVE FALSE
  <2>1. x \in Requests
    BY DEF Committed
  <2>2. ASSUME pc[x] = "new", pc'[x] = "user", tokens[call'[x].token].revoked PROVE FALSE
    BY <2>1, <2>2 DEF NobodyReuses
  <2> QED BY <1>1, <2>2, Reopeners DEF ReopenersAreOvertaken
<1>2. \A o \in overtaken : o \in overtaken' /\ Family(o)' = Family(o)
  BY HistoryGrows, Persists DEF Base, TypeOK, HistoryHasBegun, Family
<1>3. ASSUME NEW f \in reopened' PROVE \E r \in overtaken' : Family(r)' = f
  BY <1>2, Reopenings DEF ReopenersAreOvertaken
<1> QED BY <1>1, <1>3 DEF ReopenersAreOvertaken

(***************************************************************************)
(* "Uno revocado por logout ... nunca se perdona": when nobody reuses a    *)
(* token, only a request that a closing found half way outlives it.        *)
(***************************************************************************)
THEOREM WithoutReuseClosedIsNeverForgiven ==
    Spec /\ [][NobodyReuses]_vars => []ClosedIsNeverForgiven
<1>1. Init => ReopenersAreOvertaken
  BY DEF Init, ReopenersAreOvertaken, Committed
<1>2. IInv /\ ReopenersAreOvertaken /\ [NobodyReuses]_vars /\ [Next]_vars => ReopenersAreOvertaken'
  <2>1. ASSUME ReopenersAreOvertaken, UNCHANGED vars PROVE ReopenersAreOvertaken'
    BY <2>1 DEF ReopenersAreOvertaken, Committed, Family, vars
  <2> QED BY <2>1, OvertakenStep
<1>3. ReopenersAreOvertaken => ClosedIsNeverForgiven
  BY DEF ReopenersAreOvertaken, ClosedIsNeverForgiven
<1> QED BY <1>1, <1>2, <1>3, InvariantHolds, PTL DEF Spec

LEMMA NobodyOvertaken ==
    ASSUME Base, overtaken = {}, ClosingsTakeTurns, [Next]_vars PROVE overtaken' = {}
<1> USE DEF Base
<1>1. ASSUME NEW r \in Requests, ArrivesAt(r) PROVE overtaken' = overtaken
  BY <1>1, ArrivesFrame DEF sets
<1>2. CASE (\E t \in Requests : Purge(t)) \/ Tick \/ UNCHANGED vars
  BY <1>2 DEF Purge, Tick, vars, history
<1>3. ASSUME NEW r \in Requests, RevokeFamily(r) PROVE overtaken' = {}
  BY <1>3 DEF RevokeFamily, ClosingsTakeTurns
<1>4. ASSUME NEW r \in Requests, RevokeAll(r) PROVE overtaken' = {}
  BY <1>4 DEF RevokeAll, ClosingsTakeTurns
<1>5. ASSUME NEW r \in Requests, GoesOn(r)
      PROVE  RevokeFamily(r) \/ RevokeAll(r) \/ overtaken' = overtaken
  BY <1>5 DEF GoesOn, SucceedLogin, Write, CheckUser, Rotate, OpenSession, history
<1> QED BY <1>1, <1>2, <1>3, <1>4, <1>5, Steps

\* A login that has passed its checks has read the password that is stored.
LoginsAreFresh ==
    \A r \in Requests : pc[r] \in {"succeed", "rehash"} => saw[r] = users[User(r)].password

LEMMA FreshLogin ==
    ASSUME Base, LoginsAreFresh, NEW r \in Requests, SucceedLogin(r)
    PROVE  /\ undone' = undone
           /\ \A u \in Users : users'[u].password = users[u].password
<1> USE DEF Base
<1>1. User(r) \in Users /\ users \in [Users -> Accounts] /\ saw[r] \in Passwords
  BY Known DEF SucceedLogin, TypeOK
<1>2. CASE UNCHANGED <<users, undone>>
  BY <1>2
<1>3. CASE SetPassword(User(r), saw[r]) /\ undone' = undone \cup {f \in Requests :
                /\ pc[f] # "new" /\ User(f) = User(r)
                /\ saw[f] = users[User(r)].password /\ saw[f] # users'[User(r)].password}
  <2>1. saw[r] = users[User(r)].password
    BY DEF LoginsAreFresh, SucceedLogin
  <2>2. users'[User(r)].password = users[User(r)].password
    BY <1>1, <1>3, <2>1, SetPasswordUsers
  <2>3. \A u \in Users \ {User(r)} : users'[u] = users[u]
    BY <1>1, <1>3, SetPasswordUsers
  <2>4. undone' = undone
    BY <1>3, <2>2
  <2> QED BY <2>2, <2>3, <2>4
<1> QED BY <1>2, <1>3 DEF SucceedLogin

LEMMA FreshStep ==
    ASSUME Base, LoginsAreFresh, ClosingsTakeTurns', [Next]_vars
    PROVE  LoginsAreFresh'
<1> USE DEF Base
<1> SUFFICES ASSUME NEW x \in Requests, pc'[x] \in {"succeed", "rehash"}
             PROVE  saw'[x] = users'[User(x)'].password
  BY DEF LoginsAreFresh
<1>1. CASE pc[x] = "new"
  <2>1. ArrivesAt(x)
    BY <1>1, Moves, GoesFrame
  <2>2. PICK u \in Users : Login(x, u)
    BY <2>1, Moved DEF ArrivesAt, ChangePassword, ResetPassword, Administer, Refresh, Logout,
                       Awaits, Answers
  <2>3. User(x)' = u /\ users' = users
    BY <2>2, AsksCall DEF Login, User, AccountTypes
  <2>4. saw'[x] = users[u].password
    BY <2>2 DEF Login, TypeOK
  <2> QED BY <2>3, <2>4
<1>2. CASE pc[x] # "new"
  <2>1. User(x)' = User(x) /\ User(x) \in Users
    BY <1>2, Persists, Known
  <2>2. pc[x] \in {"succeed", "rehash"}
    <3>1. ~GoesOn(x)
      BY Moved DEF GoesOn, SucceedLogin, Write, WriteStatus, CheckUser, Rotate, OpenSession,
                   RevokeFamily, RevokeAll, Awaits, Answers
    <3> QED BY <1>2, <3>1, Moves, ArrivesFrame
  <2>3. saw'[x] = saw[x] /\ saw[x] = users[User(x)].password
    BY <1>2, <2>2, SawStays DEF LoginsAreFresh, Write
  <2>4. users'[User(x)].password = users[User(x)].password
    <3>1. ASSUME NEW r \in Requests, Write(r), User(r) = User(x) PROVE pc'[r] # "revoke_all"
      <4>1. User(r)' = User(r)
        BY <3>1, Persists DEF Write
      <4>2. x \in Committed' /\ x # r
        BY <2>2, <3>1 DEF Committed, Write
      <4> QED BY <2>1, <3>1, <4>1, <4>2 DEF ClosingsTakeTurns
    <3>2. ASSUME NEW r \in Requests, Write(r) PROVE users'[User(x)].password = users[User(x)].password
      BY <2>1, <3>1, <3>2, WriteUsers, WriteOwes
    <3> QED BY <2>1, <3>2, FreshLogin, WriteSteps
  <2> QED BY <2>1, <2>3, <2>4
<1> QED BY <1>1, <1>2

LEMMA NothingUndone ==
    ASSUME Base, LoginsAreFresh, undone = {}, [Next]_vars
    PROVE  undone' = {}
<1> USE DEF Base
<1>1. ASSUME NEW r \in Requests, ArrivesAt(r) PROVE undone' = undone
  BY <1>1, ArrivesFrame DEF sets
<1>2. CASE (\E t \in Requests : Purge(t)) \/ Tick \/ UNCHANGED vars
  BY <1>2 DEF Purge, Tick, vars, history
<1>3. ASSUME NEW r \in Requests, GoesOn(r) PROVE SucceedLogin(r) \/ undone' = undone
  BY <1>3 DEF GoesOn, Write, CheckUser, Rotate, OpenSession, RevokeFamily, RevokeAll, history
<1> QED BY <1>1, <1>2, <1>3, FreshLogin, Steps

(***************************************************************************)
(* When nobody reuses a token and closings take turns, no closed session   *)
(* ever comes back, and a live one of an ended account, or of an earlier   *)
(* password, only lasts until the revocation that is under way.            *)
(***************************************************************************)
THEOREM ClosingsInTurnAreFinal ==
    Spec /\ [][NobodyReuses]_vars /\ []ClosingsTakeTurns =>
        [](/\ reopened = {}
           /\ \A t \in Requests : Live(t) /\ Stale(Family(t)) =>
                \E o \in unrevoked : User(o) = User(t))
<1>1. Init => overtaken = {} /\ undone = {} /\ LoginsAreFresh
  BY DEF Init, LoginsAreFresh
<1>2. IInv /\ overtaken = {} /\ ClosingsTakeTurns /\ [Next]_vars => (overtaken = {})'
  BY NobodyOvertaken DEF IInv
<1>3. IInv /\ LoginsAreFresh /\ ClosingsTakeTurns' /\ [Next]_vars => LoginsAreFresh'
  BY FreshStep DEF IInv
<1>4. IInv /\ LoginsAreFresh /\ undone = {} /\ [Next]_vars => (undone = {})'
  BY NothingUndone DEF IInv
<1>5. ClosedIsNeverForgiven /\ overtaken = {} => reopened = {}
  BY DEF ClosedIsNeverForgiven
<1>6. StaleSessionsAreExplained /\ overtaken = {} /\ reopened = {} /\ undone = {} =>
        \A t \in Requests : Live(t) /\ Stale(Family(t)) => \E o \in unrevoked : User(o) = User(t)
  BY DEF StaleSessionsAreExplained
<1> QED BY <1>1, <1>2, <1>3, <1>4, <1>5, <1>6, WithoutReuseClosedIsNeverForgiven, StaleCorrect,
        InvariantHolds, PTL DEF Spec
=============================================================================
