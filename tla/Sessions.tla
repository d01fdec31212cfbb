------------------------------ MODULE Sessions ------------------------------
(***************************************************************************)
(* Sessions: refresh-token families.  A login (or a change of password)    *)
(* begins a family; every refresh rotates the token it is given and opens  *)
(* the next one of the family; logout and the reuse of an old token revoke *)
(* the family, and a change or reset of the password, or the end of the    *)
(* account, every family of the user.                                      *)
(*                                                                         *)
(* As in CustomerCredit a request is one coroutine, and an action is one   *)
(* repository call with the code up to the next one.  A request opens at   *)
(* most one token, so the token is named by the request that opens it, and *)
(* a family by the request that begins it, and a password by the request   *)
(* that chose it.  The password check of login is an outcome: wrong, or    *)
(* right for the document that was read.  A request that is lost is one    *)
(* that takes no more steps.  Writes of user fields that no session        *)
(* depends on (the failed-login counters, the profile) and mark_used of    *)
(* the link are left out.                                                  *)
(***************************************************************************)
EXTENDS Integers, FiniteSets

CONSTANTS Requests,  \* the HTTP requests, each used once
          Users,     \* accounts, all there from the start
          Leeway,    \* refresh_reuse_leeway_seconds
          Ttl,       \* refresh_token_ttl_days
          MaxTime    \* bound of the clock

ASSUME TimesAreNatural == Leeway \in Nat /\ Ttl \in Nat /\ MaxTime \in Nat

VARIABLES
    users,      \* of the collection `users`: status, password, is its hash out of date
    tokens,     \* the collection `refresh_tokens`
    now,        \* the clock
    pc,         \* where each request waits, or its answer
    call,       \* what each request asks for
    saw,        \* the password a login checked, or a change or reset wrote
    \* History, read by the properties only.
    at,         \* when refresh looked at its token (its local `now`)
    closed,     \* families a revocation closed and nothing has opened since
    ended,      \* families closed by anything but the reuse of a token
    reopened,   \* families opened again after they were closed
    overtaken,  \* requests a revocation found between their checks and their token
    unrevoked,  \* requests whose write is done and whose revocation is still to come, or died
    undone      \* families whose password a login has replaced by the one it had read

vars == <<users, tokens, now, pc, call, saw, at, closed, ended, reopened, overtaken, unrevoked, undone>>
history == <<at, closed, ended, reopened, overtaken, unrevoked, undone>>

Never == -1
First == "first"
Passwords == Requests \cup {First}

Statuses == {"active", "disabled", "deleted"}
Accounts == [status : Statuses, password : Passwords, old : BOOLEAN]
AccountTypes == {"login", "change", "reset", "disable", "enable", "delete"}
TokenTypes == {"refresh", "logout"}
NoCall == [type |-> "none"]
Calls == [type : AccountTypes \cup TokenTypes, user : Users, family : Requests, token : Requests]

Awaits == {"succeed", "rehash", "user", "rotate", "open", "write", "revoke_all", "revoke_family", "revoke_reused"}
Answers == {"200", "204", "400", "401", "403", "404"}

\* `revoked` is revoked_at # None.  A document the TTL index has removed keeps,
\* for the properties, what it last held.
TokenDocs == [stored : BOOLEAN, revoked : BOOLEAN, rotated : Nat \cup {Never}, expires : Nat]
NoToken == [stored |-> FALSE, revoked |-> FALSE, rotated |-> Never, expires |-> 0]

TypeOK ==
    /\ users \in [Users -> Accounts]
    /\ tokens \in [Requests -> TokenDocs]
    /\ now \in 0..MaxTime
    /\ \A t \in Requests : tokens[t].rotated # Never => tokens[t].revoked /\ tokens[t].rotated <= now
    /\ pc \in [Requests -> {"new"} \cup Awaits \cup Answers]
    /\ call \in [Requests -> Calls \cup {NoCall}]
    /\ \A r \in Requests : pc[r] # "new" => call[r] \in Calls
    /\ saw \in [Requests -> Passwords]
    /\ at \in [Requests -> Nat \cup {Never}]
    /\ closed \subseteq Requests /\ ended \subseteq Requests /\ reopened \subseteq Requests
    /\ overtaken \subseteq Requests
    /\ unrevoked \subseteq Requests
    /\ undone \subseteq Requests
-----------------------------------------------------------------------------
\* `old` hashes were made with other parameters than today's (needs_rehash).
Init ==
    /\ users \in [Users -> [status : {"active"}, password : {First}, old : BOOLEAN]]
    /\ tokens = [r \in Requests |-> NoToken]
    /\ now = 0
    /\ pc = [r \in Requests |-> "new"]
    /\ call = [r \in Requests |-> NoCall]
    /\ saw = [r \in Requests |-> First]
    /\ at = [r \in Requests |-> Never]
    /\ closed = {} /\ ended = {} /\ reopened = {}
    /\ overtaken = {}
    /\ unrevoked = {}
    /\ undone = {}

Live(t) == tokens[t].stored /\ ~tokens[t].revoked
User(t) == call[t].user
Family(t) == call[t].family
Members(f) == {t \in Requests : tokens[t].stored /\ Family(t) = f}

MoveTo(r, where) == pc' = [pc EXCEPT ![r] = where]

Asks(r, type, u, f, t) ==
    /\ pc[r] = "new"
    /\ call' = [call EXCEPT ![r] = [type |-> type, user |-> u, family |-> f, token |-> t]]
-----------------------------------------------------------------------------
(***************************************************************************)
(* login: the checks, which go on with the document read here, then the    *)
(* update of the user, then (OpenSession) the token.                       *)
(***************************************************************************)
Login(r, u) ==
    /\ Asks(r, "login", u, r, r)
    /\ saw' = [saw EXCEPT ![r] = users[u].password]
    /\ \/ MoveTo(r, "401")
       \/ users[u].status = "disabled" /\ MoveTo(r, "403")
       \/ users[u].status = "active" /\ MoveTo(r, IF users[u].old THEN "rehash" ELSE "succeed")
    /\ UNCHANGED <<users, tokens, now, history>>

\* users.update of a password: $set, and nothing for a user that has gone.
\* Only the id is looked at, never what was read before.
SetPassword(u, p) ==
    users' = [users EXCEPT ![u] =
        IF @.status = "deleted" THEN @ ELSE [status |-> @.status, password |-> p, old |-> FALSE]]

\* The update of a login that passed its checks: an old hash is replaced by a
\* new one of the password that was checked.
SucceedLogin(r) ==
    LET u == User(r) IN
    /\ \/ pc[r] = "succeed" /\ UNCHANGED <<users, undone>>
       \/ /\ pc[r] = "rehash"
          /\ SetPassword(u, saw[r])
          /\ undone' = undone \cup {f \in Requests :
                /\ pc[f] # "new" /\ User(f) = u
                /\ saw[f] = users[u].password /\ saw[f] # users'[u].password}
    /\ MoveTo(r, "open")
    /\ UNCHANGED <<tokens, now, call, saw, at, closed, ended, reopened, overtaken, unrevoked>>

\* The two checks a change of password makes: get_current_user, then the
\* current password.
ChangePassword(r, u) ==
    /\ Asks(r, "change", u, r, r)
    /\ \/ MoveTo(r, "401")
       \/ users[u].status = "active" /\ MoveTo(r, "write")
    /\ UNCHANGED <<users, tokens, now, saw, history>>

\* reset_password with a good link: it does not look at the status.
ResetPassword(r, u) ==
    /\ Asks(r, "reset", u, r, r)
    /\ MoveTo(r, IF users[u].status = "deleted" THEN "400" ELSE "write")
    /\ UNCHANGED <<users, tokens, now, saw, history>>

\* UserService.update of the status, and UserService.delete, by an
\* administrator.  A status the user already has is no change.  The refusals
\* (own account, last administrator) touch nothing here.
Administer(r, u, type) ==
    /\ Asks(r, type, u, r, r)
    /\ \/ users[u].status = "deleted" /\ MoveTo(r, "404")
       \/ /\ \/ type = "disable" /\ users[u].status = "disabled"
             \/ type = "enable" /\ users[u].status = "active"
          /\ MoveTo(r, "200")
       \/ /\ \/ type = "disable" /\ users[u].status = "active"
             \/ type = "enable" /\ users[u].status = "disabled"
             \/ type = "delete" /\ users[u].status # "deleted"
          /\ MoveTo(r, "write")
    /\ UNCHANGED <<users, tokens, now, saw, history>>

\* Mutant of WriteStatus: the sessions are left as they are.
WriteStatusOnly(r, status, next) ==
    /\ users' = [users EXCEPT ![User(r)].status = IF @ = "deleted" THEN @ ELSE status]
    /\ MoveTo(r, IF users[User(r)].status = "deleted" THEN "404" ELSE "200")
    /\ UNCHANGED saw

\* $set on the user; 404 when it has been deleted since it was read.
WriteStatus(r, status, next) ==
    /\ users' = [users EXCEPT ![User(r)].status = IF @ = "deleted" THEN @ ELSE status]
    /\ MoveTo(r, IF users[User(r)].status = "deleted" THEN "404" ELSE next)
    /\ UNCHANGED saw

(***************************************************************************)
(* The write of a change or of a reset of the password, of a status, or    *)
(* the delete.  Only the status is checked for a user that has gone.       *)
(***************************************************************************)
Write(r) ==
    LET u == User(r) IN
    /\ pc[r] = "write"
    /\ \/ /\ call[r].type \in {"change", "reset"}
          /\ SetPassword(u, r)
          /\ saw' = [saw EXCEPT ![r] = users'[u].password]
          /\ MoveTo(r, "revoke_all")
       \/ call[r].type = "disable" /\ WriteStatus(r, "disabled", "revoke_all")
       \/ call[r].type = "enable" /\ WriteStatus(r, "active", "200")
       \/ /\ call[r].type = "delete"
          /\ users' = [users EXCEPT ![u].status = "deleted"]
          /\ MoveTo(r, "revoke_all")
          /\ UNCHANGED saw
    /\ unrevoked' = IF pc'[r] = "revoke_all" THEN unrevoked \cup {r} ELSE unrevoked
    /\ UNCHANGED <<tokens, now, call, at, closed, ended, reopened, overtaken, undone>>
-----------------------------------------------------------------------------
(***************************************************************************)
(* refresh(t), for a token some request was answered with.                 *)
(***************************************************************************)
\* Mutants of WithinReuseLeeway: off by one; no end to the window.
WithinReuseLeewayStrict(t) == tokens[t].rotated # Never /\ now - tokens[t].rotated < Leeway
WithinReuseLeewayForever(t) == tokens[t].rotated # Never

WithinReuseLeeway(t) == tokens[t].rotated # Never /\ now - tokens[t].rotated <= Leeway

Handed(t) == pc[t] = "200" /\ call[t].type \in {"login", "change", "refresh"}

Refresh(r, t) ==
    /\ Handed(t)
    /\ Asks(r, "refresh", User(t), Family(t), t)
    /\ at' = [at EXCEPT ![r] = now]
    /\ \/ ~tokens[t].stored /\ MoveTo(r, "401")
       \/ /\ tokens[t].stored
          /\ tokens[t].revoked /\ ~WithinReuseLeeway(t)
          /\ MoveTo(r, "revoke_reused")
       \/ /\ tokens[t].stored
          /\ tokens[t].revoked => WithinReuseLeeway(t)
          /\ MoveTo(r, IF tokens[t].expires <= now THEN "401" ELSE "user")
    /\ UNCHANGED <<users, tokens, now, saw, closed, ended, reopened, overtaken, unrevoked, undone>>

CheckUser(r) ==
    /\ pc[r] = "user"
    /\ MoveTo(r, IF users[User(r)].status = "active" THEN "rotate" ELSE "revoke_family")
    /\ UNCHANGED <<users, tokens, now, call, saw, history>>

\* Mutants of RotatedDoc: a token already revoked is rotated again; only
\* rotated_at is set.
RotatedDocAgain(d) == [d EXCEPT !.revoked = TRUE, !.rotated = now]
RotatedDocUnrevoked(d) == IF d.stored /\ ~d.revoked THEN [d EXCEPT !.rotated = now] ELSE d

\* rotate: the filter asks for revoked_at = None.
RotatedDoc(d) == IF d.stored /\ ~d.revoked THEN [d EXCEPT !.revoked = TRUE, !.rotated = now] ELSE d

Rotate(r) ==
    /\ pc[r] = "rotate"
    /\ tokens' = [tokens EXCEPT ![call[r].token] = RotatedDoc(@)]
    /\ MoveTo(r, "open")
    /\ UNCHANGED <<users, now, call, saw, history>>

(***************************************************************************)
(* _open_session: a token of the family, and the answer.                   *)
(***************************************************************************)
OpenSession(r) ==
    /\ pc[r] = "open"
    /\ tokens' = [tokens EXCEPT ![r] =
            [stored |-> TRUE, revoked |-> FALSE, rotated |-> Never, expires |-> now + Ttl]]
    /\ MoveTo(r, "200")
    /\ closed' = closed \ {Family(r)}
    /\ reopened' = reopened \cup (closed \cap {Family(r)})
    /\ UNCHANGED <<users, now, call, saw, at, ended, overtaken, unrevoked, undone>>

(***************************************************************************)
(* logout(t): 204 whatever it finds.                                       *)
(***************************************************************************)
Logout(r, t) ==
    /\ Handed(t)
    /\ Asks(r, "logout", User(t), Family(t), t)
    /\ MoveTo(r, IF tokens[t].stored THEN "revoke_family" ELSE "204")
    /\ UNCHANGED <<users, tokens, now, saw, history>>
-----------------------------------------------------------------------------
\* Requests past their checks, that will open a token whatever happens now.
Committed ==
    {r \in Requests : \/ pc[r] \in {"succeed", "rehash", "user", "rotate", "open"}
                      \/ pc[r] \in {"write", "revoke_all"} /\ call[r].type = "change"}

\* Mutant of Revoked: only the token that began the family.
RevokedFirstOnly(T) ==
    [t \in Requests |-> IF t \in T /\ Family(t) = t THEN [tokens[t] EXCEPT !.revoked = TRUE] ELSE tokens[t]]

\* revoked_at is set on every token of T that has none.
Revoked(T) == [t \in Requests |-> IF t \in T THEN [tokens[t] EXCEPT !.revoked = TRUE] ELSE tokens[t]]

RevokeFamily(r) ==
    LET f == Family(r) IN
    /\ pc[r] \in {"revoke_family", "revoke_reused"}
    /\ tokens' = Revoked(Members(f))
    /\ MoveTo(r, IF call[r].type = "logout" THEN "204" ELSE "401")
    /\ closed' = closed \cup {f}
    /\ ended' = IF pc[r] = "revoke_family" THEN ended \cup {f} ELSE ended
    /\ overtaken' = overtaken \cup {o \in Committed : Family(o) = f}
    /\ UNCHANGED <<users, now, call, saw, at, reopened, unrevoked, undone>>

RevokeAll(r) ==
    LET u == User(r)
        theirs == {t \in Requests : tokens[t].stored /\ User(t) = u}
    IN
    /\ pc[r] = "revoke_all"
    /\ tokens' = Revoked(theirs)
    /\ \/ call[r].type = "change" /\ MoveTo(r, "open")
       \/ call[r].type = "reset" /\ MoveTo(r, "204")
       \/ call[r].type = "disable" /\ MoveTo(r, "200")
       \/ call[r].type = "delete" /\ MoveTo(r, "204")
    /\ closed' = closed \cup {Family(t) : t \in theirs}
    /\ ended' = ended \cup {Family(t) : t \in theirs}
    /\ overtaken' = overtaken \cup ({o \in Committed : User(o) = u} \ {r})
    /\ unrevoked' = unrevoked \ {r}
    /\ UNCHANGED <<users, now, call, saw, at, reopened, undone>>

\* The TTL index removes what has expired, some time after.
Purge(t) ==
    /\ tokens[t].stored
    /\ tokens[t].expires <= now
    /\ tokens' = [tokens EXCEPT ![t].stored = FALSE]
    /\ UNCHANGED <<users, now, pc, call, saw, history>>

Tick ==
    /\ now < MaxTime
    /\ now' = now + 1
    /\ UNCHANGED <<users, tokens, pc, call, saw, history>>

Next ==
    \/ \E r \in Requests, u \in Users :
        \/ Login(r, u)
        \/ ChangePassword(r, u)
        \/ ResetPassword(r, u)
        \/ \E type \in {"disable", "enable", "delete"} : Administer(r, u, type)
    \/ \E r, t \in Requests : Refresh(r, t) \/ Logout(r, t)
    \/ \E r \in Requests :
        \/ SucceedLogin(r)
        \/ Write(r)
        \/ CheckUser(r)
        \/ Rotate(r)
        \/ OpenSession(r)
        \/ RevokeFamily(r)
        \/ RevokeAll(r)
    \/ \E t \in Requests : Purge(t)
    \/ Tick

Spec == Init /\ [][Next]_vars
-----------------------------------------------------------------------------
(***************************************************************************)
(* A closed session stays closed until somebody opens a token in it:       *)
(* revocation reaches every token of the family, also those of refreshes   *)
(* that raced, and nothing ever takes it back.                             *)
(***************************************************************************)
ClosedIsDead == \A f \in closed : \A t \in Members(f) : tokens[t].revoked

(***************************************************************************)
(* A closed session comes back in two ways only: a refresh that had passed *)
(* its checks when the session was closed, or one that presents a token    *)
(* rotated no longer than Leeway ago (the two-tabs tolerance).             *)
(***************************************************************************)
ReopeningIsExplained ==
    [][\A r \in Requests :
        (~tokens[r].stored /\ tokens'[r].stored /\ Family(r) \in closed) =>
            \/ r \in overtaken
            \/ LET parent == tokens[call[r].token] IN
               parent.rotated # Never /\ at[r] - parent.rotated \in 0..Leeway]_vars

(***************************************************************************)
(* A token is rotated at most once and only while live: its tolerance      *)
(* window never moves, however often it is presented, and a token revoked  *)
(* by a logout never gets one.                                             *)
(***************************************************************************)
RotationIsOnce ==
    [][\A t \in Requests : tokens[t].revoked =>
        tokens'[t].revoked /\ tokens'[t].rotated = tokens[t].rotated]_vars

(***************************************************************************)
(* A refresh that was answered has spent the token it was given, so a      *)
(* session of one client has one live token.                               *)
(***************************************************************************)
RefreshSpendsToken ==
    \A r \in Requests : pc[r] = "200" /\ call[r].type = "refresh" => ~Live(call[r].token)

(***************************************************************************)
(* No client is thrown out without a reason: a refused refresh presented a *)
(* token past its life or past the tolerance, or somebody else did that in *)
(* the same session, or the session had been ended.                        *)
(***************************************************************************)
Late(r) ==
    /\ call[r].type = "refresh"
    /\ LET t == tokens[call[r].token] IN t.rotated # Never /\ at[r] - t.rotated > Leeway

RefusalsAreExplained ==
    \A r \in Requests : pc[r] = "401" /\ call[r].type = "refresh" =>
        \/ tokens[call[r].token].expires <= at[r]
        \/ Family(r) \in ended
        \/ \E o \in Requests : pc[o] # "new" /\ Family(o) = Family(r) /\ Late(o)

(***************************************************************************)
(* Changing or resetting a password, disabling and deleting an account     *)
(* close its sessions.  A live session that an inactive account still has, *)
(* or that was begun with another password than the one stored, is         *)
(* explained: the revocation is still to come (or died), or it found the   *)
(* login or refresh half way, or the session was opened again, or a login  *)
(* that had read an earlier password rehashed it and so brought it back.   *)
(***************************************************************************)
Stale(f) ==
    \/ users[User(f)].status # "active"
    \/ users[User(f)].password # saw[f]

StaleSessionsAreExplained ==
    \A t \in Requests : Live(t) /\ Stale(Family(t)) =>
        \/ \E o \in unrevoked : User(o) = User(t)
        \/ Family(t) \in reopened
        \/ \E o \in overtaken : Family(o) = Family(t)
        \/ Family(t) \in undone

(***************************************************************************)
(* "Cierra la sesion del dispositivo" (logout) and "Uno revocado por       *)
(* logout ... nunca se perdona" (_within_reuse_leeway): only a refresh     *)
(* that was under way when a session was closed can outlive it.            *)
(***************************************************************************)
ClosedIsNeverForgiven ==
    \A f \in reopened : \E r \in overtaken : Family(r) = f
-----------------------------------------------------------------------------
(***************************************************************************)
(* The inductive invariant of the proofs.                                  *)
(***************************************************************************)
\* A family is begun by a request of the same user, which has been answered
\* by the time anybody else is in it; a token was handed out before it is
\* presented.
Begun ==
    \A r \in Requests : pc[r] # "new" =>
        /\ pc[Family(r)] # "new"
        /\ User(Family(r)) = User(r)
        /\ Family(r) = r \/ pc[Family(r)] = "200"
        /\ call[r].type \in AccountTypes => Family(r) = r
        /\ call[r].type \in TokenTypes =>
            Handed(call[r].token) /\ Family(r) = Family(call[r].token)

Stages ==
    \A r \in Requests :
        /\ pc[r] \in {"succeed", "rehash"} => call[r].type = "login"
        /\ pc[r] \in {"user", "rotate", "revoke_reused"} => call[r].type = "refresh"
        /\ pc[r] = "open" => call[r].type \in {"login", "change", "refresh"}
        /\ r \in unrevoked => pc[r] = "revoke_all"

\* A request that was not answered has no token, and only the TTL index
\* removes the token of one that was.
Opened ==
    \A t \in Requests :
        /\ pc[t] # "200" => tokens[t] = NoToken
        /\ Handed(t) /\ ~tokens[t].stored => tokens[t].expires <= now

Spent ==
    \A r \in Requests : pc[r] \in {"open", "200"} /\ call[r].type = "refresh" => ~Live(call[r].token)

HistoryHasBegun == \A r \in closed \cup overtaken : pc[r] # "new"

\* Who can still open a closed family.
Tolerated(r) ==
    LET parent == tokens[call[r].token] IN
    parent.rotated # Never /\ at[r] - parent.rotated \in 0..Leeway

ReopenersAreKnown ==
    \A r \in Committed : Family(r) \in closed => r \in overtaken \/ Tolerated(r)

\* A token is revoked without being rotated only when its family is, and a
\* family is for a reason.
Blamed(f) == f \in ended \/ \E o \in Requests : pc[o] # "new" /\ Family(o) = f /\ Late(o)

RevocationsAreExplained ==
    /\ \A t \in Requests : tokens[t].revoked /\ tokens[t].rotated = Never => Blamed(Family(t))
    /\ \A r \in Requests : pc[r] = "revoke_reused" => Blamed(Family(r))

\* A family that has a token in the database, or a request about to open one.
InUse(f) ==
    \/ \E t \in Requests : tokens[t].stored /\ Family(t) = f
    \/ \E r \in Requests :
        pc[r] \in {"succeed", "rehash", "user", "rotate", "open"} /\ Family(r) = f

Excused(f) ==
    \/ \E o \in unrevoked : User(o) = User(f)
    \/ f \in closed \cup reopened
    \/ \E o \in overtaken : Family(o) = f
    \/ f \in undone

StaleFamiliesAreExcused == \A f \in Requests : InUse(f) /\ Stale(f) => Excused(f)

\* A change of password goes on after the account has ended only if the
\* revocation of whoever ended it is still to come, or has found it; and after
\* its password was replaced, also if a login brought an earlier one back.
ChangesAreExcused ==
    \A r \in Requests : call[r].type = "change" =>
        /\ pc[r] = "write" /\ users[User(r)].status # "active" =>
            r \in overtaken \/ \E o \in unrevoked : User(o) = User(r)
        /\ pc[r] = "revoke_all" /\ Stale(r) =>
            r \in overtaken \cup undone \/ \E o \in unrevoked : User(o) = User(r) /\ o # r

Base == TypeOK /\ Begun /\ Stages /\ Opened

IInv ==
    /\ Base
    /\ Spent
    /\ ClosedIsDead
    /\ HistoryHasBegun
    /\ ReopenersAreKnown
    /\ RevocationsAreExplained
    /\ RefusalsAreExplained
    /\ StaleFamiliesAreExcused
    /\ ChangesAreExcused
=============================================================================
