------------------------------ MODULE Recovery ------------------------------
(***************************************************************************)
(* Recovery: the credentials of one account.  Failed logins are counted    *)
(* and lock the account; a login may rehash the password; a password is    *)
(* changed with the current one, or reset with a link sent by e-mail.      *)
(*                                                                         *)
(* A request is one coroutine and an action one repository call with the   *)
(* code up to the next one, as in Sessions, which models what the same     *)
(* operations do to refresh tokens.  Requests of different accounts share  *)
(* nothing here, so there is one account.  A password is named by the      *)
(* request that chose it, a link by the request that creates it.  Hashing  *)
(* runs in a thread and touches nothing.                                   *)
(***************************************************************************)
EXTENDS Integers

CONSTANTS Requests,   \* the HTTP requests, each used once
          MaxFailed,  \* max_failed_logins
          Lockout,    \* lockout_minutes
          ResetTtl,   \* password_reset_ttl_minutes
          MaxTime     \* bound of the clock

ASSUME SettingsAreNatural ==
    MaxFailed \in Nat \ {0} /\ Lockout \in Nat /\ ResetTtl \in Nat /\ MaxTime \in Nat

VARIABLES
    account,    \* the document in `users`
    links,      \* the collection `password_resets`
    mailed,     \* links that reached their owner
    now,        \* the clock
    pc,         \* where each request waits, or its answer
    call,       \* what each request asks for
    doc,        \* the account as the request read it
    at,         \* the local `now` of login
    \* History, read by the properties only.
    chosen,     \* the password chosen last
    failures,   \* failed logins recorded since the count was last cleared
    late,       \* logins that wrote from a document no longer true
    overtaken   \* requests whose look at the links another has made out of date

vars == <<account, links, mailed, now, pc, call, doc, at, chosen, failures, late, overtaken>>
history == <<chosen, failures, late, overtaken>>

Never == -1
First == "first"
Passwords == Requests \cup {First}

Accounts == [status : {"active", "disabled", "deleted"}, password : Passwords,
             old : BOOLEAN, attempts : Nat, locked : Nat \cup {Never}]
Links == [stored : BOOLEAN, used : BOOLEAN, expires : Nat]
NoLink == [stored |-> FALSE, used |-> FALSE, expires |-> 0]
Types == {"login", "change", "forgot", "reset"}
NoCall == [type |-> "none"]
Calls == [type : Types, link : Requests]

Awaits == {"fail", "succeed", "change", "invalidate", "create", "send", "find", "write", "mark"}
Answers == {"200", "202", "204", "400", "401", "403", "429"}

TypeOK ==
    /\ account \in Accounts
    /\ account.attempts < MaxFailed
    /\ links \in [Requests -> Links]
    /\ mailed \subseteq Requests
    /\ now \in 0..MaxTime
    /\ pc \in [Requests -> {"new"} \cup Awaits \cup Answers]
    /\ call \in [Requests -> Calls \cup {NoCall}]
    /\ \A r \in Requests : pc[r] # "new" => call[r] \in Calls
    /\ doc \in [Requests -> Accounts]
    /\ \A r \in Requests : doc[r].attempts < MaxFailed
    /\ at \in [Requests -> Nat]
    /\ \A r \in Requests : at[r] <= now
    /\ chosen \in Passwords
    /\ failures \in Nat
    /\ late \subseteq Requests
    /\ overtaken \subseteq Requests
-----------------------------------------------------------------------------
\* `old` hashes were made with other parameters than today's (needs_rehash).
Init ==
    /\ account \in [status : {"active"}, password : {First}, old : BOOLEAN,
                    attempts : {0}, locked : {Never}]
    /\ links = [r \in Requests |-> NoLink]
    /\ mailed = {}
    /\ now = 0
    /\ pc = [r \in Requests |-> "new"]
    /\ call = [r \in Requests |-> NoCall]
    /\ doc = [r \in Requests |-> account]
    /\ at = [r \in Requests |-> 0]
    /\ chosen = First
    /\ failures = 0
    /\ late = {}
    /\ overtaken = {}

MoveTo(r, where) == pc' = [pc EXCEPT ![r] = where]

Asks(r, type, l) ==
    /\ pc[r] = "new"
    /\ call' = [call EXCEPT ![r] = [type |-> type, link |-> l]]

\* users.update: $set, and nothing for an account that has gone.
Set(changed) == account' = IF account.status = "deleted" THEN account ELSE changed

\* Mutant of Locked: the time of the lock is not looked at.
NeverLocked == FALSE

Locked == account.locked # Never /\ account.locked > now
-----------------------------------------------------------------------------
(***************************************************************************)
(* login: the read, the lock, the check of the password against the        *)
(* document that was read.                                                 *)
(***************************************************************************)
Login(r) ==
    /\ Asks(r, "login", r)
    /\ doc' = [doc EXCEPT ![r] = account]
    /\ at' = [at EXCEPT ![r] = now]
    /\ \/ account.status = "deleted" /\ MoveTo(r, "401")
       \/ account.status # "deleted" /\ Locked /\ MoveTo(r, "429")
       \/ /\ account.status # "deleted" /\ ~Locked
          /\ \/ MoveTo(r, "fail")
             \/ MoveTo(r, IF account.status = "active" THEN "succeed" ELSE "403")
    /\ UNCHANGED <<account, links, mailed, now, history>>

\* Mutant of FailedLogin: the lock comes one failure late.
FailedLoginLate(d, time) ==
    IF d.attempts >= MaxFailed
    THEN [account EXCEPT !.attempts = 0, !.locked = time + Lockout]
    ELSE [account EXCEPT !.attempts = d.attempts + 1]

\* _register_failed_login, for the document d and the time it was read.
FailedLogin(d, time) ==
    IF d.attempts + 1 >= MaxFailed
    THEN [account EXCEPT !.attempts = 0, !.locked = time + Lockout]
    ELSE [account EXCEPT !.attempts = d.attempts + 1]

RegisterFailedLogin(r) ==
    /\ pc[r] = "fail"
    /\ Set(FailedLogin(doc[r], at[r]))
    /\ MoveTo(r, "401")
    /\ failures' = IF account'.locked = at[r] + Lockout THEN 0 ELSE failures + 1
    /\ late' = IF doc[r] = account THEN late ELSE late \cup {r}
    /\ UNCHANGED <<links, mailed, now, call, doc, at, chosen, overtaken>>

\* Mutant of LoggedIn: the document that was read is written back.
LoggedInWhole(d) == [d EXCEPT !.attempts = 0, !.locked = Never]

\* The counter and the lock are cleared, and an old hash is replaced by a new
\* one of the password that was checked.
LoggedIn(d) ==
    LET cleared == [account EXCEPT !.attempts = 0, !.locked = Never] IN
    IF d.old THEN [cleared EXCEPT !.password = d.password, !.old = FALSE] ELSE cleared

SucceedLogin(r) ==
    /\ pc[r] = "succeed"
    /\ Set(LoggedIn(doc[r]))
    /\ MoveTo(r, "200")
    /\ failures' = 0
    /\ late' = IF doc[r] = account THEN late ELSE late \cup {r}
    /\ UNCHANGED <<links, mailed, now, call, doc, at, chosen, overtaken>>
-----------------------------------------------------------------------------
(***************************************************************************)
(* change_password: the account read by get_current_user, the check of the *)
(* current password, and the write.  It leaves the counter and the lock.   *)
(***************************************************************************)
ChangePassword(r) ==
    /\ Asks(r, "change", r)
    /\ doc' = [doc EXCEPT ![r] = account]
    /\ \/ MoveTo(r, "401")
       \/ account.status = "active" /\ MoveTo(r, "change")
    /\ UNCHANGED <<account, links, mailed, now, at, history>>

WriteChange(r) ==
    /\ pc[r] = "change"
    /\ Set([account EXCEPT !.password = r, !.old = FALSE])
    /\ MoveTo(r, "200")
    /\ chosen' = IF account.status = "deleted" THEN chosen ELSE r
    /\ UNCHANGED <<links, mailed, now, call, doc, at, failures, late, overtaken>>
-----------------------------------------------------------------------------
(***************************************************************************)
(* request_password_reset: earlier links are invalidated, a new one is     *)
(* stored and sent.  The answer is 202 whatever happens, also when the     *)
(* mail cannot be sent.                                                    *)
(***************************************************************************)
RequestReset(r) ==
    /\ Asks(r, "forgot", r)
    /\ MoveTo(r, IF account.status = "active" THEN "invalidate" ELSE "202")
    /\ UNCHANGED <<account, links, mailed, now, doc, at, history>>

\* Mutant of Invalidated: only links that have expired.
InvalidatedExpired == [l \in Requests |->
    IF links[l].stored /\ links[l].expires <= now THEN [links[l] EXCEPT !.used = TRUE] ELSE links[l]]

\* invalidate_for_user
Invalidated == [l \in Requests |->
    IF links[l].stored THEN [links[l] EXCEPT !.used = TRUE] ELSE links[l]]

InvalidateLinks(r) ==
    /\ pc[r] = "invalidate"
    /\ links' = Invalidated
    /\ MoveTo(r, "create")
    /\ UNCHANGED <<account, mailed, now, call, doc, at, history>>

CreateLink(r) ==
    /\ pc[r] = "create"
    /\ links' = [links EXCEPT ![r] = [stored |-> TRUE, used |-> FALSE, expires |-> now + ResetTtl]]
    /\ MoveTo(r, "send")
    /\ overtaken' = overtaken \cup {o \in Requests \ {r} : pc[o] = "create"}
    /\ UNCHANGED <<account, mailed, now, call, doc, at, chosen, failures, late>>

SendLink(r) ==
    /\ pc[r] = "send"
    /\ mailed' \in {mailed, mailed \cup {r}}
    /\ MoveTo(r, "202")
    /\ UNCHANGED <<account, links, now, call, doc, at, history>>
-----------------------------------------------------------------------------
(***************************************************************************)
(* reset_password(l): the look at the link and its checks, the user, the   *)
(* new password (which also clears the lock), and the mark on the link.    *)
(***************************************************************************)
Usable(l) == links[l].stored /\ ~links[l].used /\ links[l].expires > now

\* Requests that have set a password with the link l.
Spenders(l) == {r \in Requests : pc[r] \in {"mark", "204"} /\ call[r].type = "reset" /\ call[r].link = l}

ResetPassword(r, l) ==
    /\ l \in mailed
    /\ Asks(r, "reset", l)
    /\ MoveTo(r, IF Usable(l) THEN "find" ELSE "400")
    /\ overtaken' = IF \E o \in Spenders(l) : pc[o] = "mark" THEN overtaken \cup {r} ELSE overtaken
    /\ UNCHANGED <<account, links, mailed, now, doc, at, chosen, failures, late>>

FindUser(r) ==
    /\ pc[r] = "find"
    /\ MoveTo(r, IF account.status = "deleted" THEN "400" ELSE "write")
    /\ UNCHANGED <<account, links, mailed, now, call, doc, at, history>>

WriteReset(r) ==
    /\ pc[r] = "write"
    /\ Set([account EXCEPT !.password = r, !.old = FALSE, !.attempts = 0, !.locked = Never])
    /\ MoveTo(r, "mark")
    /\ chosen' = IF account.status = "deleted" THEN chosen ELSE r
    /\ failures' = 0
    /\ overtaken' = overtaken \cup {o \in Requests \ {r} :
            pc[o] \in {"find", "write"} /\ call[o].link = call[r].link}
    /\ UNCHANGED <<links, mailed, now, call, doc, at, late>>

\* Mutant of MarkUsed: the link stays as it is.
MarkNothing(r) ==
    /\ pc[r] = "mark"
    /\ MoveTo(r, "204")
    /\ UNCHANGED <<account, links, mailed, now, call, doc, at, history>>

\* mark_used, then revoke_all_for_user (Sessions).
MarkUsed(r) ==
    /\ pc[r] = "mark"
    /\ links' = [links EXCEPT ![call[r].link].used = links[call[r].link].stored]
    /\ MoveTo(r, "204")
    /\ UNCHANGED <<account, mailed, now, call, doc, at, history>>
-----------------------------------------------------------------------------
\* An administrator, in one step: UserAdmin has the details.
Administer(status) ==
    /\ account.status \notin {"deleted", status}
    /\ account' = [account EXCEPT !.status = status]
    /\ UNCHANGED <<links, mailed, now, pc, call, doc, at, history>>

\* The TTL index removes an expired link, some time after.
Purge(l) ==
    /\ links[l].stored /\ links[l].expires <= now
    /\ links' = [links EXCEPT ![l] = NoLink]
    /\ UNCHANGED <<account, mailed, now, pc, call, doc, at, history>>

Tick ==
    /\ now < MaxTime
    /\ now' = now + 1
    /\ UNCHANGED <<account, links, mailed, pc, call, doc, at, history>>

Next ==
    \/ \E r \in Requests :
        \/ Login(r) \/ RegisterFailedLogin(r) \/ SucceedLogin(r)
        \/ ChangePassword(r) \/ WriteChange(r)
        \/ RequestReset(r) \/ InvalidateLinks(r) \/ CreateLink(r) \/ SendLink(r)
        \/ \E l \in Requests : ResetPassword(r, l)
        \/ FindUser(r) \/ WriteReset(r) \/ MarkUsed(r)
        \/ Purge(r)
    \/ \E status \in {"active", "disabled", "deleted"} : Administer(status)
    \/ Tick

Spec == Init /\ [][Next]_vars
-----------------------------------------------------------------------------
(***************************************************************************)
(* "Tras 5 intentos fallidos la cuenta se bloquea" (routes/auth.py): so    *)
(* many failed logins are never recorded without a lock, a success or a    *)
(* reset among them, unless one counted from a document out of date.       *)
(***************************************************************************)
LockAfterMaxFailed == failures < MaxFailed \/ late # {}

(***************************************************************************)
(* A lock holds for its time: it is lifted or brought forward only by a    *)
(* reset of the password, or by a login that had read the account before   *)
(* it was locked or otherwise changed.                                     *)
(***************************************************************************)
LockHolds ==
    [][account.locked > now /\ account'.locked < account.locked =>
        \E r \in Requests :
            /\ pc'[r] # pc[r]
            /\ call[r].type = "reset" \/ (pc[r] \in {"fail", "succeed"} /\ doc[r] # account)]_vars

(***************************************************************************)
(* No password is silently undone: the one stored is the one chosen last,  *)
(* unless a login rehashed a password that was changed while it ran.       *)
(***************************************************************************)
PasswordIsTheLastChosen ==
    account.password = chosen \/ \E r \in late : pc[r] = "200" /\ doc[r].old

(***************************************************************************)
(* "un solo uso" (routes/auth.py): two resets succeed with one link only   *)
(* if one looked at it before the other had marked it, or the other was    *)
(* lost between its new password and the mark.                             *)
(***************************************************************************)
LinkIsUsedOnce ==
    \A l \in Requests : \A r, o \in Spenders(l) :
        r = o \/ r \in overtaken \/ o \in overtaken

(***************************************************************************)
(* A new link makes the earlier ones useless: two links are usable only if *)
(* the requests for them invalidated before either had created its own.    *)
(***************************************************************************)
OneUsableLink ==
    \A l, m \in Requests :
        Usable(l) /\ Usable(m) => l = m \/ l \in overtaken \/ m \in overtaken
=============================================================================
