------------------------------ MODULE Startup ------------------------------
(***************************************************************************)
(* Startup: what every instance does to the shared database before it      *)
(* serves (lifespan, _prepare_data), next to the public registration of    *)
(* those that serve already.  Instances of several versions start, crash   *)
(* and start again in any order; any call of the database may fail, and a  *)
(* failure does not keep an instance from serving.                         *)
(*                                                                         *)
(* An action is one call of the database.  Registration is enabled and the *)
(* first administrator's credentials are configured.                       *)
(***************************************************************************)
EXTENDS Naturals, Sequences

CONSTANTS Instances,   \* the processes
          Versions,    \* of the program; each has its own list of permissions
          Requests,    \* the registrations, each used once
          Emails,
          AdminEmail   \* bootstrap_admin_email

ASSUME AdminHasAnEmail == AdminEmail \in Emails

VARIABLES
    indexed,    \* the unique index on users.email exists
    roles,      \* the collection `roles`: the version of each role's permissions
    users,      \* the collection `users`
    pc,         \* where each instance is in its startup
    version,    \* what each instance runs
    at,         \* the position of seed_roles in SYSTEM_ROLES
    rpc,        \* where each registration waits, or its answer
    host,       \* the instance that serves it
    email,      \* the e-mail it registers
    \* History, read by the properties only.
    finished,   \* an instance has prepared the data to the end
    hasty,      \* an account was registered before
    overtaken   \* instances after whose look at `admin` another version wrote it

data == <<indexed, roles, users>>
registrations == <<rpc, host, email>>
vars == <<indexed, roles, users, pc, version, at, rpc, host, email, finished, hasty, overtaken>>

Admin == "admin"
Viewer == "viewer"
SystemRoles == <<Admin, "manager", Viewer>>
RoleKeys == {SystemRoles[n] : n \in 1..3}
Nothing == "nothing"   \* no role stored, no instance or e-mail chosen yet

UserDocs == [by : Instances \cup Requests, email : Emails, role : {Admin, Viewer}]

Starting == {"ping", "indexes", "logIndexes", "look", "create", "sync", "count", "insert"}
Serving == {"serving", "unprepared"}

TypeOK ==
    /\ indexed \in BOOLEAN
    /\ roles \in [RoleKeys -> Versions \cup {Nothing}]
    /\ users \subseteq UserDocs
    /\ pc \in [Instances -> {"down"} \cup Starting \cup Serving]
    /\ version \in [Instances -> Versions]
    /\ at \in [Instances -> 1..3]
    /\ rpc \in [Requests -> {"new", "insert", "201", "404", "409", "500"}]
    /\ host \in [Requests -> Instances \cup {Nothing}]
    /\ email \in [Requests -> Emails \cup {Nothing}]
    /\ \A r \in Requests : rpc[r] = "insert" => email[r] \in Emails
    /\ finished \in BOOLEAN
    /\ hasty \in BOOLEAN
    /\ overtaken \subseteq Instances
-----------------------------------------------------------------------------
\* An empty database.
Init ==
    /\ indexed = FALSE
    /\ roles = [k \in RoleKeys |-> Nothing]
    /\ users = {}
    /\ pc = [i \in Instances |-> "down"]
    /\ version \in [Instances -> Versions]
    /\ at = [i \in Instances |-> 1]
    /\ rpc = [r \in Requests |-> "new"]
    /\ host = [r \in Requests |-> Nothing]
    /\ email = [r \in Requests |-> Nothing]
    /\ finished = FALSE
    /\ hasty = FALSE
    /\ overtaken = {}

Go(i, where) == pc' = [pc EXCEPT ![i] = where]
Taken(e) == \E u \in users : u.email = e
-----------------------------------------------------------------------------
\* A new process, of any version.
Start(i) ==
    /\ pc[i] = "down"
    /\ Go(i, "ping")
    /\ \E v \in Versions : version' = [version EXCEPT ![i] = v]
    /\ at' = [at EXCEPT ![i] = 1]
    /\ overtaken' = overtaken \ {i}
    /\ UNCHANGED <<data, registrations, finished, hasty>>

\* The process dies, and the requests it was serving with it.
Crash(i) ==
    /\ pc[i] # "down"
    /\ Go(i, "down")
    /\ rpc' = [r \in Requests |-> IF host[r] = i /\ rpc[r] = "insert" THEN "500" ELSE rpc[r]]
    /\ UNCHANGED <<data, version, at, host, email, finished, hasty, overtaken>>

\* A call of the database fails, and _prepare_data gives up.  (A write that
\* was done although its answer was lost is the write, then this.)
Fail(i) ==
    /\ pc[i] \in Starting \ {"ping"}
    /\ Go(i, "unprepared")
    /\ UNCHANGED <<data, version, at, registrations, finished, hasty, overtaken>>

\* The answer of the ping is only logged.
Ping(i) ==
    /\ pc[i] = "ping"
    /\ Go(i, "indexes")
    /\ UNCHANGED <<data, version, at, registrations, finished, hasty, overtaken>>

\* A unique index cannot be built over duplicates.
CreateIndexes(i) ==
    /\ pc[i] = "indexes"
    /\ indexed \/ \A u, v \in users : u.email = v.email => u = v
    /\ indexed' = TRUE
    /\ Go(i, "logIndexes")
    /\ UNCHANGED <<roles, users, version, at, registrations, finished, hasty, overtaken>>

CreateLogIndexes(i) ==
    /\ pc[i] = "logIndexes"
    /\ Go(i, "look")
    /\ UNCHANGED <<data, version, at, registrations, finished, hasty, overtaken>>
-----------------------------------------------------------------------------
(***************************************************************************)
(* seed_roles                                                              *)
(***************************************************************************)
\* The next role, or bootstrap_admin after the last.
NextRole(i) ==
    /\ Go(i, IF at[i] = Len(SystemRoles) THEN "count" ELSE "look")
    /\ at' = IF at[i] = Len(SystemRoles) THEN at ELSE [at EXCEPT ![i] = at[i] + 1]

\* Mutant of OutOfDate: a role that exists is never touched.
NotOutOfDate(i, k) == FALSE

\* Only admin is synchronised.
OutOfDate(i, k) == k = Admin /\ roles[k] # version[i]

LookAtRole(i) ==
    /\ pc[i] = "look"
    /\ LET k == SystemRoles[at[i]] IN
        CASE roles[k] = Nothing -> Go(i, "create") /\ UNCHANGED at
          [] roles[k] # Nothing /\ OutOfDate(i, k) -> Go(i, "sync") /\ UNCHANGED at
          [] OTHER -> NextRole(i)
    /\ UNCHANGED <<data, version, registrations, finished, hasty, overtaken>>

\* Instances past their look at `admin`, of another version than i.
Past(i) == {j \in Instances \ {i} :
    version[j] # version[i] /\ (at[j] > 1 \/ pc[j] \in {"create", "sync", "count", "insert"})}

WriteRole(i, k) ==
    /\ roles' = [roles EXCEPT ![k] = version[i]]
    /\ overtaken' = IF k = Admin THEN overtaken \cup Past(i) ELSE overtaken

\* A role that exists meanwhile is a DuplicateError, which is suppressed.
CreateRole(i) ==
    /\ pc[i] = "create"
    /\ LET k == SystemRoles[at[i]] IN
        IF roles[k] = Nothing THEN WriteRole(i, k) ELSE UNCHANGED <<roles, overtaken>>
    /\ NextRole(i)
    /\ UNCHANGED <<indexed, users, version, registrations, finished, hasty>>

SyncAdmin(i) ==
    /\ pc[i] = "sync"
    /\ WriteRole(i, Admin)
    /\ NextRole(i)
    /\ UNCHANGED <<indexed, users, version, registrations, finished, hasty>>
-----------------------------------------------------------------------------
(***************************************************************************)
(* bootstrap_admin                                                         *)
(***************************************************************************)
\* Mutant of Empty: nobody ever counts as nobody.
NeverEmpty == FALSE

Empty == users = {}

CountUsers(i) ==
    /\ pc[i] = "count"
    /\ Go(i, IF Empty THEN "insert" ELSE "serving")
    /\ finished' = (finished \/ ~Empty)
    /\ UNCHANGED <<data, version, at, registrations, hasty, overtaken>>

\* users.create: with the index, a taken e-mail is a DuplicateError.
Insert(by, e, role) ==
    IF indexed /\ Taken(e) THEN UNCHANGED users
    ELSE users' = users \cup {[by |-> by, email |-> e, role |-> role]}

InsertAdmin(i) ==
    /\ pc[i] = "insert"
    /\ Insert(i, AdminEmail, Admin)
    /\ Go(i, "serving")
    /\ finished' = TRUE
    /\ UNCHANGED <<indexed, roles, version, at, registrations, hasty, overtaken>>
-----------------------------------------------------------------------------
(***************************************************************************)
(* register, on an instance that serves, whether it prepared the data or   *)
(* not.  Its calls may fail as well, which is answered with a 500.         *)
(***************************************************************************)
\* Mutant of HasDefaultRole: the role is not looked for.
NoRoleNeeded == TRUE

HasDefaultRole == roles[Viewer] # Nothing

Register(r) ==
    /\ rpc[r] = "new"
    /\ \E i \in Instances, e \in Emails :
        /\ pc[i] \in Serving
        /\ host' = [host EXCEPT ![r] = i]
        /\ email' = [email EXCEPT ![r] = e]
    /\ \E answer \in {"500", IF HasDefaultRole THEN "insert" ELSE "404"} :
        rpc' = [rpc EXCEPT ![r] = answer]
    /\ UNCHANGED <<data, pc, version, at, finished, hasty, overtaken>>

\* Hashing the password comes between the look at the role and this.
InsertUser(r) ==
    /\ rpc[r] = "insert"
    /\ Insert(r, email[r], Viewer)
    /\ rpc' = [rpc EXCEPT ![r] = IF users' = users THEN "409" ELSE "201"]
    /\ hasty' = (hasty \/ (~finished /\ users' # users))
    /\ UNCHANGED <<indexed, roles, pc, version, at, host, email, finished, overtaken>>
-----------------------------------------------------------------------------
Next ==
    \/ \E i \in Instances :
        \/ Start(i) \/ Crash(i) \/ Fail(i)
        \/ Ping(i) \/ CreateIndexes(i) \/ CreateLogIndexes(i)
        \/ LookAtRole(i) \/ CreateRole(i) \/ SyncAdmin(i)
        \/ CountUsers(i) \/ InsertAdmin(i)
    \/ \E r \in Requests : Register(r) \/ InsertUser(r)

Spec == Init /\ [][Next]_vars
-----------------------------------------------------------------------------
(***************************************************************************)
(* "Los indices unicos son la fuente de verdad de la unicidad" (mongo.py), *)
(* also while there are none yet: no two accounts have one e-mail.  What   *)
(* keeps a registration from an unindexed collection is the default role,  *)
(* which every instance seeds after the index.                             *)
(***************************************************************************)
EmailsAreUnique == \A u, v \in users : u.email = v.email => u = v

(***************************************************************************)
(* "admin si se sincroniza siempre" (bootstrap.py): from its look at the   *)
(* role on, an instance that prepared the data finds admin with the        *)
(* permissions of its own version, unless another version wrote it since.  *)
(***************************************************************************)
AdminRoleIsCurrent ==
    \A i \in Instances :
        pc[i] \in {"count", "insert", "serving"} =>
            roles[Admin] = version[i] \/ i \in overtaken

(***************************************************************************)
(* There is no database with accounts and without an administrator (who    *)
(* could then never be made), unless somebody registered before the first  *)
(* instance had prepared the data.                                         *)
(***************************************************************************)
FirstAdminExists == users # {} => hasty \/ \E u \in users : u.role = Admin
=============================================================================
