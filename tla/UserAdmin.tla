----------------------------- MODULE UserAdmin -----------------------------
(***************************************************************************)
(* UserAdmin: the accounts and roles as administrators change them.  A     *)
(* request authenticates its actor, looks up the permissions of the        *)
(* actor's role, reads what it is about to change, checks it against other *)
(* documents, and writes; every one of these is an await, and nothing      *)
(* holds the documents still in between.                                   *)
(*                                                                         *)
(* The permissions of a resource (users:update, users:delete, ...) are     *)
(* taken together, names and descriptions are left out, and so are the     *)
(* sessions that a disabled or deleted account loses (see Sessions).       *)
(***************************************************************************)
EXTENDS Naturals

CONSTANTS Requests,     \* the HTTP requests, each used once
          Accounts,     \* the ids of users
          CustomRoles   \* the keys of roles that are not seeded

VARIABLES
    users,      \* the collection `users`
    roles,      \* the collection `roles`
    pc,         \* where each request waits, or its answer
    actor,      \* who sends it
    call,       \* what each request asks for
    doc,        \* the user as the request read it last
    \* History, read by the properties only.
    recounted,  \* requests whose check for the last administrator is out of date
    reassigned  \* requests whose check of a role is out of date

vars == <<users, roles, pc, actor, call, doc, recounted, reassigned>>
history == <<recounted, reassigned>>

Admin == "admin"
SystemRoles == {Admin, "viewer"}
Roles == SystemRoles \cup CustomRoles
Permissions == {"users", "roles"}

UserDocs == [status : {"none", "active", "disabled", "deleted"}, role : Roles]
RoleDocs == [stored : BOOLEAN, grants : SUBSET Permissions]

\* "keep" is a field that the body does not change.
Keep == "keep"
ASSUME KeepIsNoRole == Keep \notin CustomRoles
NoCall == [type |-> "none"]
Creates == [type : {"create"}, role : Roles, status : {"active", "disabled"}]
Updates == [type : {"update"}, user : Accounts, role : Roles \cup {Keep},
            status : {"active", "disabled", Keep}]
Deletes == [type : {"delete"}, user : Accounts]
UserCalls == Creates \cup Updates \cup Deletes
RoleCalls == [type : {"createRole", "updateRole", "deleteRole"}, role : Roles]
Calls == UserCalls \cup RoleCalls

Nobody == "nobody"
NoDoc == [status |-> "none", role |-> Admin]

Awaits == {"authorize", "target", "role", "count", "write", "remove",
           "insert", "insertRole", "find", "writeRole", "countUsers", "removeRole"}
Answers == {"200", "201", "204", "401", "403", "404", "409", "422"}

TypeOK ==
    /\ users \in [Accounts -> UserDocs]
    /\ roles \in [Roles -> RoleDocs]
    /\ \A k \in SystemRoles : roles[k].stored
    /\ roles[Admin].grants = Permissions
    /\ pc \in [Requests -> {"new"} \cup Awaits \cup Answers]
    /\ actor \in [Requests -> Accounts \cup {Nobody}]
    /\ call \in [Requests -> Calls \cup {NoCall}]
    /\ doc \in [Requests -> UserDocs]
    /\ recounted \subseteq Requests
    /\ reassigned \subseteq Requests
-----------------------------------------------------------------------------
Active(d) == d.status = "active"
IsAdmin(d) == d.role = Admin /\ Active(d)
Stored(d) == d.status \in {"active", "disabled"}
Admins == {u \in Accounts : IsAdmin(users[u])}

\* The roles are seeded (Startup), the first administrator exists, and a
\* custom role that is assigned is stored.
Init ==
    /\ users \in [Accounts -> [status : {"none", "active"}, role : Roles]]
    /\ Admins # {}
    /\ \A u \in Accounts : users[u].status = "none" => users[u].role = Admin
    /\ roles \in [Roles -> RoleDocs]
    /\ roles[Admin].grants = Permissions
    /\ roles["viewer"].grants = {}
    /\ \A k \in SystemRoles : roles[k].stored
    /\ \A u \in Accounts : roles[users[u].role].stored
    /\ \A k \in CustomRoles : ~roles[k].stored => roles[k].grants = {}
    /\ pc = [r \in Requests |-> "new"]
    /\ actor = [r \in Requests |-> Nobody]
    /\ call = [r \in Requests |-> NoCall]
    /\ doc = [r \in Requests |-> NoDoc]
    /\ recounted = {}
    /\ reassigned = {}

MoveTo(r, where) == pc' = [pc EXCEPT ![r] = where]
-----------------------------------------------------------------------------
(***************************************************************************)
(* get_current_user and require_permission.                                *)
(***************************************************************************)
Authenticate(r) ==
    /\ pc[r] = "new"
    /\ \E u \in Accounts :
        /\ actor' = [actor EXCEPT ![r] = u]
        /\ doc' = [doc EXCEPT ![r] = users[u]]
        /\ MoveTo(r, IF Active(users[u]) THEN "authorize" ELSE "401")
    /\ UNCHANGED <<users, roles, call, history>>

\* permissions_of: those that the actor's role has now.
Granted(r) == IF roles[doc[r].role].stored THEN roles[doc[r].role].grants ELSE {}

Needs(c) == IF c \in UserCalls THEN "users" ELSE "roles"

First == [create |-> "role", update |-> "target", delete |-> "target",
          createRole |-> "insertRole", updateRole |-> "find", deleteRole |-> "find"]

Authorize(r) ==
    /\ pc[r] = "authorize"
    /\ \/ /\ Granted(r) # Permissions
          /\ MoveTo(r, "403")
          /\ UNCHANGED call
       \/ \E c \in Calls :
          /\ Needs(c) \in Granted(r)
          /\ call' = [call EXCEPT ![r] = c]
          /\ MoveTo(r, First[c.type])
    /\ UNCHANGED <<users, roles, actor, doc, history>>
-----------------------------------------------------------------------------
(***************************************************************************)
(* Users: update, delete, create.                                          *)
(***************************************************************************)
\* What update puts into `changes`, by the target d as it was read.
ChangesRole(c, d) == c.type = "update" /\ c.role \notin {Keep, d.role}
ChangesStatus(c, d) == c.type = "update" /\ c.status \notin {Keep, d.status}
Changes(c, d) == c.type = "delete" \/ ChangesRole(c, d) \/ ChangesStatus(c, d)

\* The checks that need no further document, in the order of the code, and
\* where the request goes from them.
Checked(r, d) ==
    IF Changes(call[r], d) /\ call[r].user = actor[r] THEN "409"
    ELSE IF Changes(call[r], d) /\ IsAdmin(d) THEN "count"
    ELSE IF call[r].type = "delete" THEN "remove" ELSE "write"

Target(r) ==
    /\ pc[r] = "target"
    /\ LET d == users[call[r].user] IN
        /\ doc' = [doc EXCEPT ![r] = d]
        /\ \/ ~Stored(d) /\ MoveTo(r, "404")
           \/ Stored(d) /\ MoveTo(r, IF ChangesRole(call[r], d) THEN "role" ELSE Checked(r, d))
    /\ UNCHANGED <<users, roles, actor, call, history>>

\* Mutant of RequireRole: any role will do.
AnyRole(r) ==
    /\ pc[r] = "role"
    /\ MoveTo(r, IF call[r].type = "create" THEN "insert" ELSE Checked(r, doc[r]))
    /\ UNCHANGED <<users, roles, actor, call, doc, history>>

\* _require_role; for create the hash of the password follows.
RequireRole(r) ==
    /\ pc[r] = "role"
    /\ \/ ~roles[call[r].role].stored /\ MoveTo(r, "422")
       \/ /\ roles[call[r].role].stored
          /\ MoveTo(r, IF call[r].type = "create" THEN "insert" ELSE Checked(r, doc[r]))
    /\ UNCHANGED <<users, roles, actor, call, doc, history>>

\* Mutant of LastAdmin: off by one.
NoAdminLeft == Admins = {}

\* count(role=admin, status=active) <= 1
LastAdmin == \A u, v \in Admins : u = v

CountAdmins(r) ==
    /\ pc[r] = "count"
    /\ MoveTo(r, IF LastAdmin THEN "409" ELSE IF call[r].type = "delete" THEN "remove" ELSE "write")
    /\ UNCHANGED <<users, roles, actor, call, doc, history>>

\* The check of the last administrator is out of date: the target was one and
\* another one has gone since, or it was not and has become one.
Outdated(o) ==
    \/ /\ pc[o] \in {"write", "remove"}
       /\ IsAdmin(doc[o])
       /\ \E u \in Admins \ {call[o].user} : ~IsAdmin(users'[u])
    \/ /\ pc[o] \in {"write", "remove"} \/ (pc[o] = "role" /\ call[o].type = "update")
       /\ ~IsAdmin(doc[o]) /\ ~IsAdmin(users[call[o].user])
       /\ IsAdmin(users'[call[o].user])

\* What every write of a user does to the checks of the other requests.
Overtake(r, role) ==
    /\ recounted' = recounted \cup {o \in Requests \ {r} : Outdated(o)}
    /\ reassigned' = reassigned \cup {o \in Requests \ {r} :
            pc[o] = "removeRole" /\ call[o].role = role}

\* users.update: the fields in `changes`, of a user that is still there.
WriteUser(r) ==
    /\ pc[r] = "write"
    /\ LET c == call[r]
           u == c.user
           role == IF ChangesRole(c, doc[r]) THEN c.role ELSE users[u].role
           status == IF ChangesStatus(c, doc[r]) THEN c.status ELSE users[u].status
       IN IF Stored(users[u])
          THEN users' = [users EXCEPT ![u] = [status |-> status, role |-> role]]
          ELSE UNCHANGED users
    /\ MoveTo(r, IF Stored(users[call[r].user]) THEN "200" ELSE "404")
    /\ Overtake(r, call[r].role)
    /\ UNCHANGED <<roles, actor, call, doc>>

\* users.delete; the answer is the same for a user that has gone.
RemoveUser(r) ==
    /\ pc[r] = "remove"
    /\ users' = [users EXCEPT ![call[r].user].status = "deleted"]
    /\ MoveTo(r, "204")
    /\ Overtake(r, Keep)
    /\ UNCHANGED <<roles, actor, call, doc>>

\* users.create: the e-mail is taken, or an account with a new id is stored.
InsertUser(r) ==
    /\ pc[r] = "insert"
    /\ \/ /\ \E u \in Accounts : Stored(users[u])
          /\ MoveTo(r, "409")
          /\ UNCHANGED <<users, history>>
       \/ /\ \E u \in Accounts :
                /\ users[u].status = "none"
                /\ users' = [users EXCEPT ![u] = [status |-> call[r].status, role |-> call[r].role]]
          /\ MoveTo(r, "201")
          /\ Overtake(r, call[r].role)
    /\ UNCHANGED <<roles, actor, call, doc>>
-----------------------------------------------------------------------------
(***************************************************************************)
(* Roles: create, update, delete.                                          *)
(***************************************************************************)
\* roles.create.  Which permissions the body names is left open, so it may
\* name an unknown one (_validate_permissions), of a role that is stored or not.
InsertRole(r) ==
    /\ pc[r] = "insertRole"
    /\ \/ MoveTo(r, "422") /\ UNCHANGED roles
       \/ /\ roles[call[r].role].stored
          /\ MoveTo(r, "409")
          /\ UNCHANGED roles
       \/ /\ ~roles[call[r].role].stored
          /\ MoveTo(r, "201")
          /\ \E g \in SUBSET Permissions :
                roles' = [roles EXCEPT ![call[r].role] = [stored |-> TRUE, grants |-> g]]
    /\ UNCHANGED <<users, actor, call, doc, history>>

\* Mutant of FindRole: system roles are deleted like any other.
FindAnyRole(r) ==
    /\ pc[r] = "find"
    /\ \/ ~roles[call[r].role].stored /\ MoveTo(r, "404")
       \/ /\ roles[call[r].role].stored
          /\ MoveTo(r, IF call[r].type = "updateRole" THEN "writeRole" ELSE "countUsers")
    /\ UNCHANGED <<users, roles, actor, call, doc, history>>

\* The read that update and delete begin with, and the checks on what it
\* gives.  An update that names the permissions of admin is refused, and so is
\* one of another role that names an unknown permission; an update that names
\* no permissions changes nothing that is modelled.
FindRole(r) ==
    /\ pc[r] = "find"
    /\ LET k == call[r].role IN
       \/ ~roles[k].stored /\ MoveTo(r, "404")
       \/ /\ roles[k].stored /\ call[r].type = "updateRole"
          /\ IF k = Admin THEN MoveTo(r, "403") ELSE MoveTo(r, "writeRole") \/ MoveTo(r, "422")
       \/ /\ roles[k].stored /\ call[r].type = "deleteRole"
          /\ MoveTo(r, IF k \in SystemRoles THEN "403" ELSE "countUsers")
    /\ UNCHANGED <<users, roles, actor, call, doc, history>>

\* roles.update; a role that has gone is answered as it was read.
WriteRole(r) ==
    /\ pc[r] = "writeRole"
    /\ IF roles[call[r].role].stored
       THEN \E g \in SUBSET Permissions : roles' = [roles EXCEPT ![call[r].role].grants = g]
       ELSE UNCHANGED roles
    /\ MoveTo(r, "200")
    /\ UNCHANGED <<users, actor, call, doc, history>>

CountUsers(r) ==
    /\ pc[r] = "countUsers"
    /\ MoveTo(r, IF \E u \in Accounts : Stored(users[u]) /\ users[u].role = call[r].role
                 THEN "409" ELSE "removeRole")
    /\ UNCHANGED <<users, roles, actor, call, doc, history>>

\* Requests that have required the role k and not yet assigned it.
Assigning(k) == {o \in Requests : /\ pc[o] \in {"count", "write", "insert"}
                                  /\ call[o].type \in {"create", "update"}
                                  /\ call[o].role = k}

RemoveRole(r) ==
    /\ pc[r] = "removeRole"
    /\ roles' = [roles EXCEPT ![call[r].role] = [stored |-> FALSE, grants |-> {}]]
    /\ MoveTo(r, "204")
    /\ reassigned' = reassigned \cup Assigning(call[r].role)
    /\ UNCHANGED <<users, actor, call, doc, recounted>>
-----------------------------------------------------------------------------
UserRoutes(r) ==
    \/ Target(r) \/ RequireRole(r) \/ CountAdmins(r)
    \/ WriteUser(r) \/ RemoveUser(r) \/ InsertUser(r)

RoleRoutes(r) ==
    InsertRole(r) \/ FindRole(r) \/ WriteRole(r) \/ CountUsers(r) \/ RemoveRole(r)

Next == \E r \in Requests : Authenticate(r) \/ Authorize(r) \/ UserRoutes(r) \/ RoleRoutes(r)

Spec == Init /\ [][Next]_vars
-----------------------------------------------------------------------------
(***************************************************************************)
(* "Debe existir al menos un administrador activo" (UserService.update):   *)
(* there is one, unless an update or delete went through whose check       *)
(* another request had made out of date.                                   *)
(***************************************************************************)
AdminRemains ==
    Admins # {} \/ \E r \in recounted : pc[r] \in {"200", "204"}

(***************************************************************************)
(* A stored user's role is stored, so that permissions_of finds it, unless *)
(* the role was removed while a request that had looked at it assigned it, *)
(* or assigned after the request that removes it had counted its users.    *)
(***************************************************************************)
RolesExist ==
    \A u \in Accounts : Stored(users[u]) =>
        \/ roles[users[u].role].stored
        \/ \E r \in reassigned : pc[r] \in {"200", "201", "204"} /\ call[r].role = users[u].role
=============================================================================
