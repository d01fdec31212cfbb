-------------------------- MODULE UserAdmin_proofs --------------------------
(***************************************************************************)
(* Proofs about UserAdmin, for any sets of requests, accounts and custom   *)
(* roles.                                                                  *)
(***************************************************************************)
EXTENDS UserAdmin, TLAPS

USE DEF MoveTo, history, Awaits, Answers, Roles, SystemRoles, Admin, Keep,
        UserDocs, RoleDocs, NoDoc, Active, IsAdmin, Stored

Step(r) == Authenticate(r) \/ Authorize(r) \/ UserRoutes(r) \/ RoleRoutes(r)

(***************************************************************************)
(* What a request waiting at an await asks for, and what the checks before *)
(* it established about documents that do not change under it: its own     *)
(* copy of the user, and the key of the role.                              *)
(***************************************************************************)
Fits(r) ==
    /\ pc[r] \in Awaits \ {"authorize"} => call[r] \in Calls
    /\ pc[r] = "target" => call[r].type \in {"update", "delete"}
    /\ pc[r] = "role" => call[r].type \in {"create", "update"}
    /\ pc[r] = "role" /\ call[r].type = "update" => ChangesRole(call[r], doc[r])
    /\ pc[r] = "count" => call[r].type \in {"update", "delete"} /\ IsAdmin(doc[r])
    /\ pc[r] = "write" => call[r].type = "update"
    /\ pc[r] = "remove" => call[r].type = "delete"
    /\ pc[r] = "insert" => call[r].type = "create"
    /\ pc[r] = "insertRole" => call[r].type = "createRole"
    /\ pc[r] = "find" => call[r].type \in {"updateRole", "deleteRole"}
    /\ pc[r] = "writeRole" => call[r].type = "updateRole" /\ call[r].role # Admin
    /\ pc[r] \in {"countUsers", "removeRole"} =>
            call[r].type = "deleteRole" /\ call[r].role \notin SystemRoles

CallFits == \A r \in Requests : Fits(r)

LEMMA CallFields ==
    ASSUME NEW c \in Calls
    PROVE  /\ c.type \in {"create", "update", "delete", "createRole", "updateRole", "deleteRole"}
           /\ c.type = "create" => c.role \in Roles /\ c.status \in {"active", "disabled"}
           /\ c.type = "update" => /\ c.user \in Accounts
                                   /\ c.role \in Roles \cup {Keep}
                                   /\ c.status \in {"active", "disabled", Keep}
           /\ c.type = "delete" => c.user \in Accounts
           /\ c.type \in {"createRole", "updateRole", "deleteRole"} => c.role \in Roles
<1>1. CASE c \in Creates
  BY <1>1 DEF Creates
<1>2. CASE c \in Updates
  BY <1>2 DEF Updates
<1>3. CASE c \in Deletes
  BY <1>3 DEF Deletes
<1>4. CASE c \in RoleCalls
  BY <1>4 DEF RoleCalls
<1> QED BY <1>1, <1>2, <1>3, <1>4 DEF Calls, UserCalls

LEMMA FirstAwait ==
    ASSUME NEW c \in Calls
    PROVE  /\ First[c.type] \in {"role", "target", "insertRole", "find"}
           /\ First[c.type] = "role" => c.type = "create"
           /\ First[c.type] = "target" => c.type \in {"update", "delete"}
           /\ First[c.type] = "insertRole" => c.type = "createRole"
           /\ First[c.type] = "find" => c.type \in {"updateRole", "deleteRole"}
<1>1. c.type \in {"create", "update", "delete", "createRole", "updateRole", "deleteRole"}
  BY CallFields
<1> QED BY <1>1 DEF First

LEMMA CheckedGoes ==
    ASSUME NEW r \in Requests, NEW d
    PROVE  /\ Checked(r, d) \in {"409", "count", "remove", "write"}
           /\ Checked(r, d) = "count" => Changes(call[r], d) /\ IsAdmin(d)
           /\ Checked(r, d) = "remove" => call[r].type = "delete"
           /\ Checked(r, d) = "write" => call[r].type # "delete"
           /\ Checked(r, d) \in {"remove", "write"} => ~(Changes(call[r], d) /\ IsAdmin(d))
  BY DEF Checked

(***************************************************************************)
(* The user part of the types is kept by each of the three writes.         *)
(***************************************************************************)
LEMMA WriteUserTypes ==
    ASSUME TypeOK, CallFits, NEW r \in Requests, WriteUser(r)
    PROVE  users' \in [Accounts -> UserDocs]
<1>1. call[r] \in Calls /\ call[r].type = "update"
  BY DEF WriteUser, CallFits, Fits
<1>2. /\ call[r].user \in Accounts
      /\ call[r].role \in Roles \cup {Keep}
      /\ call[r].status \in {"active", "disabled", Keep}
  BY <1>1, CallFields
<1>3. users[call[r].user] \in UserDocs
  BY <1>2 DEF TypeOK
<1> DEFINE role == IF ChangesRole(call[r], doc[r]) THEN call[r].role ELSE users[call[r].user].role
           status == IF ChangesStatus(call[r], doc[r]) THEN call[r].status
                     ELSE users[call[r].user].status
<1>4. role \in Roles /\ status \in {"none", "active", "disabled", "deleted"}
  BY <1>2, <1>3 DEF ChangesRole, ChangesStatus
<1>5. \/ users' = users
      \/ users' = [users EXCEPT ![call[r].user] = [status |-> status, role |-> role]]
  BY DEF WriteUser
<1> HIDE DEF role, status
<1> QED BY <1>2, <1>4, <1>5 DEF TypeOK

LEMMA RemoveUserTypes ==
    ASSUME TypeOK, CallFits, NEW r \in Requests, RemoveUser(r)
    PROVE  users' \in [Accounts -> UserDocs]
<1>1. call[r] \in Calls /\ call[r].type = "delete"
  BY DEF RemoveUser, CallFits, Fits
<1>2. call[r].user \in Accounts
  BY <1>1, CallFields
<1>3. [users[call[r].user] EXCEPT !.status = "deleted"] \in UserDocs
  BY <1>2 DEF TypeOK
<1> QED BY <1>2, <1>3 DEF TypeOK, RemoveUser

LEMMA InsertUserTypes ==
    ASSUME TypeOK, CallFits, NEW r \in Requests, InsertUser(r)
    PROVE  users' \in [Accounts -> UserDocs]
<1>1. call[r] \in Calls /\ call[r].type = "create"
  BY DEF InsertUser, CallFits, Fits
<1>2. call[r].role \in Roles /\ call[r].status \in {"active", "disabled"}
  BY <1>1, CallFields
<1> QED BY <1>2 DEF TypeOK, InsertUser

(***************************************************************************)
(* And the roles by theirs: the seeded ones stay, admin with everything.   *)
(***************************************************************************)
RolesOK ==
    /\ roles \in [Roles -> RoleDocs]
    /\ \A k \in SystemRoles : roles[k].stored
    /\ roles[Admin].grants = Permissions

LEMMA InsertRoleTypes ==
    ASSUME TypeOK, CallFits, NEW r \in Requests, InsertRole(r)
    PROVE  RolesOK'
<1>1. call[r] \in Calls /\ call[r].type = "createRole"
  BY DEF InsertRole, CallFits, Fits
<1>2. call[r].role \in Roles
  BY <1>1, CallFields
<1>3. CASE roles' = roles
  BY <1>3 DEF TypeOK, RolesOK
<1>4. CASE /\ ~roles[call[r].role].stored
           /\ \E g \in SUBSET Permissions :
                roles' = [roles EXCEPT ![call[r].role] = [stored |-> TRUE, grants |-> g]]
  <2>1. PICK g \in SUBSET Permissions :
            roles' = [roles EXCEPT ![call[r].role] = [stored |-> TRUE, grants |-> g]]
    BY <1>4
  <2>2. call[r].role # Admin
    BY <1>4 DEF TypeOK
  <2> QED BY <1>2, <2>1, <2>2 DEF TypeOK, RolesOK
<1> QED BY <1>3, <1>4 DEF InsertRole

LEMMA WriteRoleTypes ==
    ASSUME TypeOK, CallFits, NEW r \in Requests, WriteRole(r)
    PROVE  RolesOK'
<1>1. call[r] \in Calls /\ call[r].type = "updateRole" /\ call[r].role # Admin
  BY DEF WriteRole, CallFits, Fits
<1>2. call[r].role \in Roles
  BY <1>1, CallFields
<1>3. CASE ~roles[call[r].role].stored
  BY <1>3 DEF TypeOK, RolesOK, WriteRole
<1>4. CASE roles[call[r].role].stored
  <2>1. PICK g \in SUBSET Permissions : roles' = [roles EXCEPT ![call[r].role].grants = g]
    BY <1>4 DEF WriteRole
  <2> QED BY <1>1, <1>2, <2>1 DEF TypeOK, RolesOK
<1> QED BY <1>3, <1>4

LEMMA RemoveRoleTypes ==
    ASSUME TypeOK, CallFits, NEW r \in Requests, RemoveRole(r)
    PROVE  RolesOK'
<1>1. call[r] \in Calls /\ call[r].type = "deleteRole" /\ call[r].role \notin SystemRoles
  BY DEF RemoveRole, CallFits, Fits
<1> QED BY <1>1 DEF TypeOK, RolesOK, RemoveRole

(***************************************************************************)
(* What a step of one request leaves alone.                                *)
(***************************************************************************)
LEMMA Frame ==
    ASSUME TypeOK, NEW r \in Requests, Step(r)
    PROVE  /\ pc[r] \notin Answers
           /\ \A o \in Requests \ {r} :
                pc'[o] = pc[o] /\ call'[o] = call[o] /\ doc'[o] = doc[o]
           /\ recounted \subseteq recounted'
           /\ reassigned \subseteq reassigned'
<1> USE DEF TypeOK
<1>1. CASE Authenticate(r)
  BY <1>1 DEF Authenticate
<1>2. CASE Authorize(r)
  BY <1>2 DEF Authorize
<1>3. CASE Target(r)
  BY <1>3 DEF Target
<1>4. CASE RequireRole(r)
  BY <1>4 DEF RequireRole
<1>5. CASE CountAdmins(r)
  BY <1>5 DEF CountAdmins
<1>6. CASE WriteUser(r)
  BY <1>6 DEF WriteUser, Overtake
<1>7. CASE RemoveUser(r)
  BY <1>7 DEF RemoveUser, Overtake
<1>8. CASE InsertUser(r)
  BY <1>8 DEF InsertUser, Overtake
<1>9. CASE RoleRoutes(r)
  BY <1>9 DEF RoleRoutes, InsertRole, FindRole, WriteRole, CountUsers, RemoveRole
<1> QED BY <1>1, <1>2, <1>3, <1>4, <1>5, <1>6, <1>7, <1>8, <1>9 DEF Step, UserRoutes

LEMMA TypeInit == ASSUME Init PROVE TypeOK /\ CallFits
<1>1. users \in [Accounts -> UserDocs]
  BY DEF Init
<1> QED BY <1>1 DEF Init, TypeOK, CallFits, Fits

LEMMA TypeStep ==
    ASSUME TypeOK, CallFits, NEW r \in Requests, Step(r)
    PROVE  TypeOK'
<1> USE DEF TypeOK
<1>1. CASE Authenticate(r)
  BY <1>1 DEF Authenticate
<1>2. CASE Authorize(r)
  <2>1. CASE pc' = [pc EXCEPT ![r] = "403"] /\ UNCHANGED call
    BY <1>2, <2>1 DEF Authorize
  <2>2. ASSUME NEW c \in Calls, call' = [call EXCEPT ![r] = c],
               pc' = [pc EXCEPT ![r] = First[c.type]]
        PROVE  TypeOK'
    BY <1>2, <2>2, FirstAwait DEF Authorize
  <2> QED BY <1>2, <2>1, <2>2 DEF Authorize
<1>3. CASE Target(r)
  <2>1. call[r] \in Calls /\ call[r].type \in {"update", "delete"}
    BY <1>3 DEF Target, CallFits, Fits
  <2>2. call[r].user \in Accounts
    BY <2>1, CallFields
  <2> QED BY <1>3, <2>2, CheckedGoes DEF Target
<1>4. CASE RequireRole(r)
  BY <1>4, CheckedGoes DEF RequireRole
<1>5. CASE CountAdmins(r)
  BY <1>5 DEF CountAdmins
<1>6. CASE WriteUser(r)
  BY <1>6, WriteUserTypes DEF WriteUser, Overtake
<1>7. CASE RemoveUser(r)
  BY <1>7, RemoveUserTypes DEF RemoveUser, Overtake
<1>8. CASE InsertUser(r)
  BY <1>8, InsertUserTypes DEF InsertUser, Overtake
<1>9. CASE InsertRole(r)
  BY <1>9, InsertRoleTypes DEF InsertRole, RolesOK
<1>10. CASE FindRole(r)
  BY <1>10 DEF FindRole
<1>11. CASE WriteRole(r)
  BY <1>11, WriteRoleTypes DEF WriteRole, RolesOK
<1>12. CASE CountUsers(r)
  BY <1>12 DEF CountUsers
<1>13. CASE RemoveRole(r)
  BY <1>13, RemoveRoleTypes DEF RemoveRole, RolesOK, Assigning
<1> QED BY <1>1, <1>2, <1>3, <1>4, <1>5, <1>6, <1>7, <1>8, <1>9, <1>10, <1>11, <1>12, <1>13
        DEF Step, UserRoutes, RoleRoutes

LEMMA FitsStep ==
    ASSUME TypeOK, CallFits, NEW r \in Requests, Step(r)
    PROVE  CallFits'
<1>1. \A o \in Requests \ {r} : pc'[o] = pc[o] /\ call'[o] = call[o] /\ doc'[o] = doc[o]
  BY Frame
<1>2. \A o \in Requests \ {r} : Fits(o)'
  BY <1>1 DEF CallFits, Fits, ChangesRole
<1> SUFFICES Fits(r)'
  BY <1>2 DEF CallFits
<1>3. Fits(r)
  BY DEF CallFits
<1> USE DEF TypeOK
<1>4. CASE Authenticate(r)
  BY <1>4 DEF Authenticate, Fits
<1>5. CASE Authorize(r)
  <2>1. CASE pc' = [pc EXCEPT ![r] = "403"]
    BY <2>1 DEF Fits
  <2>2. ASSUME NEW c \in Calls, call' = [call EXCEPT ![r] = c],
               pc' = [pc EXCEPT ![r] = First[c.type]]
        PROVE  Fits(r)'
    <3>1. call'[r] = c /\ pc'[r] = First[c.type]
      BY <2>2
    <3>2. c.type = "update" => First[c.type] # "role"
      BY FirstAwait
    <3> QED BY <3>1, <3>2, FirstAwait DEF Fits
  <2> QED BY <1>5, <2>1, <2>2 DEF Authorize
<1>6. CASE Target(r)
  <2>1. call[r] \in Calls /\ call[r].type \in {"update", "delete"}
    BY <1>6, <1>3 DEF Target, Fits
  <2>2. call[r].user \in Accounts
    BY <2>1, CallFields
  <2>3. call'[r] = call[r] /\ doc'[r] = users[call[r].user]
    BY <1>6 DEF Target
  <2>4. CASE pc' = [pc EXCEPT ![r] = "404"]
    BY <2>4 DEF Fits
  <2>5. CASE ChangesRole(call[r], doc'[r]) /\ pc' = [pc EXCEPT ![r] = "role"]
    BY <2>1, <2>3, <2>5 DEF Fits, ChangesRole
  <2>6. CASE pc' = [pc EXCEPT ![r] = Checked(r, doc'[r])]
    BY <2>1, <2>3, <2>6, CheckedGoes DEF Fits
  <2> QED BY <1>6, <2>3, <2>4, <2>5, <2>6 DEF Target
<1>7. CASE RequireRole(r)
  <2>1. call[r] \in Calls /\ call[r].type \in {"create", "update"}
    BY <1>7, <1>3 DEF RequireRole, Fits
  <2>2. call'[r] = call[r] /\ doc'[r] = doc[r]
    BY <1>7 DEF RequireRole
  <2>3. CASE pc'[r] = "422"
    BY <2>3 DEF Fits
  <2>4. CASE call[r].type = "create" /\ pc'[r] = "insert"
    BY <2>1, <2>2, <2>4 DEF Fits
  <2>5. CASE call[r].type = "update" /\ pc'[r] = Checked(r, doc[r])
    BY <2>1, <2>2, <2>5, CheckedGoes DEF Fits
  <2> QED BY <1>7, <2>1, <2>3, <2>4, <2>5 DEF RequireRole
<1>8. CASE CountAdmins(r)
  BY <1>8, <1>3 DEF CountAdmins, Fits
<1>9. CASE WriteUser(r)
  BY <1>9 DEF WriteUser, Fits
<1>10. CASE RemoveUser(r)
  BY <1>10 DEF RemoveUser, Fits
<1>11. CASE InsertUser(r)
  BY <1>11 DEF InsertUser, Fits
<1>12. CASE InsertRole(r)
  BY <1>12 DEF InsertRole, Fits
<1>13. CASE FindRole(r)
  BY <1>13, <1>3 DEF FindRole, Fits
<1>14. CASE WriteRole(r)
  BY <1>14 DEF WriteRole, Fits
<1>15. CASE CountUsers(r)
  BY <1>15, <1>3 DEF CountUsers, Fits
<1>16. CASE RemoveRole(r)
  BY <1>16 DEF RemoveRole, Fits
<1> QED BY <1>4, <1>5, <1>6, <1>7, <1>8, <1>9, <1>10, <1>11, <1>12, <1>13, <1>14, <1>15, <1>16
        DEF Step, UserRoutes, RoleRoutes

(***************************************************************************)
(* The documents keep their types, the seeded roles stay.                  *)
(***************************************************************************)
LEMMA Stutter == ASSUME TypeOK, CallFits, UNCHANGED vars PROVE TypeOK' /\ CallFits'
<1> QED BY DEF vars, TypeOK, CallFits, Fits, ChangesRole

LEMMA StepOrStutter == ASSUME [Next]_vars PROVE UNCHANGED vars \/ \E r \in Requests : Step(r)
  BY DEF Next, Step

THEOREM TypeCorrect == Spec => []TypeOK
<1>1. TypeOK /\ CallFits /\ [Next]_vars => TypeOK' /\ CallFits'
  BY TypeStep, FitsStep, Stutter, StepOrStutter
<1> QED BY TypeInit, <1>1, PTL DEF Spec

(***************************************************************************)
(* AdminRemains.  The step that could remove the last administrator is a   *)
(* write to that very account.  If the writer had read the account as an   *)
(* administrator's, it counted the administrators, and another one has     *)
(* been there since (Spare), or the writer is in `recounted`.  If it had   *)
(* not, the account has not become one since (Harmless), or it is in       *)
(* `recounted` as well.                                                    *)
(***************************************************************************)
Spare(r) ==
    pc[r] \in {"write", "remove"} /\ IsAdmin(doc[r]) /\ Changes(call[r], doc[r]) =>
        r \in recounted \/ \E a \in Admins : a # call[r].user

Harmless(r) ==
    /\ pc[r] \in {"write", "remove"} \/ (pc[r] = "role" /\ call[r].type = "update")
    /\ ~IsAdmin(doc[r])
    => r \in recounted \/ ~IsAdmin(users[call[r].user])

AdminInv ==
    /\ TypeOK /\ CallFits /\ AdminRemains
    /\ \A r \in Requests : Spare(r) /\ Harmless(r)

\* A step that writes no user disturbs the other requests' checks in nothing.
LEMMA QuietAdmins ==
    ASSUME AdminInv, NEW r \in Requests, Step(r), users' = users
    PROVE  /\ AdminRemains'
           /\ \A o \in Requests \ {r} : Spare(o)' /\ Harmless(o)'
<1>1. /\ pc[r] \notin Answers
      /\ \A o \in Requests \ {r} : pc'[o] = pc[o] /\ call'[o] = call[o] /\ doc'[o] = doc[o]
      /\ recounted \subseteq recounted'
  BY Frame DEF AdminInv
<1>2. Admins' = Admins
  BY DEF Admins
<1>3. AdminRemains'
  <2>1. CASE Admins # {}
    BY <2>1, <1>2 DEF AdminRemains
  <2>2. CASE \E o \in recounted : pc[o] \in {"200", "204"}
    <3>1. PICK o \in recounted : pc[o] \in {"200", "204"}
      BY <2>2
    <3>2. o \in Requests \ {r}
      BY <1>1, <3>1 DEF AdminInv, TypeOK
    <3> QED BY <1>1, <3>1, <3>2 DEF AdminRemains
  <2> QED BY <2>1, <2>2 DEF AdminInv, AdminRemains
<1>4. ASSUME NEW o \in Requests \ {r} PROVE Spare(o)' /\ Harmless(o)'
  <2>1. Spare(o) /\ Harmless(o)
    BY DEF AdminInv
  <2>2. Changes(call[o], doc[o])' <=> Changes(call[o], doc[o])
    BY <1>1 DEF Changes, ChangesRole, ChangesStatus
  <2> QED BY <1>1, <1>2, <2>1, <2>2 DEF Spare, Harmless
<1> QED BY <1>3, <1>4

\* A write keeps the other requests' checks, or marks them.
LEMMA WritesAreNoticed ==
    ASSUME AdminInv, NEW r \in Requests, Step(r), NEW role, Overtake(r, role),
           NEW o \in Requests \ {r}
    PROVE  Spare(o)' /\ Harmless(o)'
<1>1. pc'[o] = pc[o] /\ call'[o] = call[o] /\ doc'[o] = doc[o] /\ recounted \subseteq recounted'
  BY Frame DEF AdminInv
<1>2. Spare(o) /\ Harmless(o)
  BY DEF AdminInv
<1>3. Outdated(o) => o \in recounted'
  BY DEF Overtake
<1>4. Spare(o)'
  <2> SUFFICES ASSUME pc[o] \in {"write", "remove"}, IsAdmin(doc[o]),
                      Changes(call[o], doc[o]), o \notin recounted'
               PROVE  \E a \in Admins' : a # call[o].user
    BY <1>1 DEF Spare, Changes, ChangesRole, ChangesStatus
  <2>1. PICK a \in Admins : a # call[o].user
    BY <1>1, <1>2 DEF Spare
  <2>2. IsAdmin(users'[a])
    BY <2>1, <1>3 DEF Outdated
  <2> QED BY <2>1, <2>2 DEF Admins
<1>5. Harmless(o)'
  BY <1>1, <1>2, <1>3 DEF Harmless, Outdated
<1> QED BY <1>4, <1>5

\* A write to one account that was no administrator's, or next to another one,
\* leaves an administrator; otherwise the writer is in `recounted`.
LEMMA AnotherAdmin ==
    ASSUME AdminInv, NEW r \in Requests, Step(r), pc'[r] \in {"200", "204"},
           NEW u \in Accounts, \A v \in Accounts \ {u} : users'[v] = users[v],
           users'[u] = users[u] \/ r \in recounted \/ ~IsAdmin(users[u]) \/ \E a \in Admins : a # u
    PROVE  AdminRemains'
<1>1. /\ pc[r] \notin Answers
      /\ \A o \in Requests \ {r} : pc'[o] = pc[o]
      /\ recounted \subseteq recounted'
  BY Frame DEF AdminInv
<1>2. CASE r \in recounted
  BY <1>1, <1>2 DEF AdminRemains
<1>3. CASE \E o \in recounted : pc[o] \in {"200", "204"}
  <2>1. PICK o \in recounted : pc[o] \in {"200", "204"}
    BY <1>3
  <2>2. o \in Requests \ {r}
    BY <1>1, <2>1 DEF AdminInv, TypeOK
  <2> QED BY <1>1, <2>1, <2>2 DEF AdminRemains
<1>4. CASE /\ r \notin recounted
           /\ ~\E o \in recounted : pc[o] \in {"200", "204"}
  <2>1. PICK a \in Admins : TRUE
    BY <1>4 DEF AdminInv, AdminRemains
  <2>2. \E b \in Admins : b # u \/ users'[u] = users[u]
    BY <2>1, <1>4 DEF Admins
  <2>3. \E b \in Accounts : IsAdmin(users'[b])
    BY <2>2 DEF Admins
  <2> QED BY <2>3 DEF AdminRemains, Admins
<1> QED BY <1>2, <1>3, <1>4

LEMMA AdminStep ==
    ASSUME AdminInv, NEW r \in Requests, Step(r)
    PROVE  AdminInv'
<1>1. TypeOK' /\ CallFits'
  BY TypeStep, FitsStep DEF AdminInv
<1>2. Spare(r) /\ Harmless(r) /\ TypeOK /\ CallFits /\ Fits(r)
  BY DEF AdminInv, CallFits
<1>3. ASSUME users' = users, Spare(r)', Harmless(r)' PROVE AdminInv'
  BY <1>1, <1>3, QuietAdmins DEF AdminInv
<1>4. CASE Authenticate(r)
  <2>1. pc'[r] \in {"authorize", "401"} /\ users' = users
    BY <1>4, <1>2 DEF Authenticate, TypeOK
  <2> QED BY <1>3, <2>1 DEF Spare, Harmless
<1>5. CASE Authorize(r)
  <2>1. users' = users
    BY <1>5 DEF Authorize
  <2>2. pc'[r] \in {"403", "role", "target", "insertRole", "find"}
           /\ (pc'[r] = "role" => call'[r].type = "create")
    <3>1. CASE pc' = [pc EXCEPT ![r] = "403"]
      BY <3>1, <1>2 DEF TypeOK
    <3>2. ASSUME NEW c \in Calls, call' = [call EXCEPT ![r] = c],
                 pc' = [pc EXCEPT ![r] = First[c.type]]
          PROVE  pc'[r] \in {"role", "target", "insertRole", "find"}
                    /\ (pc'[r] = "role" => call'[r].type = "create")
      <4>1. call'[r] = c /\ pc'[r] = First[c.type]
        BY <3>2, <1>2 DEF TypeOK
      <4> QED BY <4>1, FirstAwait
    <3> QED BY <1>5, <3>1, <3>2 DEF Authorize
  <2> QED BY <1>3, <2>1, <2>2 DEF Spare, Harmless
<1>6. CASE Target(r)
  <2>1. /\ users' = users /\ call' = call
        /\ doc'[r] = users[call[r].user]
        /\ pc'[r] \in {"404", "role", Checked(r, doc'[r])}
    BY <1>6, <1>2 DEF Target, TypeOK
  <2>2. Spare(r)'
    <3> SUFFICES ASSUME pc'[r] \in {"write", "remove"}
                 PROVE  ~(Changes(call'[r], doc'[r]) /\ IsAdmin(doc'[r]))
      BY DEF Spare
    <3>1. pc'[r] = Checked(r, doc'[r])
      BY <2>1
    <3> QED BY <2>1, <3>1, CheckedGoes
  <2> QED BY <1>3, <2>1, <2>2 DEF Harmless
<1>7. CASE RequireRole(r)
  <2>1. /\ users' = users /\ call' = call /\ doc' = doc /\ recounted' = recounted
        /\ pc[r] = "role"
        /\ pc'[r] \in {"422", "insert"} \/ (call[r].type = "update" /\ pc'[r] = Checked(r, doc[r]))
    BY <1>7, <1>2 DEF RequireRole, TypeOK, Fits
  <2>2. Spare(r)'
    <3> SUFFICES ASSUME pc'[r] \in {"write", "remove"}
                 PROVE  ~(Changes(call'[r], doc'[r]) /\ IsAdmin(doc'[r]))
      BY DEF Spare
    <3>1. pc'[r] = Checked(r, doc[r])
      BY <2>1
    <3> QED BY <2>1, <3>1, CheckedGoes
  <2>3. Harmless(r)'
    <3>1. pc'[r] # "role"
      BY <2>1, CheckedGoes
    <3> QED BY <2>1, <3>1, <1>2 DEF Harmless
  <2> QED BY <1>3, <2>1, <2>2, <2>3
<1>8. CASE CountAdmins(r)
  <2>1. /\ users' = users /\ call' = call /\ doc' = doc /\ recounted' = recounted
        /\ IsAdmin(doc[r])
        /\ pc'[r] \in {"409", "remove", "write"}
        /\ pc'[r] \in {"remove", "write"} => ~LastAdmin
    BY <1>8, <1>2 DEF CountAdmins, TypeOK, Fits
  <2>2. Spare(r)'
    BY <2>1 DEF Spare, LastAdmin, Admins
  <2> QED BY <1>3, <2>1, <2>2 DEF Harmless
<1>9. CASE WriteUser(r)
  <2>1. /\ pc[r] = "write" /\ pc'[r] \in {"200", "404"} /\ call' = call /\ doc' = doc
        /\ Overtake(r, call[r].role)
    BY <1>9, <1>2 DEF WriteUser, TypeOK
  <2>2. Spare(r)' /\ Harmless(r)'
    BY <2>1 DEF Spare, Harmless
  <2>3. CASE users' = users
    BY <1>3, <2>2, <2>3
  <2>4. CASE users' # users
    <3>1. call[r] \in Calls /\ call[r].type = "update"
      BY <1>2, <2>1 DEF Fits
    <3>2. call[r].user \in Accounts
      BY <3>1, CallFields
    <3>3. pc'[r] = "200" /\ \A v \in Accounts \ {call[r].user} : users'[v] = users[v]
      BY <1>9, <1>2, <2>4 DEF WriteUser, TypeOK
    <3>4. CASE Changes(call[r], doc[r])
      BY <1>1, <1>2, <2>1, <2>2, <3>2, <3>3, <3>4, AnotherAdmin, WritesAreNoticed
      DEF Spare, Harmless, AdminInv
    <3>5. CASE ~Changes(call[r], doc[r])
      <4>1. users' = [users EXCEPT ![call[r].user] =
                [status |-> users[call[r].user].status, role |-> users[call[r].user].role]]
        BY <1>9, <2>4, <3>5 DEF WriteUser, Changes
      <4>2. users[call[r].user] \in UserDocs
        BY <1>2, <3>2 DEF TypeOK
      <4>3. users' = users
        BY <1>2, <3>2, <4>1, <4>2 DEF TypeOK
      <4> QED BY <2>4, <4>3
    <3> QED BY <3>4, <3>5
  <2> QED BY <2>3, <2>4
<1>10. CASE RemoveUser(r)
  <2>1. /\ pc[r] = "remove" /\ pc'[r] = "204" /\ call' = call /\ doc' = doc
        /\ Overtake(r, Keep)
    BY <1>10, <1>2 DEF RemoveUser, TypeOK
  <2>2. Spare(r)' /\ Harmless(r)'
    BY <2>1 DEF Spare, Harmless
  <2>3. call[r] \in Calls /\ call[r].type = "delete"
    BY <1>2, <2>1 DEF Fits
  <2>4. call[r].user \in Accounts
    BY <2>3, CallFields
  <2>5. \A v \in Accounts \ {call[r].user} : users'[v] = users[v]
    BY <1>10, <1>2 DEF RemoveUser, TypeOK
  <2>6. AdminRemains'
    BY <1>2, <2>1, <2>3, <2>4, <2>5, AnotherAdmin DEF Spare, Harmless, Changes
  <2> QED BY <1>1, <2>1, <2>2, <2>6, WritesAreNoticed DEF AdminInv
<1>11. CASE InsertUser(r)
  <2>1. pc'[r] \in {"409", "201"}
    BY <1>11, <1>2 DEF InsertUser, TypeOK
  <2>2. Spare(r)' /\ Harmless(r)'
    BY <2>1 DEF Spare, Harmless
  <2>3. CASE UNCHANGED users
    BY <1>3, <2>2, <2>3
  <2>4. ASSUME NEW u \in Accounts, users[u].status = "none", Overtake(r, call[r].role),
               users' = [users EXCEPT ![u] = [status |-> call[r].status, role |-> call[r].role]]
        PROVE  AdminInv'
    <3>1. \A v \in Accounts : IsAdmin(users[v]) => users'[v] = users[v]
      BY <1>2, <2>4 DEF TypeOK
    <3>2. Admins \subseteq Admins'
      BY <3>1 DEF Admins
    <3>3. /\ pc[r] \notin Answers /\ recounted \subseteq recounted'
          /\ \A o \in Requests \ {r} : pc'[o] = pc[o]
      BY <1>2, Frame
    <3>4. AdminRemains'
      BY <1>2, <3>2, <3>3 DEF AdminInv, AdminRemains, TypeOK
    <3> QED BY <1>1, <2>2, <2>4, <3>4, WritesAreNoticed DEF AdminInv
  <2> QED BY <1>11, <2>3, <2>4 DEF InsertUser
<1>12. CASE RoleRoutes(r)
  <2>1. users' = users
    BY <1>12 DEF RoleRoutes, InsertRole, FindRole, WriteRole, CountUsers, RemoveRole
  <2>2. pc'[r] \in Answers \cup {"writeRole", "countUsers", "removeRole"}
    BY <1>12, <1>2 DEF RoleRoutes, InsertRole, FindRole, WriteRole, CountUsers, RemoveRole, TypeOK
  <2> QED BY <1>3, <2>1, <2>2 DEF Spare, Harmless
<1> QED BY <1>4, <1>5, <1>6, <1>7, <1>8, <1>9, <1>10, <1>11, <1>12 DEF Step, UserRoutes

LEMMA AdminInit == ASSUME Init PROVE AdminInv
  BY TypeInit DEF Init, AdminInv, AdminRemains, Spare, Harmless

LEMMA AdminStutter == ASSUME AdminInv, UNCHANGED vars PROVE AdminInv'
<1>1. TypeOK' /\ CallFits'
  BY Stutter DEF AdminInv
<1>2. AdminRemains'
  BY DEF AdminInv, AdminRemains, Admins, vars
<1>3. \A r \in Requests : Spare(r)' /\ Harmless(r)'
  BY DEF AdminInv, Spare, Harmless, Admins, Changes, ChangesRole, ChangesStatus, vars
<1> QED BY <1>1, <1>2, <1>3 DEF AdminInv

(***************************************************************************)
(* There is an active administrator, unless an update or delete went       *)
(* through whose check another request had made out of date.               *)
(***************************************************************************)
THEOREM AdminRemainsHolds == Spec => []AdminRemains
<1>1. AdminInv /\ [Next]_vars => AdminInv'
  BY AdminStep, AdminStutter, StepOrStutter
<1>2. AdminInv => AdminRemains
  BY DEF AdminInv
<1> QED BY AdminInit, <1>1, <1>2, PTL DEF Spec
-----------------------------------------------------------------------------
(***************************************************************************)
(* RolesExist.  A request that assigns a role has required it, and it is   *)
(* stored still (Required); one that removes a role has counted its users, *)
(* and there are none still (Unused).  Whoever breaks the one or the other *)
(* puts the request into `reassigned`.                                     *)
(***************************************************************************)
Assigns(r) ==
    \/ pc[r] \in {"count", "write"} /\ ChangesRole(call[r], doc[r])
    \/ pc[r] = "insert"

Required(r) == Assigns(r) => r \in reassigned \/ roles[call[r].role].stored

Unused(r) ==
    pc[r] = "removeRole" =>
        \/ r \in reassigned
        \/ \A u \in Accounts : Stored(users[u]) => users[u].role # call[r].role

RolesInv ==
    /\ TypeOK /\ CallFits /\ RolesExist
    /\ \A r \in Requests : Required(r) /\ Unused(r)

\* The account u is in order: what RolesExist says of it.
InOrder(u) ==
    Stored(users[u]) =>
        \/ roles[users[u].role].stored
        \/ \E r \in reassigned : pc[r] \in {"200", "201", "204"} /\ call[r].role = users[u].role

\* It stays so, if its role does not change and that role stays.
LEMMA StaysInOrder ==
    ASSUME RolesInv, NEW r \in Requests, Step(r), NEW u \in Accounts,
           Stored(users'[u]) => Stored(users[u]) /\ users'[u].role = users[u].role,
           roles[users[u].role].stored => roles'[users[u].role].stored
    PROVE  InOrder(u)'
<1>1. /\ pc[r] \notin Answers
      /\ \A o \in Requests \ {r} : pc'[o] = pc[o] /\ call'[o] = call[o]
      /\ reassigned \subseteq reassigned'
  BY Frame DEF RolesInv
<1>2. CASE ~Stored(users'[u])
  BY <1>2 DEF InOrder
<1>3. CASE Stored(users'[u]) /\ roles[users[u].role].stored
  BY <1>3 DEF InOrder
<1>4. CASE Stored(users'[u]) /\ ~roles[users[u].role].stored
  <2>1. PICK o \in reassigned : pc[o] \in {"200", "201", "204"} /\ call[o].role = users[u].role
    BY <1>4 DEF RolesInv, RolesExist
  <2>2. o \in Requests \ {r}
    BY <1>1, <2>1 DEF RolesInv, TypeOK
  <2> QED BY <1>1, <1>4, <2>1, <2>2 DEF InOrder
<1> QED BY <1>2, <1>3, <1>4

\* A step that writes neither users nor roles.
LEMMA QuietRoles ==
    ASSUME RolesInv, NEW r \in Requests, Step(r), UNCHANGED <<users, roles>>
    PROVE  /\ RolesExist'
           /\ \A o \in Requests \ {r} : Required(o)' /\ Unused(o)'
<1>1. RolesExist'
  BY StaysInOrder DEF InOrder, RolesExist
<1>2. ASSUME NEW o \in Requests \ {r} PROVE Required(o)' /\ Unused(o)'
  <2>1. /\ pc'[o] = pc[o] /\ call'[o] = call[o] /\ doc'[o] = doc[o]
        /\ reassigned \subseteq reassigned'
    BY Frame DEF RolesInv
  <2>2. Required(o) /\ Unused(o)
    BY DEF RolesInv
  <2> QED BY <2>1, <2>2 DEF Required, Unused, Assigns, ChangesRole
<1> QED BY <1>1, <1>2

\* A write of one user: every account but u stays, and u keeps its role or
\* gets one that the writer has required.
LEMMA UserWritten ==
    ASSUME RolesInv, NEW r \in Requests, Step(r), UNCHANGED roles,
           NEW role, Overtake(r, role), NEW u \in Accounts,
           \A v \in Accounts \ {u} : users'[v] = users[v],
           Stored(users'[u]) =>
                \/ Stored(users[u]) /\ users'[u].role = users[u].role
                \/ /\ users'[u].role = role /\ call'[r].role = role
                   /\ pc'[r] \in {"200", "201"}
                   /\ r \in reassigned \/ roles[role].stored
    PROVE  /\ RolesExist'
           /\ \A o \in Requests \ {r} : Required(o)' /\ Unused(o)'
<1>1. reassigned \subseteq reassigned'
  BY Frame DEF RolesInv
<1>2. ASSUME NEW v \in Accounts PROVE InOrder(v)'
  <2>1. CASE Stored(users'[v]) => Stored(users[v]) /\ users'[v].role = users[v].role
    BY <2>1, StaysInOrder
  <2>2. CASE ~(Stored(users'[v]) => Stored(users[v]) /\ users'[v].role = users[v].role)
    <3>1. v = u
      BY <2>2
    <3> QED BY <1>1, <2>2, <3>1 DEF InOrder
  <2> QED BY <2>1, <2>2
<1>3. ASSUME NEW o \in Requests \ {r} PROVE Required(o)' /\ Unused(o)'
  <2>1. pc'[o] = pc[o] /\ call'[o] = call[o] /\ doc'[o] = doc[o]
    BY Frame DEF RolesInv
  <2>2. Required(o) /\ Unused(o)
    BY DEF RolesInv
  <2>3. Required(o)'
    BY <1>1, <2>1, <2>2 DEF Required, Assigns, ChangesRole
  <2>4. Unused(o)'
    <3> SUFFICES ASSUME pc[o] = "removeRole", o \notin reassigned',
                        NEW v \in Accounts, Stored(users'[v]), users'[v].role = call[o].role
                 PROVE  FALSE
      BY <2>1 DEF Unused
    <3>1. call[o].role # role
      BY DEF Overtake
    <3>2. Stored(users[v]) /\ users[v].role = call[o].role
      BY <3>1
    <3> QED BY <1>1, <2>2, <3>2 DEF Unused
  <2> QED BY <2>3, <2>4
<1> QED BY <1>2, <1>3 DEF RolesExist, InOrder

LEMMA RolesStep ==
    ASSUME RolesInv, NEW r \in Requests, Step(r)
    PROVE  RolesInv'
<1>1. TypeOK' /\ CallFits'
  BY TypeStep, FitsStep DEF RolesInv
<1>2. Required(r) /\ Unused(r) /\ TypeOK /\ CallFits /\ Fits(r)
  BY DEF RolesInv, CallFits
<1>3. ASSUME UNCHANGED <<users, roles>>, Required(r)', Unused(r)' PROVE RolesInv'
  BY <1>1, <1>3, QuietRoles DEF RolesInv
<1>4. CASE Authenticate(r)
  <2>1. pc'[r] \in {"authorize", "401"} /\ UNCHANGED <<users, roles>>
    BY <1>4, <1>2 DEF Authenticate, TypeOK
  <2> QED BY <1>3, <2>1 DEF Required, Unused, Assigns
<1>5. CASE Authorize(r)
  <2>1. pc'[r] \in {"403", "role", "target", "insertRole", "find"} /\ UNCHANGED <<users, roles>>
    BY <1>5, <1>2, FirstAwait DEF Authorize, TypeOK
  <2> QED BY <1>3, <2>1 DEF Required, Unused, Assigns
<1>6. CASE Target(r)
  <2>1. /\ UNCHANGED <<users, roles>> /\ call' = call
        /\ doc'[r] = users[call[r].user]
        /\ pc'[r] \in {"404", "role"} \/ ~ChangesRole(call[r], doc'[r])
    BY <1>6, <1>2 DEF Target, TypeOK
  <2>2. pc'[r] \in {"404", "role", "409", "count", "remove", "write"}
    BY <1>6, <1>2, CheckedGoes DEF Target, TypeOK
  <2> QED BY <1>3, <2>1, <2>2 DEF Required, Unused, Assigns
<1>7. CASE RequireRole(r)
  <2>1. /\ UNCHANGED <<users, roles>> /\ call' = call /\ doc' = doc
        /\ pc'[r] = "422" \/ roles[call[r].role].stored
    BY <1>7, <1>2 DEF RequireRole, TypeOK
  <2>2. pc'[r] \in {"422", "insert", "409", "count", "remove", "write"}
    BY <1>7, <1>2, CheckedGoes DEF RequireRole, TypeOK
  <2> QED BY <1>3, <2>1, <2>2 DEF Required, Unused, Assigns
<1>8. CASE CountAdmins(r)
  <2>1. /\ UNCHANGED <<users, roles>> /\ call' = call /\ doc' = doc
        /\ reassigned' = reassigned
        /\ pc[r] = "count" /\ pc'[r] \in {"409", "remove", "write"}
    BY <1>8, <1>2 DEF CountAdmins, TypeOK
  <2> QED BY <1>2, <1>3, <2>1 DEF Required, Unused, Assigns, ChangesRole
<1>9. CASE WriteUser(r)
  <2>1. /\ pc[r] = "write" /\ pc'[r] \in {"200", "404"} /\ call' = call /\ doc' = doc
        /\ roles' = roles /\ Overtake(r, call[r].role)
    BY <1>9, <1>2 DEF WriteUser, TypeOK
  <2>2. Required(r)' /\ Unused(r)'
    BY <2>1 DEF Required, Unused, Assigns
  <2>3. call[r] \in Calls /\ call[r].type = "update"
    BY <1>2, <2>1 DEF Fits
  <2>4. call[r].user \in Accounts
    BY <2>3, CallFields
  <2>5. \A v \in Accounts \ {call[r].user} : users'[v] = users[v]
    BY <1>9, <1>2 DEF WriteUser, TypeOK
  <2>6. \/ users' = users
        \/ /\ Stored(users[call[r].user]) /\ pc'[r] = "200"
           /\ users'[call[r].user].role =
                IF ChangesRole(call[r], doc[r]) THEN call[r].role ELSE users[call[r].user].role
    BY <1>9, <1>2, <2>4 DEF WriteUser, TypeOK
  <2>7. ChangesRole(call[r], doc[r]) => r \in reassigned \/ roles[call[r].role].stored
    BY <1>2, <2>1 DEF Required, Assigns
  <2> QED BY <1>1, <2>1, <2>2, <2>4, <2>5, <2>6, <2>7, UserWritten DEF RolesInv
<1>10. CASE RemoveUser(r)
  <2>1. /\ pc[r] = "remove" /\ pc'[r] = "204" /\ roles' = roles /\ Overtake(r, Keep)
    BY <1>10, <1>2 DEF RemoveUser, TypeOK
  <2>2. Required(r)' /\ Unused(r)'
    BY <2>1 DEF Required, Unused, Assigns
  <2>3. call[r] \in Calls /\ call[r].type = "delete"
    BY <1>2, <2>1 DEF Fits
  <2>4. call[r].user \in Accounts
    BY <2>3, CallFields
  <2>5. /\ \A v \in Accounts \ {call[r].user} : users'[v] = users[v]
        /\ users'[call[r].user].status = "deleted"
    BY <1>10, <1>2, <2>4 DEF RemoveUser, TypeOK
  <2> QED BY <1>1, <2>1, <2>2, <2>4, <2>5, UserWritten DEF RolesInv
<1>11. CASE InsertUser(r)
  <2>1. /\ pc[r] = "insert" /\ pc'[r] \in {"409", "201"} /\ roles' = roles /\ call' = call
    BY <1>11, <1>2 DEF InsertUser, TypeOK
  <2>2. Required(r)' /\ Unused(r)'
    BY <2>1 DEF Required, Unused, Assigns
  <2>3. CASE UNCHANGED users
    BY <1>3, <2>1, <2>2, <2>3
  <2>4. ASSUME NEW u \in Accounts, users[u].status = "none", Overtake(r, call[r].role),
               pc' = [pc EXCEPT ![r] = "201"],
               users' = [users EXCEPT ![u] = [status |-> call[r].status, role |-> call[r].role]]
        PROVE  RolesInv'
    <3>1. /\ \A v \in Accounts \ {u} : users'[v] = users[v]
          /\ users'[u].role = call[r].role
      BY <1>2, <2>4 DEF TypeOK
    <3>2. r \in reassigned \/ roles[call[r].role].stored
      BY <1>2, <2>1 DEF Required, Assigns
    <3>3. pc'[r] = "201"
      BY <1>2, <2>4 DEF TypeOK
    <3> QED BY <1>1, <2>1, <2>2, <2>4, <3>1, <3>2, <3>3, UserWritten DEF RolesInv
  <2> QED BY <1>11, <2>3, <2>4 DEF InsertUser
<1>12. CASE InsertRole(r) \/ WriteRole(r)
  <2>1. /\ users' = users
        /\ pc'[r] \in {"409", "422", "201", "200"}
        /\ \A k \in Roles : roles[k].stored => roles'[k].stored
    <3>1. users' = users /\ pc'[r] \in {"409", "422", "201", "200"}
      BY <1>12, <1>2 DEF InsertRole, WriteRole, TypeOK
    <3>2. ASSUME NEW k \in Roles, roles[k].stored, InsertRole(r) PROVE roles'[k].stored
      BY <1>2, <3>2 DEF InsertRole, TypeOK
    <3>3. ASSUME NEW k \in Roles, roles[k].stored, WriteRole(r) PROVE roles'[k].stored
      <4>1. CASE roles' = roles
        BY <3>3, <4>1
      <4>2. ASSUME NEW g \in SUBSET Permissions, roles' = [roles EXCEPT ![call[r].role].grants = g]
            PROVE  roles'[k].stored
        BY <1>2, <3>3, <4>2 DEF TypeOK
      <4> QED BY <3>3, <4>1, <4>2 DEF WriteRole
    <3> QED BY <1>12, <3>1, <3>2, <3>3
  <2>2. RolesExist'
    BY <1>2, <2>1, StaysInOrder DEF RolesExist, InOrder, TypeOK
  <2>3. ASSUME NEW o \in Requests \ {r} PROVE Required(o)' /\ Unused(o)'
    <3>1. /\ pc'[o] = pc[o] /\ call'[o] = call[o] /\ doc'[o] = doc[o]
          /\ reassigned \subseteq reassigned'
      BY <1>2, Frame
    <3>2. Required(o) /\ Unused(o) /\ Fits(o)
      BY DEF RolesInv, CallFits
    <3>3. Assigns(o) => call[o].role \in Roles
      BY <3>2, CallFields DEF Assigns, ChangesRole, Fits
    <3> QED BY <2>1, <3>1, <3>2, <3>3 DEF Required, Unused, Assigns, ChangesRole
  <2>4. Required(r)' /\ Unused(r)'
    BY <2>1 DEF Required, Unused, Assigns
  <2> QED BY <1>1, <2>2, <2>3, <2>4 DEF RolesInv
<1>13. CASE FindRole(r)
  <2>1. pc'[r] \in {"403", "404", "422", "writeRole", "countUsers"} /\ UNCHANGED <<users, roles>>
    BY <1>13, <1>2 DEF FindRole, TypeOK
  <2> QED BY <1>3, <2>1 DEF Required, Unused, Assigns
<1>14. CASE CountUsers(r)
  <2>1. /\ UNCHANGED <<users, roles>> /\ call' = call
        /\ \/ pc'[r] = "409"
           \/ /\ pc'[r] = "removeRole"
              /\ ~\E u \in Accounts : Stored(users[u]) /\ users[u].role = call[r].role
    BY <1>14, <1>2 DEF CountUsers, TypeOK
  <2> QED BY <1>3, <2>1 DEF Required, Unused, Assigns
<1>15. CASE RemoveRole(r)
  <2>1. /\ pc[r] = "removeRole" /\ pc'[r] = "204" /\ call' = call /\ doc' = doc /\ users' = users
        /\ roles' = [roles EXCEPT ![call[r].role] = [stored |-> FALSE, grants |-> {}]]
        /\ reassigned' = reassigned \cup Assigning(call[r].role)
    BY <1>15, <1>2 DEF RemoveRole, TypeOK
  <2>2. Required(r)' /\ Unused(r)'
    BY <2>1 DEF Required, Unused, Assigns
  <2>3. ASSUME NEW u \in Accounts PROVE InOrder(u)'
    <3>1. users[u].role \in Roles
      BY <1>2 DEF TypeOK
    <3>2. CASE users[u].role # call[r].role
      BY <1>2, <2>1, <3>1, <3>2, StaysInOrder DEF TypeOK
    <3>3. CASE users[u].role = call[r].role
      BY <1>2, <2>1, <3>3 DEF InOrder, Unused
    <3> QED BY <3>2, <3>3
  <2>4. ASSUME NEW o \in Requests \ {r} PROVE Required(o)' /\ Unused(o)'
    <3>1. pc'[o] = pc[o] /\ call'[o] = call[o] /\ doc'[o] = doc[o]
      BY <1>2, Frame
    <3>2. Required(o) /\ Unused(o) /\ Fits(o)
      BY DEF RolesInv, CallFits
    <3>3. Unused(o)'
      BY <2>1, <3>1, <3>2 DEF Unused
    <3>4. ASSUME Assigns(o) PROVE call[o].role \in Roles /\ call[o].type \in {"create", "update"}
      BY <3>2, <3>4, CallFields DEF Assigns, ChangesRole, Fits
    <3>5. CASE Assigns(o) /\ call[o].role = call[r].role
      <4>1. o \in Assigning(call[r].role)
        BY <3>4, <3>5 DEF Assigning, Assigns
      <4> QED BY <2>1, <3>1, <3>3, <4>1 DEF Required
    <3>6. CASE Assigns(o) /\ call[o].role # call[r].role
      <4>1. roles'[call[o].role] = roles[call[o].role]
        BY <1>2, <2>1, <3>4, <3>6 DEF TypeOK
      <4> QED BY <2>1, <3>1, <3>2, <3>3, <3>6, <4>1 DEF Required
    <3>7. CASE ~Assigns(o)
      BY <3>1, <3>3, <3>7 DEF Required, Assigns, ChangesRole
    <3> QED BY <3>5, <3>6, <3>7
  <2> QED BY <1>1, <2>2, <2>3, <2>4 DEF RolesInv, RolesExist, InOrder
<1> QED BY <1>4, <1>5, <1>6, <1>7, <1>8, <1>9, <1>10, <1>11, <1>12, <1>13, <1>14, <1>15
        DEF Step, UserRoutes, RoleRoutes

LEMMA RolesInit == ASSUME Init PROVE RolesInv
  BY TypeInit DEF Init, RolesInv, RolesExist, Required, Unused, Assigns

LEMMA RolesStutter == ASSUME RolesInv, UNCHANGED vars PROVE RolesInv'
<1>1. TypeOK' /\ CallFits'
  BY Stutter DEF RolesInv
<1>2. RolesExist'
  BY DEF RolesInv, RolesExist, vars
<1>3. \A r \in Requests : Required(r)' /\ Unused(r)'
  BY DEF RolesInv, Required, Unused, Assigns, ChangesRole, vars
<1> QED BY <1>1, <1>2, <1>3 DEF RolesInv

(***************************************************************************)
(* A stored user's role is stored, unless it was removed under a request   *)
(* that assigned it, or assigned under one that removed it.                *)
(***************************************************************************)
THEOREM RolesExistHolds == Spec => []RolesExist
<1>1. RolesInv /\ [Next]_vars => RolesInv'
  BY RolesStep, RolesStutter, StepOrStutter
<1>2. RolesInv => RolesExist
  BY DEF RolesInv
<1> QED BY RolesInit, <1>1, <1>2, PTL DEF Spec
-----------------------------------------------------------------------------
(***************************************************************************)
(* The same two promises without their exception, for requests that take   *)
(* turns.  A request decides on a user from the read that its last checks  *)
(* go by until its write; the writes of users take turns when nobody       *)
(* writes one while another request decides.                               *)
(***************************************************************************)
Deciding(o) == pc[o] \in {"write", "remove"} \/ (pc[o] = "role" /\ call[o].type = "update")

UserWritesTakeTurns ==
    \A r, o \in Requests : pc[r] \in {"write", "remove", "insert"} /\ Deciding(o) => r = o

\* No role is about to be removed that a request has required and not assigned.
RolesTakeTurns ==
    \A r \in Requests : pc[r] = "removeRole" => Assigning(call[r].role) = {}

\* Who writes the history, and when.
LEMMA HistoryWrites ==
    ASSUME NEW r \in Requests, Step(r)
    PROVE  \/ recounted' = recounted /\ reassigned' = reassigned
           \/ pc[r] = "write" /\ Overtake(r, call[r].role)
           \/ pc[r] = "remove" /\ Overtake(r, Keep)
           \/ pc[r] = "insert" /\ Overtake(r, call[r].role)
           \/ /\ pc[r] = "removeRole" /\ recounted' = recounted
              /\ reassigned' = reassigned \cup Assigning(call[r].role)
<1>1. CASE Authenticate(r) \/ Authorize(r)
  BY <1>1 DEF Authenticate, Authorize
<1>2. CASE Target(r) \/ RequireRole(r) \/ CountAdmins(r)
  BY <1>2 DEF Target, RequireRole, CountAdmins
<1>3. CASE WriteUser(r)
  BY <1>3 DEF WriteUser
<1>4. CASE RemoveUser(r)
  BY <1>4 DEF RemoveUser
<1>5. CASE InsertUser(r)
  BY <1>5 DEF InsertUser
<1>6. CASE InsertRole(r) \/ FindRole(r) \/ WriteRole(r) \/ CountUsers(r)
  BY <1>6 DEF InsertRole, FindRole, WriteRole, CountUsers
<1>7. CASE RemoveRole(r)
  BY <1>7 DEF RemoveRole
<1> QED BY <1>1, <1>2, <1>3, <1>4, <1>5, <1>6, <1>7 DEF Step, UserRoutes, RoleRoutes

LEMMA NobodyRecounted ==
    ASSUME recounted = {}, UserWritesTakeTurns, NEW r \in Requests, Step(r)
    PROVE  recounted' = {}
<1>1. \A o \in Requests : Outdated(o) => Deciding(o)
  BY DEF Outdated, Deciding
<1>2. ASSUME pc[r] \in {"write", "remove", "insert"}
      PROVE  {o \in Requests \ {r} : Outdated(o)} = {}
  BY <1>1, <1>2 DEF UserWritesTakeTurns
<1> QED BY <1>2, HistoryWrites DEF Overtake

LEMMA NobodyReassigned ==
    ASSUME TypeOK, CallFits, reassigned = {}, RolesTakeTurns, NEW r \in Requests, Step(r)
    PROVE  reassigned' = {}
<1>1. ASSUME pc[r] \in {"write", "insert"}
      PROVE  {o \in Requests \ {r} : pc[o] = "removeRole" /\ call[o].role = call[r].role} = {}
  <2>1. r \in Assigning(call[r].role)
    BY <1>1 DEF Assigning, CallFits, Fits
  <2> QED BY <2>1 DEF RolesTakeTurns
<1>2. {o \in Requests \ {r} : pc[o] = "removeRole" /\ call[o].role = Keep} = {}
  <2>1. ASSUME NEW o \in Requests, pc[o] = "removeRole" PROVE call[o].role # Keep
    <3>1. call[o] \in Calls /\ call[o].type = "deleteRole"
      BY <2>1 DEF CallFits, Fits
    <3>2. call[o].role \in Roles
      BY <3>1, CallFields
    <3> QED BY <3>2, KeepIsNoRole
  <2> QED BY <2>1
<1>3. pc[r] = "removeRole" => Assigning(call[r].role) = {}
  BY DEF RolesTakeTurns
<1>4. CASE pc[r] = "write" /\ Overtake(r, call[r].role)
  BY <1>1, <1>4 DEF Overtake
<1>5. CASE pc[r] = "insert" /\ Overtake(r, call[r].role)
  BY <1>1, <1>5 DEF Overtake
<1>6. CASE pc[r] = "remove" /\ Overtake(r, Keep)
  BY <1>2, <1>6 DEF Overtake
<1>7. CASE pc[r] = "removeRole" /\ reassigned' = reassigned \cup Assigning(call[r].role)
  BY <1>3, <1>7
<1> QED BY <1>4, <1>5, <1>6, <1>7, HistoryWrites

(***************************************************************************)
(* "Debe existir al menos un administrador activo": always, when the       *)
(* writes of users take turns.                                             *)
(***************************************************************************)
THEOREM WritesInTurnKeepAnAdmin ==
    Spec /\ []UserWritesTakeTurns => [](Admins # {})
<1>1. Init => recounted = {}
  BY DEF Init
<1>2. recounted = {} /\ UserWritesTakeTurns /\ [Next]_vars => (recounted = {})'
  BY NobodyRecounted, StepOrStutter DEF vars
<1>3. AdminRemains /\ recounted = {} => Admins # {}
  BY DEF AdminRemains
<1> QED BY <1>1, <1>2, <1>3, AdminRemainsHolds, PTL DEF Spec

(***************************************************************************)
(* The role of a stored user is stored, so that permissions_of finds it:   *)
(* always, when no role is removed between its requirement and its         *)
(* assignment.                                                             *)
(***************************************************************************)
THEOREM RolesInTurnExist ==
    Spec /\ []RolesTakeTurns =>
        [](\A u \in Accounts : Stored(users[u]) => roles[users[u].role].stored)
<1>1. Init => reassigned = {}
  BY DEF Init
<1>2. RolesInv /\ reassigned = {} /\ RolesTakeTurns /\ [Next]_vars => (reassigned = {})'
  BY NobodyReassigned, StepOrStutter DEF RolesInv, vars
<1>3. RolesInv /\ [Next]_vars => RolesInv'
  BY RolesStep, RolesStutter, StepOrStutter
<1>4. RolesInv /\ reassigned = {} =>
        \A u \in Accounts : Stored(users[u]) => roles[users[u].role].stored
  BY DEF RolesInv, RolesExist
<1> QED BY <1>1, <1>2, <1>3, <1>4, RolesInit, PTL DEF Spec
=============================================================================
