--------------------------- MODULE Startup_proofs ---------------------------
(***************************************************************************)
(* Proofs about Startup, for any sets of instances, versions, requests and *)
(* e-mails.                                                                *)
(***************************************************************************)
EXTENDS Startup, TLAPS

USE DEF Go, data, registrations, Admin, Viewer, RoleKeys, Starting, Serving, UserDocs

InstanceStep(i) ==
    \/ Start(i) \/ Crash(i) \/ Fail(i)
    \/ Ping(i) \/ CreateIndexes(i) \/ CreateLogIndexes(i)
    \/ LookAtRole(i) \/ CreateRole(i) \/ SyncAdmin(i)
    \/ CountUsers(i) \/ InsertAdmin(i)

RequestStep(r) == Register(r) \/ InsertUser(r)

LEMMA Steps ==
    ASSUME [Next]_vars
    PROVE  \/ \E i \in Instances : InstanceStep(i)
           \/ \E r \in Requests : RequestStep(r)
           \/ UNCHANGED vars
  BY DEF Next, InstanceStep, RequestStep

LEMMA RoleAt ==
    /\ Len(SystemRoles) = 3
    /\ \A n \in 1..3 : SystemRoles[n] \in {"admin", "manager", "viewer"}
    /\ \A n \in 1..3 : SystemRoles[n] = "admin" <=> n = 1
  BY DEF SystemRoles

LEMMA Keys == RoleKeys = {"admin", "manager", "viewer"}
  BY DEF SystemRoles

(***************************************************************************)
(* Where an instance is in SYSTEM_ROLES before it looks at the roles, and  *)
(* after.                                                                  *)
(***************************************************************************)
Positions ==
    \A i \in Instances :
        /\ pc[i] \in {"ping", "indexes", "logIndexes"} => at[i] = 1
        /\ pc[i] \in {"count", "insert", "serving"} => at[i] = 3

LEMMA NextRoleGoes ==
    ASSUME TypeOK, NEW i \in Instances, NextRole(i)
    PROVE  /\ \A j \in Instances \ {i} : pc'[j] = pc[j] /\ at'[j] = at[j]
           /\ \/ pc'[i] = "count" /\ at'[i] = 3 /\ at[i] = 3
              \/ pc'[i] = "look" /\ at'[i] = at[i] + 1 /\ at'[i] \in 1..3
           /\ pc' \in [Instances -> {"down"} \cup Starting \cup Serving]
           /\ at' \in [Instances -> 1..3]
<1>1. CASE at[i] = 3
  BY <1>1, RoleAt DEF TypeOK, NextRole
<1>2. CASE at[i] # 3
  <2>1. at[i] \in 1..3 /\ at[i] + 1 \in 1..3
    BY <1>2 DEF TypeOK
  <2> QED BY <1>2, <2>1, RoleAt DEF TypeOK, NextRole
<1> QED BY <1>1, <1>2

LEMMA WriteRoleTypes ==
    ASSUME TypeOK, NEW i \in Instances, NEW k \in {"admin", "manager", "viewer"}, WriteRole(i, k)
    PROVE  /\ roles' \in [RoleKeys -> Versions \cup {Nothing}]
           /\ overtaken' \subseteq Instances
           /\ roles'[k] = version[i]
           /\ \A j \in RoleKeys \ {k} : roles'[j] = roles[j]
<1> HIDE DEF RoleKeys
<1>1. k \in RoleKeys
  BY Keys
<1>2. overtaken' \subseteq Instances
  BY DEF TypeOK, WriteRole, Past
<1> QED BY <1>1, <1>2 DEF TypeOK, WriteRole

LEMMA InsertTypes ==
    ASSUME TypeOK, NEW by \in Instances \cup Requests, NEW e \in Emails,
           NEW role \in {Admin, Viewer}, Insert(by, e, role)
    PROVE  users' \subseteq UserDocs
<1>1. [by |-> by, email |-> e, role |-> role] \in UserDocs
  OBVIOUS
<1> HIDE DEF UserDocs
<1> QED BY <1>1 DEF TypeOK, Insert

LEMMA TypeInit == ASSUME Init PROVE TypeOK /\ Positions
<1> HIDE DEF RoleKeys, UserDocs
<1>1. roles \in [RoleKeys -> Versions \cup {Nothing}] /\ users \subseteq UserDocs
  BY DEF Init
<1>2. at \in [Instances -> 1..3]
  BY DEF Init
<1> QED BY <1>1, <1>2 DEF Init, TypeOK, Positions

LEMMA TypeStep ==
    ASSUME TypeOK, Positions, [Next]_vars
    PROVE  TypeOK' /\ Positions'
<1> HIDE DEF RoleKeys
<1>1. ASSUME NEW i \in Instances, Start(i) PROVE TypeOK' /\ Positions'
  BY <1>1 DEF Start, TypeOK, Positions
<1>2. ASSUME NEW i \in Instances, Crash(i) PROVE TypeOK' /\ Positions'
  BY <1>2 DEF Crash, TypeOK, Positions
<1>3. ASSUME NEW i \in Instances, Fail(i) PROVE TypeOK' /\ Positions'
  BY <1>3 DEF Fail, TypeOK, Positions
<1>4. ASSUME NEW i \in Instances, Ping(i) \/ CreateIndexes(i) \/ CreateLogIndexes(i)
      PROVE  TypeOK' /\ Positions'
  BY <1>4 DEF Ping, CreateIndexes, CreateLogIndexes, TypeOK, Positions
<1>5. ASSUME NEW i \in Instances, LookAtRole(i) PROVE TypeOK' /\ Positions'
  <2>1. CASE NextRole(i)
    BY <1>5, <2>1, NextRoleGoes DEF LookAtRole, TypeOK, Positions
  <2>2. CASE UNCHANGED at /\ pc' = [pc EXCEPT ![i] = "create"]
    BY <1>5, <2>2 DEF LookAtRole, TypeOK, Positions
  <2>3. CASE UNCHANGED at /\ pc' = [pc EXCEPT ![i] = "sync"]
    BY <1>5, <2>3 DEF LookAtRole, TypeOK, Positions
  <2> QED BY <1>5, <2>1, <2>2, <2>3 DEF LookAtRole
<1>6. ASSUME NEW i \in Instances, CreateRole(i) PROVE TypeOK' /\ Positions'
  <2>1. SystemRoles[at[i]] \in {"admin", "manager", "viewer"}
    BY RoleAt DEF TypeOK
  <2>2. /\ roles' \in [RoleKeys -> Versions \cup {Nothing}]
        /\ overtaken' \subseteq Instances
    BY <1>6, <2>1, WriteRoleTypes DEF CreateRole, TypeOK
  <2> QED BY <1>6, <2>2, NextRoleGoes DEF CreateRole, TypeOK, Positions
<1>7. ASSUME NEW i \in Instances, SyncAdmin(i) PROVE TypeOK' /\ Positions'
  <2>1. /\ roles' \in [RoleKeys -> Versions \cup {Nothing}]
        /\ overtaken' \subseteq Instances
    BY <1>7, WriteRoleTypes DEF SyncAdmin
  <2> QED BY <1>7, <2>1, NextRoleGoes DEF SyncAdmin, TypeOK, Positions
<1>8. ASSUME NEW i \in Instances, CountUsers(i) PROVE TypeOK' /\ Positions'
  BY <1>8 DEF CountUsers, TypeOK, Positions
<1>9. ASSUME NEW i \in Instances, InsertAdmin(i) PROVE TypeOK' /\ Positions'
  BY <1>9, InsertTypes, AdminHasAnEmail DEF InsertAdmin, TypeOK, Positions
<1>10. ASSUME NEW r \in Requests, Register(r) PROVE TypeOK' /\ Positions'
  BY <1>10 DEF Register, TypeOK, Positions
<1>11. ASSUME NEW r \in Requests, InsertUser(r) PROVE TypeOK' /\ Positions'
  <2>1. users' \subseteq UserDocs
    BY <1>11, InsertTypes DEF InsertUser, TypeOK
  <2> QED BY <1>11, <2>1 DEF InsertUser, TypeOK, Positions
<1>12. CASE UNCHANGED vars
  BY <1>12 DEF vars, TypeOK, Positions
<1> QED BY <1>1, <1>2, <1>3, <1>4, <1>5, <1>6, <1>7, <1>8, <1>9, <1>10, <1>11, <1>12, Steps
        DEF InstanceStep, RequestStep

(***************************************************************************)
(* The collections, the instances and the registrations keep their types.  *)
(***************************************************************************)
THEOREM TypeCorrect == Spec => []TypeOK
  BY TypeInit, TypeStep, PTL DEF Spec
-----------------------------------------------------------------------------
(***************************************************************************)
(* The order of an instance's startup, seen from the database: the default *)
(* role is there only after the index, and an instance past its index, or  *)
(* a registration past its look at the role, knows that the index exists.  *)
(***************************************************************************)
IndexFirst ==
    /\ roles["viewer"] # Nothing => indexed
    /\ \A i \in Instances :
        pc[i] \in {"logIndexes", "look", "create", "sync", "count", "insert", "serving"} => indexed
    /\ \A r \in Requests : rpc[r] = "insert" => roles["viewer"] # Nothing

\* Of all steps, only two write to `users`.
LEMMA IndexStep ==
    ASSUME TypeOK, Positions, IndexFirst, [Next]_vars
    PROVE  IndexFirst'
<1> HIDE DEF RoleKeys
<1>1. ASSUME NEW i \in Instances, Start(i) \/ Crash(i) \/ Fail(i) PROVE IndexFirst'
  BY <1>1 DEF Start, Crash, Fail, TypeOK, IndexFirst
<1>2. ASSUME NEW i \in Instances, Ping(i) \/ CreateIndexes(i) \/ CreateLogIndexes(i)
      PROVE  IndexFirst'
  BY <1>2 DEF Ping, CreateIndexes, CreateLogIndexes, TypeOK, IndexFirst
<1>3. ASSUME NEW i \in Instances, LookAtRole(i) PROVE IndexFirst'
  BY <1>3, NextRoleGoes DEF LookAtRole, TypeOK, IndexFirst
<1>4. ASSUME NEW i \in Instances, CreateRole(i) PROVE IndexFirst'
  <2>1. /\ indexed /\ indexed' = indexed /\ rpc' = rpc
        /\ pc[i] = "create" /\ NextRole(i)
    BY <1>4 DEF CreateRole, IndexFirst
  <2>2. roles["viewer"] # Nothing => roles'["viewer"] = roles["viewer"]
    <3>1. SystemRoles[at[i]] \in {"admin", "manager", "viewer"}
      BY RoleAt DEF TypeOK
    <3>2. CASE roles[SystemRoles[at[i]]] # Nothing
      BY <1>4, <3>2 DEF CreateRole
    <3>3. CASE roles[SystemRoles[at[i]]] = Nothing
      BY <1>4, <3>1, <3>3, WriteRoleTypes, Keys DEF CreateRole
    <3> QED BY <3>2, <3>3
  <2> QED BY <2>1, <2>2 DEF IndexFirst
<1>5. ASSUME NEW i \in Instances, SyncAdmin(i) PROVE IndexFirst'
  <2>1. /\ indexed /\ indexed' = indexed /\ rpc' = rpc
        /\ pc[i] = "sync" /\ NextRole(i)
    BY <1>5 DEF SyncAdmin, IndexFirst
  <2>2. roles'["viewer"] = roles["viewer"]
    BY <1>5, WriteRoleTypes, Keys DEF SyncAdmin
  <2> QED BY <2>1, <2>2 DEF IndexFirst
<1>6. ASSUME NEW i \in Instances, CountUsers(i) \/ InsertAdmin(i) PROVE IndexFirst'
  BY <1>6 DEF CountUsers, InsertAdmin, TypeOK, IndexFirst
<1>7. ASSUME NEW r \in Requests, Register(r) \/ InsertUser(r) PROVE IndexFirst'
  BY <1>7 DEF Register, InsertUser, HasDefaultRole, TypeOK, IndexFirst
<1>8. CASE UNCHANGED vars
  BY <1>8 DEF vars, IndexFirst
<1> QED BY <1>1, <1>2, <1>3, <1>4, <1>5, <1>6, <1>7, <1>8, Steps DEF InstanceStep, RequestStep

LEMMA UsersWritten ==
    ASSUME [Next]_vars
    PROVE  \/ users' = users /\ (finished' => finished \/ users # {}) /\ hasty' = hasty
           \/ \E i \in Instances : InsertAdmin(i)
           \/ \E r \in Requests : InsertUser(r)
<1> DEFINE Quiet == users' = users /\ (finished' => finished \/ users # {}) /\ hasty' = hasty
<1>1. ASSUME NEW i \in Instances, InstanceStep(i) PROVE Quiet \/ InsertAdmin(i)
  BY <1>1 DEF InstanceStep, Start, Crash, Fail, Ping, CreateIndexes, CreateLogIndexes,
        LookAtRole, CreateRole, SyncAdmin, CountUsers, Empty
<1>2. ASSUME NEW r \in Requests, RequestStep(r) PROVE Quiet \/ InsertUser(r)
  BY <1>2 DEF RequestStep, Register
<1>3. CASE UNCHANGED vars
  BY <1>3 DEF vars
<1> QED BY <1>1, <1>2, <1>3, Steps

LEMMA InsertKeepsUnique ==
    ASSUME EmailsAreUnique, indexed, NEW by, NEW e, NEW role, Insert(by, e, role)
    PROVE  EmailsAreUnique'
  BY DEF EmailsAreUnique, Insert, Taken

LEMMA UniqueStep ==
    ASSUME IndexFirst, EmailsAreUnique, [Next]_vars
    PROVE  EmailsAreUnique'
<1>1. ASSUME NEW i \in Instances, InsertAdmin(i) PROVE EmailsAreUnique'
  BY <1>1, InsertKeepsUnique DEF IndexFirst, InsertAdmin
<1>2. ASSUME NEW r \in Requests, InsertUser(r) PROVE EmailsAreUnique'
  BY <1>2, InsertKeepsUnique DEF IndexFirst, InsertUser
<1>3. CASE users' = users
  BY <1>3 DEF EmailsAreUnique
<1> QED BY <1>1, <1>2, <1>3, UsersWritten

(***************************************************************************)
(* No two accounts have one e-mail, whatever was indexed when.             *)
(***************************************************************************)
THEOREM EmailsStayUnique == Spec => []EmailsAreUnique
<1>1. Init => IndexFirst /\ EmailsAreUnique
  BY Keys DEF Init, IndexFirst, EmailsAreUnique
<1>2. /\ TypeOK /\ Positions /\ IndexFirst /\ EmailsAreUnique /\ [Next]_vars
      => TypeOK' /\ Positions' /\ IndexFirst' /\ EmailsAreUnique'
  BY TypeStep, IndexStep, UniqueStep
<1> QED BY TypeInit, <1>1, <1>2, PTL DEF Spec

(***************************************************************************)
(* The first account of a prepared database is an administrator's: an      *)
(* instance that finishes leaves an account behind, and it is the          *)
(* administrator's if there was none.                                      *)
(***************************************************************************)
SomebodyIsThere == finished => users # {}

LEMMA FirstAdminStep ==
    ASSUME SomebodyIsThere, FirstAdminExists, [Next]_vars
    PROVE  SomebodyIsThere' /\ FirstAdminExists'
<1>1. ASSUME NEW i \in Instances, InsertAdmin(i) PROVE SomebodyIsThere' /\ FirstAdminExists'
  <2> DEFINE admin == [by |-> i, email |-> AdminEmail, role |-> Admin]
  <2>1. users' = users \/ users' = users \cup {admin}
    BY <1>1 DEF InsertAdmin, Insert
  <2>2. users' # {}
    BY <1>1 DEF InsertAdmin, Insert, Taken
  <2>3. admin.role = Admin
    OBVIOUS
  <2>4. hasty' = hasty
    BY <1>1 DEF InsertAdmin
  <2> HIDE DEF admin
  <2> QED BY <2>1, <2>2, <2>3, <2>4 DEF SomebodyIsThere, FirstAdminExists
<1>2. ASSUME NEW r \in Requests, InsertUser(r) PROVE SomebodyIsThere' /\ FirstAdminExists'
  <2>1. users \subseteq users'
    BY <1>2 DEF InsertUser, Insert
  <2>2. finished' = finished /\ (hasty' <=> hasty \/ (~finished /\ users' # users))
    BY <1>2 DEF InsertUser
  <2> QED BY <2>1, <2>2 DEF SomebodyIsThere, FirstAdminExists
<1>3. CASE users' = users /\ (finished' => finished \/ users # {}) /\ hasty' = hasty
  BY <1>3 DEF SomebodyIsThere, FirstAdminExists
<1> QED BY <1>1, <1>2, <1>3, UsersWritten

(***************************************************************************)
(* There is no database with accounts and without an administrator, unless *)
(* somebody registered before an instance had prepared the data.           *)
(***************************************************************************)
THEOREM FirstAdminHolds == Spec => []FirstAdminExists
<1>1. Init => SomebodyIsThere /\ FirstAdminExists
  BY DEF Init, SomebodyIsThere, FirstAdminExists
<1> QED BY <1>1, FirstAdminStep, PTL DEF Spec
-----------------------------------------------------------------------------
(***************************************************************************)
(* AdminRoleIsCurrent, from the moment an instance has left the role       *)
(* behind, and already while it is about to create it: if somebody else    *)
(* does so first, it is with the same permissions or noticed.              *)
(***************************************************************************)
Agrees(i) == roles["admin"] = version[i] \/ i \in overtaken

PastAdmin(i) ==
    \/ pc[i] \in {"count", "insert", "serving"}
    \/ pc[i] \in {"look", "create", "sync"} /\ at[i] > 1
    \/ pc[i] = "create" /\ roles["admin"] # Nothing

AdminInv == \A i \in Instances : PastAdmin(i) => Agrees(i)

\* An instance that is not the writer keeps what it knows, or is overtaken.
LEMMA WriteAdminNoticed ==
    ASSUME TypeOK, Positions, AdminInv, NEW i \in Instances, NEW j \in Instances \ {i},
           NEW k \in {"admin", "manager", "viewer"}, WriteRole(i, k),
           pc'[j] = pc[j], at'[j] = at[j], version'[j] = version[j], PastAdmin(j)'
    PROVE  Agrees(j)'
<1>1. roles'[k] = version[i] /\ \A m \in RoleKeys \ {k} : roles'[m] = roles[m]
  BY WriteRoleTypes
<1>2. CASE k = "admin"
  <2>1. at[j] > 1 \/ pc[j] \in {"create", "sync", "count", "insert"}
    BY DEF PastAdmin, Positions, TypeOK
  <2>2. overtaken' = overtaken \cup Past(i)
    BY <1>2 DEF WriteRole
  <2> QED BY <1>1, <1>2, <2>1, <2>2 DEF Past, Agrees
<1>3. CASE k # "admin"
  <2>1. roles'["admin"] = roles["admin"] /\ overtaken' = overtaken
    BY <1>1, <1>3, Keys DEF WriteRole
  <2> QED BY <2>1 DEF AdminInv, PastAdmin, Agrees
<1> QED BY <1>2, <1>3

LEMMA AdminStep ==
    ASSUME TypeOK, Positions, AdminInv, [Next]_vars
    PROVE  AdminInv'
<1> HIDE DEF RoleKeys
<1>1. ASSUME NEW i \in Instances, Start(i) PROVE AdminInv'
  BY <1>1 DEF Start, TypeOK, AdminInv, PastAdmin, Agrees
<1>2. ASSUME NEW i \in Instances, Crash(i) \/ Fail(i) PROVE AdminInv'
  BY <1>2 DEF Crash, Fail, TypeOK, AdminInv, PastAdmin, Agrees
<1>3. ASSUME NEW i \in Instances, Ping(i) \/ CreateIndexes(i) \/ CreateLogIndexes(i)
      PROVE  AdminInv'
  BY <1>3 DEF Ping, CreateIndexes, CreateLogIndexes, TypeOK, Positions, AdminInv, PastAdmin, Agrees
<1>4. ASSUME NEW i \in Instances, LookAtRole(i) PROVE AdminInv'
  <2>1. UNCHANGED <<roles, version, overtaken>>
    BY <1>4 DEF LookAtRole
  <2>2. \A j \in Instances \ {i} : pc'[j] = pc[j] /\ at'[j] = at[j]
    BY <1>4, NextRoleGoes DEF LookAtRole, TypeOK
  <2>3. \A j \in Instances \ {i} : (PastAdmin(j) => Agrees(j))'
    BY <2>1, <2>2 DEF AdminInv, PastAdmin, Agrees
  <2>4. (PastAdmin(i) => Agrees(i))'
    <3>1. CASE at[i] > 1
      BY <1>4, <2>1, <3>1 DEF LookAtRole, AdminInv, PastAdmin, Agrees
    <3>2. CASE at[i] = 1
      <4>1. SystemRoles[at[i]] = "admin"
        BY <3>2, RoleAt
      <4>2. CASE roles["admin"] = Nothing
        BY <1>4, <2>1, <3>2, <4>1, <4>2 DEF LookAtRole, TypeOK, PastAdmin
      <4>3. CASE roles["admin"] # version[i] /\ roles["admin"] # Nothing
        BY <1>4, <2>1, <3>2, <4>1, <4>3 DEF LookAtRole, OutOfDate, TypeOK, PastAdmin
      <4>4. CASE roles["admin"] = version[i]
        BY <2>1, <4>4 DEF Agrees
      <4> QED BY <4>2, <4>3, <4>4
    <3> QED BY <3>1, <3>2 DEF TypeOK
  <2> QED BY <2>3, <2>4 DEF AdminInv
<1>5. ASSUME NEW i \in Instances, CreateRole(i) PROVE AdminInv'
  <2>1. version' = version /\ NextRole(i) /\ pc[i] = "create"
    BY <1>5 DEF CreateRole
  <2>2. SystemRoles[at[i]] \in {"admin", "manager", "viewer"}
    BY RoleAt DEF TypeOK
  <2>3. CASE roles[SystemRoles[at[i]]] # Nothing
    <3>1. UNCHANGED <<roles, overtaken>>
      BY <1>5, <2>3 DEF CreateRole
    <3>2. Agrees(i)
      <4>1. CASE at[i] = 1
        BY <2>1, <2>3, <4>1, RoleAt DEF AdminInv, PastAdmin
      <4>2. CASE at[i] > 1
        BY <2>1, <4>2 DEF AdminInv, PastAdmin
      <4> QED BY <4>1, <4>2 DEF TypeOK
    <3> QED BY <2>1, <3>1, <3>2, NextRoleGoes DEF AdminInv, PastAdmin, Agrees
  <2>4. CASE roles[SystemRoles[at[i]]] = Nothing
    <3>1. WriteRole(i, SystemRoles[at[i]])
      BY <1>5, <2>4 DEF CreateRole
    <3>2. Agrees(i)'
      <4>1. CASE at[i] = 1
        BY <2>1, <2>2, <3>1, <4>1, RoleAt, WriteRoleTypes DEF Agrees
      <4>2. CASE at[i] > 1
        <5>1. SystemRoles[at[i]] # "admin"
          BY <4>2, RoleAt DEF TypeOK
        <5>2. roles'["admin"] = roles["admin"] /\ overtaken' = overtaken
          BY <2>2, <3>1, <5>1, WriteRoleTypes, Keys DEF WriteRole
        <5> QED BY <2>1, <4>2, <5>2 DEF AdminInv, PastAdmin, Agrees
      <4> QED BY <4>1, <4>2 DEF TypeOK
    <3>3. ASSUME NEW j \in Instances \ {i}, PastAdmin(j)' PROVE Agrees(j)'
      BY <2>1, <2>2, <3>1, <3>3, NextRoleGoes, WriteAdminNoticed
    <3> QED BY <3>2, <3>3 DEF AdminInv
  <2> QED BY <2>3, <2>4
<1>6. ASSUME NEW i \in Instances, SyncAdmin(i) PROVE AdminInv'
  <2>1. version' = version /\ NextRole(i) /\ WriteRole(i, "admin")
    BY <1>6 DEF SyncAdmin
  <2>2. Agrees(i)'
    BY <2>1, WriteRoleTypes DEF Agrees
  <2>3. ASSUME NEW j \in Instances \ {i}, PastAdmin(j)' PROVE Agrees(j)'
    BY <2>1, <2>3, NextRoleGoes, WriteAdminNoticed
  <2> QED BY <2>2, <2>3 DEF AdminInv
<1>7. ASSUME NEW i \in Instances, CountUsers(i) \/ InsertAdmin(i) PROVE AdminInv'
  BY <1>7 DEF CountUsers, InsertAdmin, TypeOK, AdminInv, PastAdmin, Agrees
<1>8. ASSUME NEW r \in Requests, Register(r) \/ InsertUser(r) PROVE AdminInv'
  BY <1>8 DEF Register, InsertUser, TypeOK, AdminInv, PastAdmin, Agrees
<1>9. CASE UNCHANGED vars
  BY <1>9 DEF vars, AdminInv, PastAdmin, Agrees
<1> QED BY <1>1, <1>2, <1>3, <1>4, <1>5, <1>6, <1>7, <1>8, <1>9, Steps DEF InstanceStep, RequestStep

(***************************************************************************)
(* An instance that prepared the data finds admin with the permissions of  *)
(* its own version, unless another version wrote it since.                 *)
(***************************************************************************)
THEOREM AdminRoleStaysCurrent == Spec => []AdminRoleIsCurrent
<1>1. Init => AdminInv
  BY DEF Init, AdminInv, PastAdmin
<1>2. /\ TypeOK /\ Positions /\ AdminInv /\ [Next]_vars
      => TypeOK' /\ Positions' /\ AdminInv'
  BY TypeStep, AdminStep
<1>3. AdminInv => AdminRoleIsCurrent
  BY DEF AdminInv, PastAdmin, Agrees, AdminRoleIsCurrent
<1> QED BY TypeInit, <1>1, <1>2, <1>3, PTL DEF Spec
-----------------------------------------------------------------------------
(***************************************************************************)
(* What is left without the exceptions.  When every process that runs is   *)
(* of one version at a time (the old ones are stopped before the new ones  *)
(* start), none is overtaken; when no process goes on serving after its    *)
(* preparation failed, nobody registers too early.                         *)
(***************************************************************************)
OneVersionRuns ==
    \A i, j \in Instances : pc[i] # "down" /\ pc[j] # "down" => version[i] = version[j]

NobodyServesUnprepared == \A i \in Instances : pc[i] # "unprepared"

OvertakenAreDown == \A i \in overtaken : pc[i] = "down"

LEMMA OvertakenStep ==
    ASSUME TypeOK, OvertakenAreDown, OneVersionRuns, [Next]_vars
    PROVE  OvertakenAreDown'
<1> HIDE DEF RoleKeys
<1>1. ASSUME NEW i \in Instances, Start(i) \/ Crash(i) PROVE OvertakenAreDown'
  BY <1>1 DEF Start, Crash, TypeOK, OvertakenAreDown
<1>2. ASSUME NEW i \in Instances,
             \/ Fail(i) \/ Ping(i) \/ CreateIndexes(i) \/ CreateLogIndexes(i)
             \/ CountUsers(i) \/ InsertAdmin(i)
      PROVE  OvertakenAreDown'
  BY <1>2 DEF Fail, Ping, CreateIndexes, CreateLogIndexes, CountUsers, InsertAdmin,
              TypeOK, OvertakenAreDown
<1>3. ASSUME NEW i \in Instances, LookAtRole(i) PROVE OvertakenAreDown'
  <2>1. /\ overtaken' = overtaken /\ pc[i] = "look"
        /\ \A j \in Instances \ {i} : pc'[j] = pc[j]
    BY <1>3, NextRoleGoes DEF LookAtRole, TypeOK
  <2> QED BY <2>1 DEF TypeOK, OvertakenAreDown
<1>4. ASSUME NEW i \in Instances, CreateRole(i) \/ SyncAdmin(i) PROVE OvertakenAreDown'
  <2>1. /\ pc[i] \in {"create", "sync"}
        /\ \A j \in Instances \ {i} : pc'[j] = pc[j]
        /\ overtaken' \in {overtaken, overtaken \cup Past(i)}
    BY <1>4, NextRoleGoes DEF CreateRole, SyncAdmin, WriteRole
  <2>2. \A j \in Past(i) : j \in Instances \ {i} /\ pc[j] = "down"
    BY <2>1 DEF Past, OneVersionRuns
  <2>3. i \notin overtaken
    BY <2>1 DEF OvertakenAreDown
  <2> QED BY <2>1, <2>2, <2>3 DEF TypeOK, OvertakenAreDown
<1>5. ASSUME NEW r \in Requests, Register(r) \/ InsertUser(r) PROVE OvertakenAreDown'
  BY <1>5 DEF Register, InsertUser, OvertakenAreDown
<1>6. CASE UNCHANGED vars
  BY <1>6 DEF vars, OvertakenAreDown
<1> QED BY <1>1, <1>2, <1>3, <1>4, <1>5, <1>6, Steps DEF InstanceStep, RequestStep

(***************************************************************************)
(* "admin si se sincroniza siempre": with one version at a time, admin has *)
(* the permissions of the version that serves.                             *)
(***************************************************************************)
THEOREM OneVersionAtATimeKeepsAdminCurrent ==
    Spec /\ []OneVersionRuns =>
        [](\A i \in Instances : pc[i] \in {"count", "insert", "serving"} => roles[Admin] = version[i])
<1>1. Init => OvertakenAreDown
  BY DEF Init, OvertakenAreDown
<1>2. TypeOK /\ OvertakenAreDown /\ OneVersionRuns /\ [Next]_vars => OvertakenAreDown'
  BY OvertakenStep
<1>3. OvertakenAreDown /\ AdminRoleIsCurrent =>
        \A i \in Instances : pc[i] \in {"count", "insert", "serving"} => roles[Admin] = version[i]
  BY DEF OvertakenAreDown, AdminRoleIsCurrent
<1> QED BY <1>1, <1>2, <1>3, TypeCorrect, AdminRoleStaysCurrent, PTL DEF Spec

(***************************************************************************)
(* Who serves with the data prepared has seen an account, and so has every *)
(* registration such a process took.                                       *)
(***************************************************************************)
PreparedFirst ==
    /\ ~hasty
    /\ \A i \in Instances : pc[i] = "serving" => finished
    /\ \A r \in Requests : rpc[r] = "insert" => finished

LEMMA PreparedStep ==
    ASSUME TypeOK, PreparedFirst, NobodyServesUnprepared, [Next]_vars
    PROVE  PreparedFirst'
<1> HIDE DEF RoleKeys
<1>1. ASSUME NEW i \in Instances, Start(i) \/ Crash(i) \/ Fail(i) PROVE PreparedFirst'
  BY <1>1 DEF Start, Crash, Fail, TypeOK, PreparedFirst
<1>2. ASSUME NEW i \in Instances, Ping(i) \/ CreateIndexes(i) \/ CreateLogIndexes(i)
      PROVE  PreparedFirst'
  BY <1>2 DEF Ping, CreateIndexes, CreateLogIndexes, TypeOK, PreparedFirst
<1>3. ASSUME NEW i \in Instances, LookAtRole(i) \/ CreateRole(i) \/ SyncAdmin(i)
      PROVE  PreparedFirst'
  <2>1. UNCHANGED <<rpc, finished, hasty>>
    BY <1>3 DEF LookAtRole, CreateRole, SyncAdmin
  <2>2. \A j \in Instances : pc'[j] = "serving" => pc[j] = "serving"
    BY <1>3, NextRoleGoes DEF LookAtRole, CreateRole, SyncAdmin, TypeOK
  <2> QED BY <2>1, <2>2 DEF PreparedFirst
<1>4. ASSUME NEW i \in Instances, CountUsers(i) \/ InsertAdmin(i) PROVE PreparedFirst'
  <2>1. UNCHANGED <<rpc, hasty>>
    BY <1>4 DEF CountUsers, InsertAdmin
  <2>2. finished => finished'
    BY <1>4 DEF CountUsers, InsertAdmin
  <2>3. \A j \in Instances : pc'[j] = "serving" => pc[j] = "serving" \/ finished'
    <3>1. CASE InsertAdmin(i)
      BY <3>1 DEF InsertAdmin
    <3>2. CASE CountUsers(i) /\ Empty
      BY <3>2 DEF CountUsers, TypeOK
    <3>3. CASE CountUsers(i) /\ ~Empty
      BY <3>3 DEF CountUsers
    <3> QED BY <1>4, <3>1, <3>2, <3>3
  <2> QED BY <2>1, <2>2, <2>3 DEF PreparedFirst
<1>5. ASSUME NEW r \in Requests, Register(r) PROVE PreparedFirst'
  BY <1>5 DEF Register, TypeOK, PreparedFirst, NobodyServesUnprepared
<1>6. ASSUME NEW r \in Requests, InsertUser(r) PROVE PreparedFirst'
  BY <1>6 DEF InsertUser, TypeOK, PreparedFirst
<1>7. CASE UNCHANGED vars
  BY <1>7 DEF vars, PreparedFirst
<1> QED BY <1>1, <1>2, <1>3, <1>4, <1>5, <1>6, <1>7, Steps DEF InstanceStep, RequestStep

(***************************************************************************)
(* A database with accounts but without an administrator takes a process   *)
(* that serves although preparing its data failed, which _prepare_data     *)
(* allows ("Un fallo no impide arrancar"); without one there is always the *)
(* first administrator.                                                    *)
(***************************************************************************)
THEOREM PreparedServersHaveAnAdmin ==
    Spec /\ []NobodyServesUnprepared => [](users # {} => \E u \in users : u.role = Admin)
<1>1. Init => PreparedFirst
  BY DEF Init, PreparedFirst
<1>2. TypeOK /\ PreparedFirst /\ NobodyServesUnprepared /\ [Next]_vars => PreparedFirst'
  BY PreparedStep
<1>3. PreparedFirst /\ FirstAdminExists => (users # {} => \E u \in users : u.role = Admin)
  BY DEF PreparedFirst, FirstAdminExists
<1> QED BY <1>1, <1>2, <1>3, TypeCorrect, FirstAdminHolds, PTL DEF Spec
=============================================================================
