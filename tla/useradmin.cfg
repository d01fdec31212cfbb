\* Two requests and three accounts, any of them the actor of either request or
\* its target, and one of them possibly not created yet.
SPECIFICATION Spec
CONSTANTS
    Requests = {r1, r2}
    Accounts = {u1, u2, u3}
    CustomRoles = {custom}
SYMMETRY UserAdminSymmetry
CHECK_DEADLOCK FALSE
INVARIANTS
    TypeOK
    AdminRemains
    RolesExist
