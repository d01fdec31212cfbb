\* Two instances, each of either version and restarted at will, and two
\* registrations, also with the address of the first administrator.
SPECIFICATION Spec
CONSTANTS
    Instances = {i1, i2}
    Versions = {v1, v2}
    Requests = {r1, r2}
    Emails = {admin_mail, other_mail}
    AdminEmail = admin_mail
SYMMETRY StartupSymmetry
INVARIANTS
    EmailsAreUnique
    AdminRoleIsCurrent
    FirstAdminExists
