\* A session that is closed, and reopened with the token before its last.
SPECIFICATION Spec
CONSTANTS
    Requests = {r1, r2, r3, r4}
    Users = {u1}
    Leeway = 1
    Ttl = 2
    MaxTime = 1
SYMMETRY RequestSymmetry
CHECK_DEADLOCK FALSE
INVARIANT ClosedIsNeverForgiven
