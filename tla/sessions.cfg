\* Four requests on one account and a clock that passes the tolerance and the
\* life of a token.
SPECIFICATION Spec
CONSTANTS
    Requests = {r1, r2, r3, r4}
    Users = {u1}
    Leeway = 0
    Ttl = 2
    MaxTime = 2
SYMMETRY RequestSymmetry
CHECK_DEADLOCK FALSE
INVARIANTS
    TypeOK
    ClosedIsDead
    RefreshSpendsToken
    RefusalsAreExplained
    StaleSessionsAreExplained
PROPERTIES
    ReopeningIsExplained
    RotationIsOnce
