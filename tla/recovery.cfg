\* Three requests on one account. Two failures lock it, for two ticks; a link
\* lives for one, so that it may expire between any two awaits of a reset.
SPECIFICATION Spec
CONSTANTS
    Requests = {r1, r2, r3}
    MaxFailed = 2
    Lockout = 2
    ResetTtl = 1
    MaxTime = 2
SYMMETRY RequestSymmetry
CHECK_DEADLOCK FALSE
INVARIANTS
    TypeOK
    LockAfterMaxFailed
    PasswordIsTheLastChosen
    LinkIsUsedOnce
    OneUsableLink
PROPERTIES
    LockHolds
