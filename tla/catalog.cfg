\* Up to five documents in pages of two, so that there is a page in the middle
\* and one that is not full, and two requests that write meanwhile.
SPECIFICATION Spec
CONSTANTS
    Requests = {r1, r2}
    Size = 5
    PageSize = 2
SYMMETRY RequestSymmetry
CHECK_DEADLOCK FALSE
INVARIANTS
    NoRepeat
    NoOmission
