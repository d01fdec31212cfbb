SPECIFICATION Spec
CONSTANTS
    Requests = {r1, r2, r3}
    Customers = {c1}
    Amounts = {1, 2}
    Limits = {0, 2}
SYMMETRY RequestSymmetry
CHECK_DEADLOCK FALSE
INVARIANT PaymentNeverOverdraws
