\* Four requests of any kind on one customer: a charge, two payments that race
\* and a delete, or any other four.
SPECIFICATION Spec
CONSTANTS
    Requests = {r1, r2, r3, r4}
    Customers = {c1}
    Amounts = {1, 2}
    Limits = {0, 2}
SYMMETRY RequestSymmetry
CHECK_DEADLOCK FALSE
INVARIANTS
    TypeOK
    AnswersAreTruthful
    BalanceIsHistoryPlusUnrecorded
    OverdraftNeedsOvertaking
    DebtDeletedNeedsOvertaking
    OverLimitWasWarned
PROPERTY ImplementsLedger
