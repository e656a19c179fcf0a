CONSTANTS
    MaxCents = 4
    Rates = {0, 1000, 3333, 9999, 10000}
SPECIFICATION DecisionSpec
CHECK_DEADLOCK FALSE
INVARIANTS
    PlanReconciles
    NothingPaidTwice
    LargerRefundSmallerPayout
    LateCompensationIsWhole
