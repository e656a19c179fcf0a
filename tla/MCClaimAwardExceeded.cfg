CONSTANTS
    Captured <- MCCaptured
    Award = 2
    MaxAttempts = 2
    MaxDisbursements = 2
    MaxLosses = 1
    MaxCrashes = 1
    MaxRefunds = 1
    Readers = {"webhook"}
SPECIFICATION Spec
CHECK_DEADLOCK FALSE
INVARIANT AwardNeverExceeded
