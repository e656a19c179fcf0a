CONSTANTS
    Captured <- MCCaptured
    Award = 2
    MaxAttempts = 2
    MaxDisbursements = 2
    MaxLosses = 1
    MaxCrashes = 1
    MaxRefunds = 1
    Readers = {webhook, reconcile}
SPECIFICATION Spec
CHECK_DEADLOCK FALSE
SYMMETRY AnyReader
CONSTRAINT BoundedFaults
INVARIANTS
    TransferredOnce
    CaptureSpentOnce
    AwardExceededOnlyByFault
    BankPaidOnce
