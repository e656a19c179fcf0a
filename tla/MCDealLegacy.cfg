CONSTANTS
    Buffer = 1
    Protection = 1
    Floor = 4
    MaxDisputes = 2
    LastHandover = 2
    MaxTime = 4
    MaxFailed = 2
    MaxLockouts = 2
    Lockout = 1
    Versioned = FALSE
    Reward = 2
    Fee = 2
    FeeMode = "platform_waives"
    FirstCheck = 1
    Cutoff = 1
    LateBps = 1000
    LateCap = 1
SPECIFICATION SystemSpec
CHECK_DEADLOCK FALSE
INVARIANTS
    HandoverMatchesCodes
    DisputeHoldsMoney
    EndedDealIsClosed
PROPERTIES
    RefundIsFinal
