CONSTANTS
    Buffer = 1
    Protection = 1
    Floor = 4
    MaxDisputes = 2
    LastHandover = 1
    MaxTime = 4
    MaxFailed = 1
    MaxLockouts = 1
    Lockout = 1
    Versioned = TRUE
    Reward = 2
    Fee = 1
    FeeMode = "proportional"
    FirstCheck = 1
    Cutoff = 1
    LateBps = 1000
    LateCap = 1
SPECIFICATION FairSystemSpec
CHECK_DEADLOCK FALSE
INVARIANTS
    PaidOnlyWhenEarned
    CaptureCoversPromises
    PaidAtMostOnce
PROPERTIES
    ImplementsEscrow
    BufferEnds
    ProtectionEnds
