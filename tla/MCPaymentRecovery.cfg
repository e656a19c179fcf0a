CONSTANTS
    Attempts = {1}
    Dinar = {}
    Total = 1
    MayCrash = TRUE
    MayRefuse = TRUE
    MaxPolls = 3
    MaxDrives = 3
    Escalation = 2
SPECIFICATION RecoverySpec
CHECK_DEADLOCK FALSE
PROPERTIES
    PaidIsRecorded
    OwedIsReturned
