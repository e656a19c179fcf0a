CONSTANTS
    Attempts = {1, 2}
    Dinar = {2}
    Total = 2
    MayCrash = TRUE
    MayRefuse = FALSE
SPECIFICATION Spec
CHECK_DEADLOCK FALSE
INVARIANTS
    NeverOverCollected
    UnusedMoneyIsOwed
    DepositSpentOnce
    FundedByRealMoney
    ReturnedOnce
PROPERTIES
    ImplementsCustody
