CONSTANTS
    s1 = s1
    s2 = s2
    Sessions <- TwoSessions
    Operations <- AllOperations
    Locks <- LocksOf
    Rank <- RankOf
    Idle = Idle
    MaxRank = 100
    LastShipment = 2
SPECIFICATION Spec
SYMMETRY Symmetry
INVARIANT OnlyMailWaitsInACircle
