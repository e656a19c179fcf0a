CONSTANTS
    Requests <- MCRequests
    Journeys <- MCJourneys
    Candidates <- MCCandidates
    Legs <- MCLegs
    Covered <- MCCovered
    Weight <- MCWeight
    Capacity <- MCCapacity
    Boosts = {0, 1}
SPECIFICATION FairSpec
CHECK_DEADLOCK FALSE
INVARIANTS
    OversoldOnlyByLateMoney
    TakenByOneDeal
    BoostPromisedOnce
    CancelledJourneyIsCleared
PROPERTIES
    ReservationEnds
