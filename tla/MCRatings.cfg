CONSTANTS
    Window = 2
SPECIFICATION RatingsSpec
CHECK_DEADLOCK FALSE
INVARIANTS
    RatedBlind
PROPERTIES
    EveryRatingIsStamped
