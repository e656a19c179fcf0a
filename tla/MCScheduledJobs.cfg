CONSTANTS
    j1 = j1
    w1 = w1
    w2 = w2
    s1 = s1
    Jobs <- OneJob
    Workers <- TwoWorkers
    Schedulers <- OneScheduler
    MaxAttempts = 2
    BatchLimit = 1
    MaxCrashes = 1
    MaxReschedules = 1
SPECIFICATION FairSpec
INVARIANTS
    NoLostObligation
    ExclusiveUntilOvertaken
PROPERTY
    EveryJobSettles
