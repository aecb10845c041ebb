\* One command, every delivery of it, under fairness.
SPECIFICATION FairSpec
CONSTANTS
    Commands = {c1}
    Workers = {w1, w2}
    MaxAttempts = 3
    LeaseSeconds = 2
    BackoffBase = 1
    BackoffCap = 2
    BatchSize = 1
    MaxDelay = 1
    MaxAge = 1
    MaxRevivals = 1
INVARIANT TypeOK
INVARIANT HandOutsAreBounded
PROPERTY SupersededIsFenced
PROPERTY EverythingEnds
CHECK_DEADLOCK FALSE
