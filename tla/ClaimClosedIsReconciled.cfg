\* The claim of PROJECT_SPECIFICATION.md:1249.
SPECIFICATION FairSweepSpec
CONSTANTS
    MaxVersion = 1
    MaxAttempt = 1
    MaxTry = 1
    Workers = {w1}
    RoundBound = 1
PROPERTY ClosedIsReconciled
CHECK_DEADLOCK FALSE
