\* The claim of states.py:497.
SPECIFICATION FairSweepSpec
CONSTANTS
    MaxVersion = 1
    MaxAttempt = 1
    MaxTry = 2
    Workers = {w1}
    RoundBound = 1
PROPERTY ContradictionIsAdjudicated
CHECK_DEADLOCK FALSE
