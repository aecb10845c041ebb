\* The claim of stale_capture.py:79.
SPECIFICATION Spec
CONSTANTS
    MaxVersion = 1
    MaxAttempt = 1
    MaxTry = 1
    Workers = {w1}
    RoundBound = 1
INVARIANT ReturnedMoneyIsNotRefunded
CHECK_DEADLOCK FALSE
