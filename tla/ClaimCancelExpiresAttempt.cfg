\* The claim of checkouts.py:1181.
SPECIFICATION Spec
CONSTANTS
    MaxVersion = 1
    MaxAttempt = 1
    MaxTry = 1
    Workers = {w1}
    RoundBound = 1
INVARIANT CancelExpiresAttempt
CHECK_DEADLOCK FALSE
