\* The claim of checkouts.py:1286.
SPECIFICATION Spec
CONSTANTS
    MaxVersion = 1
    MaxAttempt = 1
    MaxTry = 1
    Workers = {w1}
    RoundBound = 1
INVARIANT NeverHalfCancelled
CHECK_DEADLOCK FALSE
