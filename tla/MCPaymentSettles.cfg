\* One attempt, two reconciliation rounds, under fairness.
SPECIFICATION FairSpec
CONSTANTS
    MaxVersion = 1
    MaxAttempt = 1
    MaxTry = 1
    Workers = {w1}
    RoundBound = 2
PROPERTY UncertainSettles
CHECK_DEADLOCK FALSE
