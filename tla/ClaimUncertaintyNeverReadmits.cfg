SPECIFICATION Spec
CONSTANTS
    MaxRefunds = 2
    Captured = 2
    Rounds = 2
    Workers = {w1, w2}
    MaxFaults = 1
    NoJob = NoJob
    Weathers <- Reported
PROPERTY UncertaintyNeverReadmits
CHECK_DEADLOCK FALSE
