SPECIFICATION ReportedSpec
CONSTANTS
    MaxRefunds = 2
    Captured = 2
    Rounds = 2
    Workers = {w1, w2}
    MaxFaults = 1
    NoJob = NoJob
    Weathers <- Unfulfilled
PROPERTY AbsentIsAdmittedAnew
CHECK_DEADLOCK FALSE
