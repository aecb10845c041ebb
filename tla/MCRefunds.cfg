SPECIFICATION FairSpec
CONSTANTS
    MaxRefunds = 2
    Captured = 2
    Rounds = 2
    Workers = {w1, w2}
    MaxFaults = 1
    NoJob = NoJob
    Weathers <- AllWeathers
INVARIANTS TypeOK SentAtMostOnce OneOpenRefund AbsenceIsTrue ReservedWithinCapture OrderTellsSettlement BooksAgree
PROPERTY RefundIsAnswered
CHECK_DEADLOCK FALSE
