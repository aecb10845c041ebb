\* Two versions of the checkout, each with its attempt, and two workers.
SPECIFICATION Spec
CONSTANTS
    MaxVersion = 2
    MaxAttempt = 2
    MaxTry = 1
    RoundBound = 1
    Workers = {w1, w2}
SYMMETRY WorkerSymmetry
CONSTRAINT SecondAttemptIsQuiet
INVARIANT OneFulfilment
INVARIANT PendingIsUnsent
PROPERTY MoneyNeverRegresses
PROPERTY NoOrderAfterDeadline
PROPERTY PurchaseSpec
CHECK_DEADLOCK FALSE
