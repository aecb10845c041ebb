\* Two commands in batches of two.
SPECIFICATION Spec
CONSTANTS
    Commands = {c1, c2}
    Workers = {w1, w2}
    MaxAttempts = 2
    LeaseSeconds = 2
    BackoffBase = 1
    BackoffCap = 1
    BatchSize = 2
    MaxDelay = 0
    MaxAge = 1
    MaxRevivals = 0
SYMMETRY Symmetric
CONSTRAINT OneIsDeliveredOnce
INVARIANT OneLiveLease
PROPERTY QueueSpec
CHECK_DEADLOCK FALSE
