\* One attempt, two payments on its order.
SPECIFICATION Spec
CONSTANTS
    MaxVersion = 1
    MaxAttempt = 1
    MaxTry = 2
    Workers = {w1}
    RoundBound = 1
INVARIANT TypeOK
INVARIANT OrderIsBackedByMoney
INVARIANT PayableStockIsHeld
INVARIANT HeldMoneyIsAnswered
INVARIANT OneProviderOrderPerVersion
CHECK_DEADLOCK FALSE
