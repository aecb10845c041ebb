SPECIFICATION Spec
CONSTANTS
    Authorities = {1, 2}
    Lapsing = {1}
    Ceiling = 2
    PurchaseLimit = 1
    Purchases = {"p1", "p2"}
    Price <- Prices
    Scripted = {"p1"}
    Workers = {"w1"}
    Rounds = 1
    MaxFixtures = 2
    MaxDisturbances = 1
CHECK_DEADLOCK FALSE
INVARIANT OneLockOrder
