---------------------------- MODULE MCStockLedger ----------------------------
EXTENDS StockLedger
\* Items 1 and 2, catalogued the other way round. "a" is reviewed with a hold
\* on both items and "b" submitted without one, twice.
Of3 == [q1 |-> "a", q2 |-> "b", q3 |-> "b"]
Baskets == [a |-> <<1, 1>>, b |-> <<1, 1>>]
Shelf == <<2, 1>>
Roomy == <<2, 2>>
Backwards == <<2, 1>>
=============================================================================
