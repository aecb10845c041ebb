SPECIFICATION FairSpec
CONSTANTS
    Sku = {1, 2}
    CatalogueOrder <- Backwards
    Checkouts = {"a", "b"}
    Requests = {"q1", "q2", "q3"}
    Of <- Of3
    Cart <- Baskets
    ReviewedFirst = {"a"}
    Opening <- Shelf
    Edits = {"STOCK_RECEIPT", "STOCK_SET", "STOCK_DECREMENT", "CATALOGUE_RESET"}
    Quantities = {1}
    MaxEdits = 1
CHECK_DEADLOCK FALSE
INVARIANTS TypeOK BalanceIsLedger UnitsAreDefendedOnce HoldsFit ReserversNeverDeadlock
PROPERTIES ShopSpec RequestsAreAnswered
