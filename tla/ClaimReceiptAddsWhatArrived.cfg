SPECIFICATION Spec
CONSTANTS
    Sku = {1, 2}
    CatalogueOrder <- Backwards
    Checkouts = {"a", "b"}
    Requests = {"q1", "q2", "q3"}
    Of <- Of3
    Cart <- Baskets
    ReviewedFirst = {"a"}
    Opening <- Shelf
    Edits = {"STOCK_RECEIPT"}
    Quantities = {1}
    MaxEdits = 1
CHECK_DEADLOCK FALSE
INVARIANT ReceiptAddsWhatArrived
