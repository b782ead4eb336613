SPECIFICATION Spec
CONSTANTS
    Skus = {"A", "B"}
    Orders = {"o1", "o2", "o3"}
    Cart <- MCCart
    Receipts = {"r1", "r2"}
    Receipt <- MCReceipt
    Releases = {x1}
    SerialRelease = TRUE
CHECK_DEADLOCK FALSE
INVARIANTS NoOversell OutcomeExplained ReservedIsActive
PROPERTIES ImplementsBook
