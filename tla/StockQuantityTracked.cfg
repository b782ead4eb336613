SPECIFICATION Spec
CONSTANTS
    Skus = {"A"}
    Orders = {"o1", "o2"}
    Cart <- MCSmallCart
    Receipts = {"r1", "r2", "r3"}
    Receipt <- MCShrink
    Releases = {x1, x2}
    SerialRelease = FALSE
CHECK_DEADLOCK FALSE
INVARIANTS QuantityTracked
