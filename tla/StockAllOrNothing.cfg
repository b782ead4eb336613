SPECIFICATION Spec
CONSTANTS
    Skus = {"A"}
    Orders = {"o1"}
    Cart <- MCDuplicateLine
    Receipts = {"r1"}
    Receipt <- MCOneUnit
    Releases = {}
    SerialRelease = TRUE
CHECK_DEADLOCK FALSE
INVARIANTS AllOrNothing
