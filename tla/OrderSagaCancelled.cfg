SPECIFICATION FairSpec
CONSTANTS
    Orders = {"o1"}
    Cancels = {"c1"}
CHECK_DEADLOCK FALSE
PROPERTIES CancelledIsFinal
