SPECIFICATION TreeSpec
CONSTANTS
    TreeKeys = {1, 2, 3, 4, 5, 6, 7, 8}
    treeOrder = 4
    MaxCopies = 1
CHECK_DEADLOCK FALSE
INVARIANTS SearchAgrees
