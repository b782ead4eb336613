SPECIFICATION FairSpec
CONSTANTS
    Invoices = {"i1", "i2"}
    Payments = {"p1", "p2"}
    Totals = {2, 3}
    Amounts = {1, 2}
    Adjustments = {"tc07", "tc08"}
    Adjustment <- MCAdjustment
CHECK_DEADLOCK FALSE
INVARIANTS StatusAgrees BooksAgree
PROPERTIES CapturedIsPosted
