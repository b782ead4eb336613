SPECIFICATION OrdersSpec
CONSTANTS
    Orders = {"o1", "o2"}
    Cancels = {"c1", "c2"}
    Messages = {m1, m2}
    Handlers = {h1, h2}
    Flushers = {f1, f2}
    BatchSizes = {1, 2}
    Workflows = {w1, w2}
    NSteps = 5
    Redeliver = {w2}
CHECK_DEADLOCK FALSE
INVARIANTS StatusBacked BoundedRedelivery OverallAgrees OneAtATime
PROPERTIES NoLostUpdate OrderSettles SettledForGood EventuallySettled WorkflowsFinish
