SPECIFICATION GatewaySpec
CONSTANTS
    Callers = {c1, c2, c3, c4}
    failureThreshold = 3
    recoveryTimeoutMs = 1
    halfOpenSuccessThreshold = 2
    MaxInFlight = 3
    MaxCount = 12
    failureThresholdPct = 50
    minimumRequestsInWindow = 6
    closingProbes = 3
    openDurationMs = 1
    Clients = {ip1, ip2}
    windowMs = 3
    maxRequests = 2
    Keys = {"k1", "k2"}
    Token = 3
    capacityTokens <- MCCapacity
    refillRateTokensPerSecond <- MCRate
    burstAllowanceTokens <- MCBurst
    Listeners = {l1, l2, l3}
    Publications = {p1, p2}
INVARIANTS FailuresTrip PassesBounded BucketHonest EachOnce
PROPERTIES ClosesOnProbes ImplementsWindow EventuallyServed
