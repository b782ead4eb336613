SPECIFICATION EnginesSpec
CONSTANTS
    Keys = {k1}
    Owners = {o1, o2, o3}
    Durations <- MCDurations
    MaxTime = 3
    MaxToken = 1004
    Alphabet = {"a", "b"}
    Words <- MCWords
    Values = {1, 2}
    MaxInserts = 4
    Sagas = {s1, s2}
    Timeouts = {0, 1, 2}
    DoorSpecs <- MCDoors
    Kinds = {"in", "out"}
    Times = {1, 2, 3, 4}
    LoadMinutes = {1, 2, 3}
    MaxBookings = 3
    Amounts = {1, 2, 3}
    SafetyScores = {1, 2}
    ceilingRate = 2
    OpenFor = 1
    MaxAuctions = 2
    MaxBids = 3
    Items = {"x", "y"}
    capacity = 2
    MaxSequence = 6
    Putaways = {1, 2, 3, 4}
    ItemOf <- MCItemOf
    Bays = {1, 2}
    maxWeight = 4
    maxVolume = 4
    Zones = {"dock", "pick"}
    ReadTimes = {1, 2, 3, 4, 5}
    debounceWindow = 2
    WindowLength = 1
    MaxSampleTime = 4
    MaxSamples = 4
    LotNumbers = {1, 2, 3}
    LotRecords <- MCLotRecords
    MaxRequest = 4
    MaxLotTime = 2
    Routes <- MCRoutes
    Distance <- MCDistance
    maxIterations = 3
    Parcels <- MCParcels
    usableVolume = 6
    maxWeightKg = 6
    Totals = {0, 1, 2, 7, 50}
    Terms = {1, 2, 3, 5, 14}
    StartMonths = {24298, 24299}
    TreeKeys = {1, 2, 3, 4, 5}
    treeOrder = 2
    MaxCopies = 2
    ProductCalls = {"p1", "p2", "p3"}
    ProductSpecs <- MCProductSpecs
    WarehouseCalls = {"w1", "w2"}
SYMMETRY Symmetry
CHECK_DEADLOCK FALSE
INVARIANTS MutualExclusion FencingOrder OverlapExplained WinnerIsBest RefusedIfOvertaken LocationRecent CatalogAgrees TreeAgrees AlgorithmsAgree
PROPERTIES CommitOnPromise
