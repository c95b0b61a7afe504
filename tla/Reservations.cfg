SPECIFICATION Spec
CONSTANTS
    a = a
    b = b
    bLot = bLot
    r1 = r1
    r2 = r2
    s1 = s1
    s2 = s2
    l1 = l1
    l2 = l2
    l3 = l3
    k1 = k1
    k2 = k2
    w1 = w1
    w2 = w2
    w3 = w3
    NoKey = NoKey
    NoRef = NoRef
    NoDeltas = NoDeltas
    NoLine = NoLine
    NoJob = NoJob
    Grains = {a, b, bLot}
    Keys = {k1, k2}
    Refs = {s1, s2}
    Commands = {}
    Products = {a, b}
    Nil <- NilRow
    Lots <- LotRows
    Opening <- OpeningStock
    Reservations = {r1, r2}
    Lines <- TwoReservations
    Expiring = {r1}
    Releases = {s1, s2}
    Items <- ConsumingReleases
    KeysOf <- OneKeyEach
    InitialReleaseStatus = "DRAFT"
    Workers = {w1, w2, w3}
    OpsOf <- UsersAndTimer
    MayOverlap = {"expire"}
    MaxFailures = 1
INVARIANTS
    TypeOK
    ReservedHeld
    ConsumedWithinQuantity
    
    StockLeavesOnce

    
