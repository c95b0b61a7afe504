SPECIFICATION WarehouseSpec
CONSTANTS
    a = a  b = b  x = x  y = y
    u1 = u1  u2 = u2  u3 = u3  u4 = u4
    t1 = t1  g1 = g1  j1 = j1  q1 = q1
    c1 = c1  c2 = c2  c3 = c3  k1 = k1  k2 = k2
    w1 = w1  w2 = w2
    ann = ann  ben = ben
    Grains = {a, b, x, y}
    Units = {u1, u2, u3, u4}
    Serialized = {x, y}
    Docs = {t1, g1, j1, q1, c1, c2, c3, k1, k2}
    Users = {ann, ben}
    Workers = {w1, w2}
    Refs = {t1, g1, j1, q1, c1, c2, c3, k1, k2}
    Keys <- DocumentKeys
    KindOf <- Kinds
    Versions <- Contents
    KeysOf <- ClientKeys
    OpsOf <- AnyOp
    MayOverlap <- Races
    ShareUnits = FALSE
    Opening <- Stock
    UnitsAt <- Registry
    Starts <- Scenarios
    Tallies <- Findings
    CycleCounts <- OfTasks
    CountOf <- TaskCounts
    Overrides <- Quantities
    Disposals <- SomeDisposals
    Commands = {}
    CommandsOn <- NothingOn
    NoKey = NoKey
    NoRef = NoRef
    NoDeltas = NoDeltas
    NoDoc = NoDoc
    NoCommand = NoCommand
    Nowhere = Nowhere
    MaxDocuments = 1
    MaxFailures = 1
SYMMETRY Symmetry
INVARIANTS
    LedgerTellsDocuments
    SerialsMatchStock
    QuarantineAccounted
    TwoPeopleApproved
    CompletedMeansCounted
