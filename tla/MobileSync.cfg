SPECIFICATION MobileSpec
CONSTANTS
    a = a  b = b  x = x  y = y
    u1 = u1  u2 = u2  u3 = u3  u4 = u4
    t1 = t1  g1 = g1  j1 = j1  q1 = q1
    c1 = c1  c2 = c2  c3 = c3  k1 = k1  k2 = k2
    w1 = w1  w2 = w2
    ann = ann  ben = ben
    Grains = {a, b, x, y}
    Units = {u1, u2, u3, u4}
    Serialized = {x, y}
    Docs = {t1, g1, q1, c1}
    Users = {ann, ben}
    Workers = {w1, w2}
    Refs = {t1, g1, q1, c1}
    Keys <- DocumentKeys
    KindOf <- Kinds
    Versions <- Contents
    KeysOf <- ClientKeys
    OpsOf <- Desktop
    MayOverlap <- MobileRaces
    ShareUnits = FALSE
    Opening <- Stock
    UnitsAt <- Registry
    Starts <- MobileScenarios
    Tallies <- Findings
    CycleCounts = {}
    CountOf <- TaskCounts
    Overrides <- Quantities
    Disposals <- SomeDisposals
    Commands = {}
    CommandsOn <- Versioned
    NoKey = NoKey
    NoRef = NoRef
    NoDeltas = NoDeltas
    NoDoc = NoDoc
    NoCommand = NoCommand
    send = send  fetch = fetch  take = take  tally = tally  intake = intake
    p1 = p1  p2 = p2
    MobileCommands = {send, fetch, take, tally, intake}
    DocOf <- Targets
    PlanOf <- Plans
    MobileKey <- CommandKeys
    Payload <- Captured
    Tabs = {p1, p2}
    NoTab = NoTab
    MaxSends = 3
    Nowhere = Nowhere
    MaxDocuments = 1
    MaxFailures = 1
SYMMETRY MobileSymmetry
INVARIANTS
    LedgerTellsDocuments
    SyncedMeansDone
