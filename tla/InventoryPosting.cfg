SPECIFICATION FairSpec
CONSTANTS
    g1 = g1
    g2 = g2
    k1 = k1
    k2 = k2
    k3 = k3
    k4 = k4
    d1 = d1
    d2 = d2
    d3 = d3
    NoKey = NoKey
    NoRef = NoRef
    NoDeltas = NoDeltas
    NoCall = NoCall
    NoCommand = NoCommand
    Grains = {g1, g2}
    Keys = {k1, k2, k3, k4}
    Calls = {c1, c2, c3}
    Refs = {d1, d2, d3, c1, c2, c3}
    Commands <- DocumentCommands
    ReversalKeys = {k4}
    MaxReversals = 1
INVARIANTS
    TypeOK
    Reconciled
    NoOversell
    OncePerKey
    NumbersDense
    ReplayAnswersAsFirst
PROPERTIES
    ImplementsLedger
    EveryCallEnds
