SPECIFICATION Spec
CONSTANTS
    e1 = e1
    e2 = e2
    projection = projection
    notification = notification
    NoEvent = NoEvent
    Events = {e1, e2}
    Consumers <- BothConsumers
    MayAbstain = {notification}
    Poison <- OnePoison
    Workers = {w1, w2}
    BatchSize = 2
    MaxAttempts = 2
    MaxThrows = 1
    MaxCrashes = 1
    MaxOverruns = 1
    MaxRetries = 1
INVARIANTS
    TypeOK
    EffectOnce
    PublishedWasDelivered
    NotGivenUpEarly
    ClaimedByOne
