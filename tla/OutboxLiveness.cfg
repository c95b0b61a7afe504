SPECIFICATION FairSpec
CONSTANTS
    e1 = e1
    e2 = e2
    projection = projection
    notification = notification
    NoEvent = NoEvent
    Events = {e1, e2}
    Consumers <- OneConsumer
    MayAbstain = {notification}
    Poison <- ProjectionPoison
    Workers = {w1, w2}
    BatchSize = 2
    MaxAttempts = 3
    MaxThrows = 1
    MaxCrashes = 1
    MaxOverruns = 1
    MaxRetries = 0
PROPERTIES
    Settles
    HealthyPublished
