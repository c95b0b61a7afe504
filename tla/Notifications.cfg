SPECIFICATION NotifyFairSpec
CONSTANTS
    e1 = e1
    notification = notification
    mail = mail
    hook = hook
    NoEvent = NoEvent
    NoDelivery = NoDelivery
    Events = {e1}
    Consumers <- OneConsumer
    MayAbstain = {}
    Poison = {}
    Workers = {w1}
    BatchSize = 1
    MaxAttempts = 3
    MaxThrows = 1
    MaxCrashes = 1
    MaxOverruns = 0
    MaxRetries = 0
    Notification = notification
    Deliveries = {mail, hook}
    EventOf <- OfOneEvent
    Broken = {hook}
    Senders = {s1, s2}
    SendBatch = 2
    MaxTries = 3
    MaxTroubles = 2
INVARIANTS
    SecondMessageHasCause
PROPERTIES
    DeliveriesSettle
    EventsReachRecipients
