SPECIFICATION FairSpec
CONSTANTS
    e1 = e1
    e2 = e2
    m1 = m1
    NoEvent = NoEvent
    NoKey = NoKey
    Event <- TwoEvents
    Key <- OneKey
    KeyOf <- SameMedia
    MaxRetries = 1
    Lease = 2
    BackoffBase = 1
    BackoffCap = 2
    RateDelay = 1
    QuietDelay = 0
    ProcessedKeep = 1
    DeadKeep = 2
    DedupeWindow = 1
    MaxOffers = 1
    MaxFaults = 1
    MaxCrashes = 1
    MaxReplays = 1
    MaxDead = 3
    MaxLag = 1
PROPERTIES
    QueueDrains
    DedupeSpacing
