SPECIFICATION Spec
CONSTANTS
    e1 = e1
    e2 = e2
    m1 = m1
    NoEvent = NoEvent
    NoKey = NoKey
    Event = {e1}
    Key <- OneKey
    KeyOf <- NoMedia
    MaxRetries = 2
    Lease = 2
    BackoffBase = 1
    BackoffCap = 2
    RateDelay = 1
    QuietDelay = 1
    ProcessedKeep = 1
    DeadKeep = 2
    DedupeWindow = 1
    MaxOffers = 2
    MaxFaults = 2
    MaxCrashes = 1
    MaxReplays = 2
    MaxDead = 4
    MaxLag = 1
INVARIANTS
    TypeOK
    NoEventLost
    ProcessedWasDisposed
    ProcessedNotQueued
    ClaimKeepsRow
    DuplicatesExplained
PROPERTIES
    DeadLetterEarned
    ImplementsCustody
