SPECIFICATION Spec
CONSTANTS
    Day = 6
    UrlLife = 2
    MaxRetries = 1
    Backoff = 1
    MaxFaults = 1
    Horizon = 13
INVARIANTS
    WaitsForFirstChance
    DeferredIsFetchable
CHECK_DEADLOCK FALSE
