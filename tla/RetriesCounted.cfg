SPECIFICATION Spec
CONSTANTS
    SendLimit = 2
    RestLimit = 1
    MaxStaleness = 4
    StreakLimit = 2
    MinSample = 2
    MaxDeliveries = 1
    MaxFaults = 0
PROPERTIES
    RetriesCounted
