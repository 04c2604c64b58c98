SPECIFICATION FairSpec
CONSTANTS
    SendLimit = 1
    RestLimit = 0
    MaxStaleness = 2
    StreakLimit = 2
    MinSample = 2
    MaxDeliveries = 4
    MaxFaults = 1
INVARIANTS
    OneWindowEach
    ProbeTellsHang
PROPERTIES
    StreakReported
