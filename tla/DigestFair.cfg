SPECIFICATION FairSpec
CONSTANTS
    e1 = e1
    e2 = e2
    g1 = g1
    g2 = g2
    NoEvent = NoEvent
    NoGroup = NoGroup
    Event <- TwoEvents
    Group <- TwoGroups
    GroupOf <- OwnGroup
    Broken = {g2}
    Intervals = {1}
    Keep = 2
    BatchLimit = 2
    MaxPass = 1
    MaxFaults = 0
    MaxCrashes = 1
PROPERTIES
    HealthyServed
