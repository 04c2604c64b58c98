SPECIFICATION Spec
CONSTANTS
    e1 = e1
    e2 = e2
    g1 = g1
    g2 = g2
    NoEvent = NoEvent
    NoGroup = NoGroup
    Event <- TwoEvents
    Group = {g1}
    GroupOf <- SameGroup
    Broken = {}
    Intervals = {1, 2}
    Keep = 2
    BatchLimit = 1
    MaxPass = 2
    MaxFaults = 1
    MaxCrashes = 1
INVARIANTS
    DigestLossExplained
    RepeatsExplained
PROPERTIES
    ClearedWasCounted
    ImplementsDigestCustody
