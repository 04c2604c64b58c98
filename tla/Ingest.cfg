SPECIFICATION FairSpec
CONSTANTS
    m1 = m1
    m2 = m2
    t1 = t1
    t2 = t2
    f = f
    NoFile = NoFile
    Unlinked = Unlinked
    File = {f}
    Message <- TwoMessages
    Contents <- Either
    Target <- TwoTargets
    RuleSets <- TagRule
    Initial <- RuleForOne
    MaxChanges = 1
    MaxFaults = 2
INVARIANTS
    FanOutComplete
    StoredAgainExplained
PROPERTIES
    OnlyAccepted
    EventuallyHandled
CHECK_DEADLOCK FALSE
