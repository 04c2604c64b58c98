SPECIFICATION Spec
CONSTANTS
    m1 = m1
    m2 = m2
    t1 = t1
    t2 = t2
    f = f
    NoFile = NoFile
    Unlinked = Unlinked
    File = {f}
    Message <- OneMessage
    Contents <- OnlyFiles
    Target <- TwoTargets
    RuleSets <- TagRule
    Initial <- NoRules
    MaxChanges = 0
    MaxFaults = 1
PROPERTIES
    SkippedIsDuplicate
CHECK_DEADLOCK FALSE
