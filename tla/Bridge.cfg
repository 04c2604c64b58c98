SPECIFICATION BridgeSpec
CONSTANTS
    t1 = t1
    t2 = t2
    w = w
    r0 = r0
    r1 = r1
    r2 = r2
    noSecret = noSecret
    s1 = s1
    Target <- TwoTargets
    Word <- OneWord
    Rule <- ThreeRules
    DefaultRule = r0
    Secret <- TwoSecrets
    NoSecret = noSecret
    Imported <- TwoTargets
    ItemRule <- FileRule
    ItemWords <- FileWords
    MaxCommands = 2
    MaxImports = 2
    MaxFaults = 1
    To = t1
    Caption = {w}
    Strict = {r1, r2}
    Simulating = {r2}
INVARIANTS
    ImportConverges
    SecretsKept
    BlocksInForce
PROPERTIES
    BlockCovers
    BlockedNotSent
    VerdictFollowsRules
CHECK_DEADLOCK FALSE
