SPECIFICATION FairSpec
CONSTANTS
    bridge = bridge
    cli = cli
    t1 = t1
    w = w
    rw = rw
    blank = blank
    NoWord = NoWord
    Process <- BridgeAndCLI
    Target <- OneTarget
    Raw <- RawParts
    Word <- OneWord
    Normal <- Normalizing
    MaxFaults = 2
    MaxCrashes = 1
    MaxCommands = 1
INVARIANTS
    TypeOK
    SchemaMatchesVersion
    DataSurvives
    FailuresExplained
PROPERTIES
    ComesUp
    ImplementsUpgrade
