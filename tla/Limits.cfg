SPECIFICATION Spec
CONSTANTS
    k1 = k1
    Key <- OneKey
    Limit = 2
    Window = 2
    BurstLimit = 3
    BurstWindow = 3
INVARIANTS
    TwiceTheLimit
    BurstBounded
PROPERTIES
    BucketRefusalEnds
    BurstRefusalEnds
