SPECIFICATION Spec
CONSTANTS
    NULL = NULL
    LOST = LOST
    Val <- MCVal
    Default = 0
    NUL = 0
    Slack = 0
    Vectors <- MCVectors
    WordSize = 64
    SizeMin = 2
    SizeMax = 32
    SizeStep = 2
    IntRange = 2
CHECK_DEADLOCK FALSE
INVARIANTS
    StrCompareIsStrncmp
    FindstrIsStrstr
    FindVecFindsFirst
    OnlyEqualCompareEqual
