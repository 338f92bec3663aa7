SPECIFICATION Spec
CONSTANTS
    NULL = NULL
    LOST = LOST
    a = a
    b = b
    Handles = {a, b}
    Val = {0, 1}
    Default = 1
    Slack = 1
    MaxUsed = 4
    WordSize = 64
    SizeMin = 2
    SizeMax = 32
    SizeStep = 2
SYMMETRY Symmetry
VIEW Memory
CHECK_DEADLOCK FALSE
INVARIANTS
    TypeOK
    UsedWithinSize
PROPERTIES
    ImplementsSequences
    LostOnly
