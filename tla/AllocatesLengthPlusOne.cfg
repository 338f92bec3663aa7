SPECIFICATION Spec
CONSTANTS
    NULL = NULL
    LOST = LOST
    a = a
    b = b
    Handles = {a, b}
    Val = {0, 1}
    Default = 0
    NUL = 0
    Slack = 1
    MaxUsed = 5
    WordSize = 64
    SizeMin = 2
    SizeMax = 32
    SizeStep = 2
SYMMETRY Symmetry
VIEW Memory
CHECK_DEADLOCK FALSE
INVARIANT AllocatesLengthPlusOne
