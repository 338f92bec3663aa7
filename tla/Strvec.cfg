SPECIFICATION Spec
CONSTANTS
    NULL = NULL
    LOST = LOST
    Val = {"a", "null"}
    Default = "null"
    Slack = 0
    Environ <- MCEnviron
    MaxUsed = 3
    WordSize = 64
    SizeMin = 2
    SizeMax = 32
    SizeStep = 2
CHECK_DEADLOCK FALSE
INVARIANTS
    NullsComeFromHoles
    RunsWithWholeLists
PROPERTY FailureKeepsLists
