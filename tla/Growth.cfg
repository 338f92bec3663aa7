SPECIFICATION BlockSpec
CONSTANTS
    WordSize = 128
    SizeMin = 2
    SizeMax = 64
    SizeStep = 4
    EltSize = 4
    FREED = FREED
CHECK_DEADLOCK FALSE
INVARIANTS
    BlockTypeOK
    SmallRequestsFit
