CONSTANTS
    Texts <- MCTexts
    Partitions = 2
SPECIFICATION GuardSpec
INVARIANTS GuardTypeOK LeavesClean
PROPERTY Returns
CHECK_DEADLOCK FALSE
