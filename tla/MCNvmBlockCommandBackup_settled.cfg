\* The memory works, and resets come when nothing is on its way to it.
SPECIFICATION FairSpec
CONSTANTS
    BCT_MAX_BLOCKS = 2
    BCT_MAX_CMD_NUM = 2
    c1 = c1
    c2 = c2
    Torn = torn
    BctCmd <- Cmds
    DefaultBlocks <- Registered
    DefaultActive <- BootActive
    Edits <- LongerBlock
    NumParams <- NumbersAndZero
    IdParams <- Identifiers
    AccessMayFail = FALSE
    ResetsOnlyWhenSettled = TRUE
INVARIANT
    FlagMeansCopy
PROPERTIES
    RestoreIsExact
    EditsReachMemory
    InactiveIsForgotten
