\* The memory works, but the computer may reset at any time.
SPECIFICATION Spec
CONSTANTS
    BCT_MAX_BLOCKS = 2
    BCT_MAX_CMD_NUM = 2
    c1 = c1
    c2 = c2
    Torn = torn
    BctCmd <- Cmds
    DefaultBlocks <- Registered
    DefaultActive <- BootActive
    Edits <- LongerBlock
    NumParams <- Numbers
    IdParams <- Identifiers
    AccessMayFail = FALSE
    ResetsOnlyWhenSettled = FALSE
INVARIANT
    FlagMeansCopy
