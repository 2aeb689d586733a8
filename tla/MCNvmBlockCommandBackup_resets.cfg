\* Resets and failed accesses at any time.
SPECIFICATION Spec
CONSTANTS
    BCT_MAX_BLOCKS = 3
    BCT_MAX_CMD_NUM = 1
    c1 = c1
    c2 = c2
    Torn = torn
    BctCmd <- Cmds
    DefaultBlocks <- Registered
    DefaultActive <- BootActive
    Edits <- OtherBlock
    NumParams <- Numbers
    IdParams <- Identifiers
    AccessMayFail = TRUE
    ResetsOnlyWhenSettled = FALSE
INVARIANTS
    EnabledFlagMeansCopy
PROPERTY
    LapVisitsAll
