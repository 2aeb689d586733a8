\* Two devices of four bytes, a partition across their border, failures and resets.
SPECIFICATION Spec
CONSTANTS
    FM25V10_IDX_MAX = 2
    FM25V10_STOP_ADDRESS = 4
    FM25V10_MAX_LENGTH = 2
    APP_NVM_MANAGER_MAX_CMD_DATA_SIZE = 2
    PartitionId <- Partitions
    Elements <- Table
    Byte <- Bits
    FreshByte <- Fresh
    AccessMayFail = TRUE
    GroundPartitions = {"NORMAL_PARAMS"}
    GroundAddresses = {0, 3}
    NormalParam = {"n"}
    RedundantParam = {"r"}
    Registered <- Params
    BootCalls <- Boot
    ParamData <- AppData
INVARIANTS
    ReadsBack
    NeverMixed
PROPERTIES
    StoresBytes
    PartitionsIsolated
