\* Pointers whose products wrap around and others, failing writes and reads.
SPECIFICATION Spec
CONSTANTS
    PartitionId <- Partitions
    Elements <- Table
    APP_AOCS_DR_ALGORITHM_TLM_SIZE = 3
    UINT32 = 16
    DrPartition <- Recorders
    DefaultPartition = "DR_3"
    AccessMayFail = TRUE
    PointerParams <- SomePointers
INVARIANTS
    RecordsFit
    LapIsReadable
PROPERTY
    ReadsFollow
