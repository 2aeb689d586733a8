\* A magnetometer read may fail.
SPECIFICATION Spec
CONSTANTS
    Mtq = {x}
    Sensor = {"MPU9250", "RM3100"}
    TaskLists <- TwoModeLists
    Successors <- TwoModeTable
    InitialMode = "INITIAL"
    CycleLength <- CycleLength_ms
    Lateness = {0}
    DefaultConfig <- FlightConfig
    AcceptableMaxTimeStep_ms = 1000
    StateTimerLimit_ms = 30000
    MaxDuration_ms = 10000
    MinDuration_ms = 10
    DtLimit_ms = 10000
    EnableParams <- Switches
    DurationParams <- Nothing
    RatioParams <- Nothing
    OutputParams <- Nothing
    Moments <- TwoMoments
    ReadsMayFail = TRUE
    BootGaps <- BootGapSet
    IntegralCap_ms = 0
    QuietCap_ms = 100
INVARIANT
    FilteredFieldIsClean
