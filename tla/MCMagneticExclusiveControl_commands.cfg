\* Every command of the timer, the controller and the magnetorquers, short windows, two modes; the clocks may start after a long gap.
SPECIFICATION FairSpec
CONSTANTS
    Mtq = {x}
    Sensor = {"MPU9250", "RM3100"}
    TaskLists <- ModeList
    Successors <- TransitionTable
    InitialMode = "INITIAL"
    CycleLength <- CycleLength_ms
    Lateness = {0, 4}
    DefaultConfig <- ShortConfig
    AcceptableMaxTimeStep_ms = 1000
    StateTimerLimit_ms = 30000
    MaxDuration_ms = 10000
    MinDuration_ms = 10
    DtLimit_ms = 10000
    EnableParams <- Switches
    DurationParams <- SomeDurations
    RatioParams <- Ratios
    OutputParams = {1}
    Moments <- TwoMoments
    ReadsMayFail = FALSE
    BootGaps <- BootGapSet
    IntegralCap_ms = 0
    QuietCap_ms = 100
INVARIANTS
    TimerInsideWindow
    FilteredFieldIsClean
PROPERTIES
    DemagnetisedBeforeObserve
    KeepsPromise
    ObservesForever
