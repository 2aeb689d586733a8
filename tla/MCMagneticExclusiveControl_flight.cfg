\* The flight durations, every mode change, late entries, magnetorquers driven from ground.
\* The exclusive control stays enabled and the clocks start without a gap.
SPECIFICATION Spec
CONSTANTS
    Mtq = {x}
    Sensor = {"MPU9250", "RM3100"}
    TaskLists <- ModeList
    Successors <- TransitionTable
    InitialMode = "INITIAL"
    CycleLength <- CycleLength_ms
    Lateness = {0, 4}
    DefaultConfig <- FlightConfig
    AcceptableMaxTimeStep_ms = 1000
    StateTimerLimit_ms = 30000
    MaxDuration_ms = 10000
    MinDuration_ms = 10
    DtLimit_ms = 10000
    EnableParams <- Nothing
    DurationParams <- Nothing
    RatioParams <- Nothing
    OutputParams <- Polarities
    Moments <- TwoMoments
    ReadsMayFail = FALSE
    BootGaps <- ShortBoot
    IntegralCap_ms = 3000
    QuietCap_ms = 100
INVARIANTS
    Exclusion
    BdotUsesFieldOfThisWindow
    TorqueSpanBounded
PROPERTIES
    EveryWindowSampled
    BdotDrivesLatestTarget
