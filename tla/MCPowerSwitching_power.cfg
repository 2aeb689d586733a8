\* Every transition that changes the mode; up to two faults of a wheel, or one of the star tracker.
SPECIFICATION Spec
CONSTANTS
    OBCT_CYCLES_PER_SEC = 10
    StartModeManager <- Soon
    ResetCount = 10
    ResetGap = 50
    PowerOffCount = 2
    LongestOutage = 900
    LongestDelay = 12
    BiasSpan = 1
    Route <- EveryChange
    FaultScenarios <- WheelOrTracker
    MaxTransitions = 9
    StartPhases = {0, 4}
INVARIANTS
    MaskingEnds
    WatchedAsPowered
    PoweredAsMode
    SelectedGyroIsOn
    ExternalBiasMatches
    OnlyFaultyAreReset
    GivenUpIsOff
    OutageIsShort
