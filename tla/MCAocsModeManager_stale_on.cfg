SPECIFICATION FairSpec
CONSTANTS
    OneSecond = 2
    NopTime = 2
    SetupTime <- MCSetupTime
    StartTime <- MCStartTime
    LimitDiffTime = 2
    ConvTime = 1
    PeriodTime = 2
    SunDivTime = 2
    DivTime <- MCDivTime
    SunLossTime = 1
    SttLossTime = 1
    GroundSwitches = {}
    GroundModes = {"BDOT", "ROUGH_THREE_AXIS"}
INVARIANT OffUntilConverged
