SPECIFICATION FairSpec
CONSTANTS
    OneSecond = 2
    NopTime = 2
    SetupTime <- MCSetupTime
    StartTime <- MCStartTime
    LimitDiffTime = 2
    ConvTime = 1
    PeriodTime = 2
    SunDivTime = 2
    DivTime <- MCDivTime
    SunLossTime = 1
    SttLossTime = 1
    GroundSwitches = {TRUE, FALSE}
    GroundModes = {"BDOT", "ROUGH_SUN_POINTING", "ROUGH_THREE_AXIS", "ROUGH_THREE_AXIS_RW", "FINE_THREE_AXIS"}
INVARIANTS
    NotLeftOff
    LimitsOfMode
PROPERTIES
    JudgedModeIsLeft
    JudgementIsActedOn
