\* All modes and commands; solutions wrong, missing, late or unusable at any time.
SPECIFICATION Spec
CONSTANTS
    OneSecond = 1
    NopTime = 1
    SetupTime <- Lengths
    StartTime <- Lengths
    count_limit_to_accept = 1
    reject_threshold = 2
    amplitude_limit_to_accept_as_step = 1
    obct_diff_max_limit = 2
    AcceptableMaxTimeStep = 1
    Far = 5
    FullTurn = 20
    NotANumber = NotANumber
    WrongErrors <- Behind
    SettleCycles = 7
    RtadParams <- TwoWays
    EkfParams = {0, 1}
    Scenarios <- Apart
INVARIANTS
    FineAttitudeIsCurrent
    NeverAhead
    HandoverKeepsAttitude
    SpikesStayOut
    EkfBridgesSilence
