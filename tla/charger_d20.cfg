SPECIFICATION FairSpec
CONSTANTS
    Sources = {"CSMS"}
    Priorities = {}
    ChargeMode = "DC"
    AcHlc = TRUE
    Use5Percent = TRUE
    EnforceHlc = FALSE
    LimitRetries = FALSE
    Socket = FALSE
    MeterMayFail = FALSE
    NoEnergyTimeout = TRUE
    FAfterFault = FALSE
    ReinitMethod = "F"
    ReinitTimed = TRUE
    SwitchCpState = "X1"
    SupportsE = FALSE
    Leftover = {"Unknown"}
    Calls = {"slac", "authorize_eim", "current_demand", "pause", "resume", "d20", "pause_notified", "dc_current", "max_current"}
    MaxCalls = 6
    MaxMoves = 2
    MaxQueue = 2
CHECK_DEADLOCK FALSE
PROPERTIES
    PauseEnds
