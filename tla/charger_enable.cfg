SPECIFICATION FairSpec
CONSTANTS
    Sources = {"CSMS"}
    Priorities = {}
    ChargeMode = "AC"
    AcHlc = TRUE
    Use5Percent = TRUE
    EnforceHlc = FALSE
    LimitRetries = FALSE
    Socket = TRUE
    MeterMayFail = FALSE
    NoEnergyTimeout = FALSE
    FAfterFault = FALSE
    ReinitMethod = "E"
    ReinitTimed = FALSE
    SwitchCpState = "X1"
    SupportsE = TRUE
    Leftover = {"Unknown"}
    Calls = {"authorize_eim", "deauthorize", "enable_disable", "start_reinit", "switch_phases", "slac", "dlink_error"}
    MaxCalls = 2
    MaxMoves = 2
    MaxQueue = 2
CHECK_DEADLOCK FALSE
PROPERTIES
    DisableServed
    UnplugServed
