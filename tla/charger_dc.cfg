SPECIFICATION Spec
CONSTANTS
    Sources = {"CSMS"}
    Priorities = {}
    ChargeMode = "DC"
    AcHlc = TRUE
    Use5Percent = TRUE
    EnforceHlc = FALSE
    LimitRetries = FALSE
    Socket = FALSE
    MeterMayFail = FALSE
    NoEnergyTimeout = TRUE
    FAfterFault = FALSE
    ReinitMethod = "F"
    ReinitTimed = TRUE
    SwitchCpState = "X1"
    SupportsE = FALSE
    Leftover = {"Unknown"}
    Calls = {"slac", "authorize_eim", "hlc_contactor", "current_demand", "dc_renegotiation", "dc_open_contactor", "session_stop_res", "dlink_pause", "dlink_terminate", "hlc_restart"}
    MaxCalls = 4
    MaxMoves = 2
    MaxQueue = 2
CHECK_DEADLOCK FALSE
INVARIANTS
    SessionStartsClean
PROPERTIES
    EndedStaysOff
    RetainHolds
