SPECIFICATION Spec
CONSTANTS
    Sources = {"CSMS"}
    Priorities = {}
    ChargeMode = "AC"
    AcHlc = TRUE
    Use5Percent = TRUE
    EnforceHlc = TRUE
    LimitRetries = TRUE
    Socket = FALSE
    MeterMayFail = FALSE
    NoEnergyTimeout = TRUE
    FAfterFault = FALSE
    ReinitMethod = "F"
    ReinitTimed = TRUE
    SwitchCpState = "X1"
    SupportsE = FALSE
    Leftover = {"Unknown"}
    Calls = {"slac", "slac_unmatched", "slac_error", "authorize_eim", "v2g_setup_finished", "emergency", "authorize_pnc", "deauthorize", "hlc_contactor"}
    MaxCalls = 3
    MaxMoves = 2
    MaxQueue = 2
CHECK_DEADLOCK FALSE
INVARIANTS
    ChargerTypeOK
    TransactionsPaired
PROPERTIES
    
    HlcPermits
