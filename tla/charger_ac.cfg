SPECIFICATION Spec
CONSTANTS
    Sources = {"CSMS"}
    Priorities = {}
    ChargeMode = "AC"
    AcHlc = FALSE
    Use5Percent = FALSE
    EnforceHlc = FALSE
    LimitRetries = FALSE
    Socket = FALSE
    MeterMayFail = TRUE
    NoEnergyTimeout = FALSE
    FAfterFault = TRUE
    ReinitMethod = "F"
    ReinitTimed = TRUE
    SwitchCpState = "X1"
    SupportsE = FALSE
    Leftover = {"Unknown"}
    Calls = {"authorize_eim", "cancel", "pause", "error", "errors_cleared", "max_current"}
    MaxCalls = 4
    MaxMoves = 3
    MaxQueue = 2
CHECK_DEADLOCK FALSE
INVARIANTS
    PermissionBacked
    ShutdownHolds
PROPERTIES
    NoPowerDuringError
    MinimumTimeInX1
