SPECIFICATION Spec
CONSTANTS
    NoThread = NoThread
    LockInStateB = TRUE
    UseAuthorized = FALSE
    HasVentilation = TRUE
    CaptiveMode = FALSE
    SeatingDelay = FALSE
    Inputs = {"Disabled", "A", "B", "C", "D", "E", "F",
              "set_pwm", "set_cp_state_X1", "set_cp_state_F", "set_cp_state_E",
              "allow", "disallow", "enable"}
INVARIANTS TypeOK PowerPermitted PwmBelief StateFHonoured RawInSync
CHECK_DEADLOCK FALSE
