SPECIFICATION Spec
CONSTANTS
    NoThread = NoThread
    LockInStateB = TRUE
    UseAuthorized = FALSE
    HasVentilation = FALSE
    CaptiveMode = FALSE
    SeatingDelay = FALSE
    Inputs = {"A", "B", "C", "set_pwm", "set_cp_state_X1", "allow", "enable"}
INVARIANTS StopReturns
CHECK_DEADLOCK FALSE
