SPECIFICATION FairSpec
CONSTANTS
    NoThread = NoThread
    LockInStateB = TRUE
    UseAuthorized = TRUE
    HasVentilation = FALSE
    CaptiveMode = TRUE
    SeatingDelay = TRUE
    Inputs = {"B", "F", "PowerOn", "PowerOff", "authorize", "enable",
              "force_unlock", "keep", "release", "plug", "unplug"}
INVARIANTS RelaisHoldLock LockHasReason CaptiveFlagsNeedPlug
PROPERTIES LatchHolds UnlockInF
CHECK_DEADLOCK FALSE
