---------------------------- MODULE ChargerContext ---------------------------
(***************************************************************************)
(* The members of Charger (shared_context, internal_context and the        *)
(* atomics beside them) as one record, and the helpers its states share:   *)
(* the control pilot, the session and transaction bookkeeping, the fatal   *)
(* error check, the BCB toggle detector.  Every operator maps the members  *)
(* before a call to the members after it.                                  *)
(***************************************************************************)
EXTENDS EnableDisable

CONSTANTS
    ChargeMode,       \* "AC" or "DC"
    AcHlc,            \* ac_hlc_enabled
    Use5Percent,      \* ac_hlc_use_5percent
    EnforceHlc,       \* ac_enforce_hlc
    LimitRetries,     \* ac_limit_slac_init_retries
    Socket,           \* the connector is a socket: the cable limit is read
    MeterMayFail,     \* a billing meter, and fail_on_powermeter_errors
    NoEnergyTimeout,  \* hlc_charge_loop_without_energy_timeout_s > 0
    FAfterFault,      \* state_F_after_fault_ms > 0
    ReinitMethod,     \* reinit_method: "X1", "E" or "F"
    ReinitTimed,      \* reinit_duration_ms > 0
    SwitchCpState,    \* switch_3ph1ph_cp_state: "X1", "E" or "F"
    SupportsE,        \* supports_cp_state_E
    Leftover          \* what may be read from hlc_charging_terminate_pause
                      \* before anyone has written it

Output == {"X1", "PWM", "E", "F"}

ASSUME ChargerConfigAssumption ==
    /\ ChargeMode \in {"AC", "DC"}
    /\ {AcHlc, Use5Percent, EnforceHlc, LimitRetries, Socket, MeterMayFail,
        NoEnergyTimeout, FAfterFault, ReinitTimed, SupportsE} \subseteq BOOLEAN
    /\ {ReinitMethod, SwitchCpState} \subseteq {"X1", "E", "F"}
    /\ Leftover # {} /\ Leftover \subseteq {"Unknown", "Terminate", "Pause"}

EvseState == {"Disabled", "Idle", "WaitingForAuthentication", "SwitchPhases",
              "T_step_EF", "T_step_X1", "Reinit", "PrepareCharging",
              "Charging", "ChargingPausedEV", "ChargingPausedEVSE",
              "StoppingCharging", "Finished"}
ShutdownType == {"None", "ErrorShutdown", "EmergencyShutdown"}
HlcTerminatePause == {"Unknown", "Terminate", "Pause"}
DutyCycle == {"zero", "5percent", "nominal", "X1"}   \* 0., 0.05, ..., 1.
TimerState == {"off", "armed", "due"}
C_SEQU_RETRY == 2
BCB_PULSES == 3

\* The deadlines: pwm_switched_off_at + 3 s, session_stop_pwm_off_deadline,
\* wakeup_link_deadline, ac_x1_fallback_nominal_timeout, the no energy
\* timeout, reinit_deadline, the end of a BCB sequence, the F after a fault.
Deadlines == {"x1", "retain", "wakeup", "fallback", "no_energy", "reinit",
              "bcb", "fault"}

\* What a listener of the session events knows, and the oddities it has met.
Oddity == {"TransactionStarted twice", "TransactionFinished twice",
           "session ended before its transaction",
           "deauthorized during its transaction"}

ContextType ==
    [current_state : EvseState, last_state_detect_state_change : EvseState,
     shutdown_type : ShutdownType,
     last_shutdown_type : ShutdownType,       \* shared_context
     detected_shutdown_type : ShutdownType,   \* internal_context
     flag_disable_requested : BOOLEAN, connector_enabled : BOOLEAN,
     flag_authorized : BOOLEAN, authorized_pnc : BOOLEAN,
     flag_transaction_active : BOOLEAN, session_active : BOOLEAN,
     flag_externally_cancelled : BOOLEAN, flag_paused_by_evse : BOOLEAN,
     flag_ev_plugged_in : BOOLEAN, iec_allow_close_contactor : BOOLEAN,
     hlc_allow_close_contactor : BOOLEAN, contactor_open : BOOLEAN,
     hlc_charging_active : BOOLEAN,
     hlc_charging_terminate_pause : HlcTerminatePause,
     hlc_dc_renegotiation : BOOLEAN, hlc_session_paused_by_evse : BOOLEAN,
     hlc_session_restarted_by_ev : BOOLEAN, legacy_wakeup_done : BOOLEAN,
     hlc_d20_active : BOOLEAN, hlc_d20_dynamic_mode : BOOLEAN,
     d20_pause_requested : BOOLEAN, d20_pause_confirmed : BOOLEAN,
     d20_pause_ramp : BOOLEAN, d20_pause_notified : BOOLEAN,
     stopping_for_evse_pause : BOOLEAN, dc_current : BOOLEAN,
     pwm_running : BOOLEAN, last_duty_cycle : DutyCycle,
     cp_state_F_active : BOOLEAN, hlc_use_5percent : BOOLEAN,
     ac_hlc_current_session : BOOLEAN, hlc_failed : BOOLEAN,
     slac_retries : 0..C_SEQU_RETRY, slac_retries_exhausted : BOOLEAN,
     matching_started : BOOLEAN, slac_matched : BOOLEAN,
     dlink_established : BOOLEAN, t_step_EF_return_state : EvseState,
     t_step_EF_return_pwm : DutyCycle, t_step_ef_x1_pause : BOOLEAN,
     t_step_X1_until_unmatched : BOOLEAN, switch_phases_ongoing : BOOLEAN,
     reinit_requested : BOOLEAN, reinit_running : BOOLEAN,
     cable_known : BOOLEAN, max_current_ok : BOOLEAN,
     bcb_count : 0..BCB_PULSES, bcb_sequence_started : BOOLEAN,
     age : 0..2,               \* thresholds passed by time_in_current_state
     timer : [Deadlines -> TimerState],
     output : Output,          \* what the board was last told to emit
     allow_power_on : BOOLEAN, \* what the IEC state machine was last told
     heard : [transaction : BOOLEAN, odd : SUBSET Oddity]]

\* Charger() and setup().  The first pass does not initialize Idle, and
\* hlc_charging_terminate_pause is the one member nobody gives a value.
NewContext(leftover) ==
    [current_state |-> "Idle", last_state_detect_state_change |-> "Idle",
     shutdown_type |-> "None", last_shutdown_type |-> "None",
     detected_shutdown_type |-> "None",
     flag_disable_requested |-> FALSE, connector_enabled |-> TRUE,
     flag_authorized |-> FALSE, authorized_pnc |-> FALSE,
     flag_transaction_active |-> FALSE, session_active |-> FALSE,
     flag_externally_cancelled |-> FALSE, flag_paused_by_evse |-> FALSE,
     flag_ev_plugged_in |-> FALSE, iec_allow_close_contactor |-> FALSE,
     hlc_allow_close_contactor |-> FALSE, contactor_open |-> TRUE,
     hlc_charging_active |-> ChargeMode = "DC",
     hlc_charging_terminate_pause |-> leftover,
     hlc_dc_renegotiation |-> FALSE, hlc_session_paused_by_evse |-> FALSE,
     hlc_session_restarted_by_ev |-> FALSE, legacy_wakeup_done |-> FALSE,
     hlc_d20_active |-> FALSE, hlc_d20_dynamic_mode |-> FALSE,
     d20_pause_requested |-> FALSE, d20_pause_confirmed |-> FALSE,
     d20_pause_ramp |-> FALSE, d20_pause_notified |-> FALSE,
     stopping_for_evse_pause |-> FALSE, dc_current |-> FALSE,
     pwm_running |-> FALSE, last_duty_cycle |-> "zero",
     cp_state_F_active |-> FALSE, hlc_use_5percent |-> FALSE,
     ac_hlc_current_session |-> AcHlc, hlc_failed |-> FALSE,
     slac_retries |-> 0, slac_retries_exhausted |-> FALSE,
     matching_started |-> FALSE, slac_matched |-> FALSE,
     dlink_established |-> FALSE, t_step_EF_return_state |-> "Idle",
     t_step_EF_return_pwm |-> "zero", t_step_ef_x1_pause |-> FALSE,
     t_step_X1_until_unmatched |-> FALSE, switch_phases_ongoing |-> FALSE,
     reinit_requested |-> FALSE, reinit_running |-> FALSE,
     cable_known |-> FALSE, max_current_ok |-> TRUE,
     bcb_count |-> 0, bcb_sequence_started |-> FALSE, age |-> 0,
     timer |-> [d \in Deadlines |-> "off"],
     output |-> "X1", allow_power_on |-> FALSE,
     heard |-> [transaction |-> FALSE, odd |-> {}]]
-----------------------------------------------------------------------------
\* set_state
Go(c, state) == [c EXCEPT !.current_state = state]

\* Control pilot.
PwmSignalOff(c) == ~c.pwm_running \/ c.last_duty_cycle = "X1"

\* note_pwm_switched_off
Note(c) == IF PwmSignalOff(c) THEN c ELSE [c EXCEPT !.timer["x1"] = "armed"]

\* Mutant: the minimum time in X1 is not waited for.
NeverWait(c) == FALSE

\* must_wait_in_x1_before_pwm
MustWaitInX1(c) == PwmSignalOff(c) /\ c.timer["x1"] = "armed"

\* cp_state_X1, cp_state_F and cp_state_E
PilotOff(c, output) ==
    LET out == IF output = "E" /\ ~SupportsE THEN "X1" ELSE output
    IN [Note(c) EXCEPT !.pwm_running = FALSE,
                       !.last_duty_cycle = IF out = "X1" THEN "X1" ELSE "zero",
                       !.cp_state_F_active = out = "F", !.output = out]

\* update_pwm_now: 100 percent is X1, 0 percent is F.
UpdatePwm(c, duty) ==
    IF duty = "X1" THEN PilotOff(c, "X1")
    ELSE IF duty = "zero" THEN PilotOff(c, "F")
    ELSE [c EXCEPT !.pwm_running = TRUE, !.last_duty_cycle = duty,
                   !.cp_state_F_active = FALSE, !.output = "PWM"]

\* update_pwm_now_if_changed
UpdatePwmIfChanged(c, duty) ==
    IF c.last_duty_cycle = duty THEN c ELSE UpdatePwm(c, duty)

\* power_available(): the energy manager's budget, on a socket not more than
\* the cable carries, which is nothing as long as it is not known.
PowerAvailable(c) ==
    /\ c.max_current_ok
    /\ ChargeMode = "AC" /\ Socket
            => c.cable_known \/ c.current_state = "Idle"

\* ampere_to_duty_cycle(get_max_current_internal())
NominalDuty(c) == IF PowerAvailable(c) THEN "nominal" ELSE "X1"
-----------------------------------------------------------------------------
\* Sessions and transactions, with what a listener makes of the events.
Hears(c, transaction, oddities) ==
    [c EXCEPT !.heard = [transaction |-> transaction,
                         odd |-> @.odd \cup oddities]]

If(b, oddity) == IF b THEN {oddity} ELSE {}

StartSession(c) ==
    [c EXCEPT !.session_active = TRUE, !.dlink_established = FALSE,
              !.flag_authorized = FALSE, !.authorized_pnc = FALSE,
              !.flag_externally_cancelled = FALSE]

\* stop_session, with what is odd about it while a transaction runs.
EndSession(c, oddity) ==
    [Hears(c, c.heard.transaction, If(c.heard.transaction, oddity))
       EXCEPT !.session_active = FALSE, !.flag_authorized = FALSE,
              !.authorized_pnc = FALSE, !.flag_externally_cancelled = FALSE,
              !.flag_paused_by_evse = FALSE]

StopSession(c) == EndSession(c, "session ended before its transaction")

\* start_transaction, when the billing meter agrees.
StartTransaction(c) ==
    [Hears(c, TRUE, If(c.heard.transaction, "TransactionStarted twice"))
       EXCEPT !.flag_transaction_active = TRUE]

StopTransaction(c) ==
    [Hears(c, FALSE, If(~c.heard.transaction, "TransactionFinished twice"))
       EXCEPT !.flag_transaction_active = FALSE]

\* deauthorize_internal: only before charging does it take anything back.
DeauthorizeInternal(c) ==
    IF /\ c.session_active
       /\ c.current_state \in {"Disabled", "Idle", "WaitingForAuthentication"}
       /\ c.flag_authorized
    THEN EndSession(c, "deauthorized during its transaction") ELSE c

-----------------------------------------------------------------------------
\* Errors.
FatalError(c) == c.shutdown_type # "None"

\* Mutant: the contactors stay as they are.
ShutDownKeepsPower(c) ==
    IF c.shutdown_type = "EmergencyShutdown" /\ c.pwm_running
    THEN PilotOff(c, "X1") ELSE c

\* emergency_shutdown and error_shutdown: only the former stops the PWM.
ShutDown(c) ==
    [(IF c.shutdown_type = "EmergencyShutdown" /\ c.pwm_running
      THEN PilotOff(c, "X1") ELSE c) EXCEPT !.allow_power_on = FALSE]

\* stop_charging_on_fatal_error_internal; its result is FatalError(c).
StopOnFatalError(c) ==
    LET entered == FatalError(c) /\ c.last_shutdown_type # c.shutdown_type
        c1 == IF entered
              THEN [ShutDown(c) EXCEPT !.timer["fault"] = "armed"] ELSE c
    IN [c1 EXCEPT !.last_shutdown_type = c.shutdown_type,
                  !.timer["fault"] = IF FatalError(c) THEN @ ELSE "off"]

\* entered_fatal_error_state
EnteredFatalErrorState(c) == FatalError(c) /\ c.last_shutdown_type = "None"

\* Mutant: a request to disable does not stop a session.
StopReasonNotDisable(c) ==
    ~c.flag_authorized \/ ~c.flag_transaction_active \/ ~c.flag_ev_plugged_in

\* What sends a charging session into StoppingCharging in every state.
StopReason(c) == ~c.flag_authorized \/ ~c.flag_transaction_active
                    \/ ~c.flag_ev_plugged_in \/ c.flag_disable_requested

-----------------------------------------------------------------------------
\* BCB toggles.
BcbReset(c) == [c EXCEPT !.bcb_count = 0, !.bcb_sequence_started = FALSE]

BcbStartPulse(c) ==
    IF c.bcb_count = 0
    THEN [c EXCEPT !.bcb_sequence_started = TRUE, !.timer["bcb"] = "armed"]
    ELSE c

\* valid: the pulse was neither too short nor too long.
BcbStopPulse(c, valid) ==
    IF ~c.bcb_sequence_started THEN c
    ELSE [c EXCEPT !.bcb_count =
            IF ~valid THEN 0 ELSE IF @ = BCB_PULSES THEN @ ELSE @ + 1]

BcbDetected(c) ==
    c.bcb_sequence_started
        /\ (c.timer["bcb"] = "due" \/ c.bcb_count >= BCB_PULSES)

\* HLC pauses: evse_pause_resumable and resume_evse_pause_marker
EvsePauseResumable(c) ==
    c.hlc_session_paused_by_evse /\ ~c.flag_paused_by_evse

ResumeEvsePauseMarker(c) ==
    [c EXCEPT !.hlc_charging_terminate_pause = "Unknown",
              !.timer["retain"] = "off"]

\* Mutant: one retry too many.
RetriesExhaustedLate(c) ==
    LimitRetries /\ ChargeMode = "AC" /\ c.slac_retries > C_SEQU_RETRY

RetriesExhausted(c) ==
    LimitRetries /\ ChargeMode = "AC" /\ c.slac_retries >= C_SEQU_RETRY

\* request_error_sequence_internal: E/F (after an X1 when a link was lost),
\* then 5 percent again, a limited number of times in AC.
ErrorSequence(c) ==
    LET limit == LimitRetries /\ ChargeMode = "AC"
        exhausted == RetriesExhausted(c)
        c1 == [c EXCEPT
                 !.t_step_EF_return_state = c.current_state,
                 !.t_step_EF_return_pwm =
                    IF c.hlc_use_5percent /\ ~exhausted
                    THEN "5percent" ELSE "zero",
                 !.slac_retries_exhausted = @ \/ exhausted,
                 !.hlc_use_5percent = @ /\ ~exhausted,
                 !.slac_retries = IF limit /\ c.hlc_use_5percent /\ ~exhausted
                                  THEN @ + 1 ELSE @,
                 !.t_step_X1_until_unmatched = @ \/ c.dlink_established,
                 !.current_state = IF c.dlink_established THEN "T_step_X1"
                                                          ELSE "T_step_EF"]
        c2 == IF c.current_state \notin {"WaitingForAuthentication",
                                         "PrepareCharging"}
                 \/ (limit /\ ~c.hlc_use_5percent)
              THEN c ELSE c1
    IN [c2 EXCEPT !.dlink_established = FALSE]
=============================================================================
