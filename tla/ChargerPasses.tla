---------------------------- MODULE ChargerPasses ----------------------------
(***************************************************************************)
(* One iteration of the loop in Charger::run_state_machine(), one operator *)
(* per EvseState.  init is initialize_state.  A pass depends on the world  *)
(* through env: pp (the board reports the cable's ampacity), meter (the    *)
(* billing meter starts the transaction), late (5 s since the last PWM     *)
(* update have passed).                                                    *)
(***************************************************************************)
EXTENDS ChargerContext

PassDisabled(c, init) ==
    LET c1 == IF init THEN PilotOff(c, "F") ELSE c
    IN IF c.flag_disable_requested THEN c1 ELSE Go(c1, "Idle")

\* The initialization of Idle.
ResetSession(c) ==
    LET c1 == [BcbReset(c) EXCEPT
                 !.iec_allow_close_contactor = FALSE,
                 !.hlc_charging_active = ChargeMode = "DC",
                 !.hlc_allow_close_contactor = FALSE,
                 !.cable_known = FALSE,
                 !.hlc_charging_terminate_pause = "Unknown",
                 !.hlc_dc_renegotiation = FALSE,
                 !.timer["retain"] = "off",
                 !.hlc_session_paused_by_evse = FALSE,
                 !.hlc_session_restarted_by_ev = FALSE,
                 !.legacy_wakeup_done = FALSE,
                 !.hlc_d20_active = FALSE, !.hlc_d20_dynamic_mode = FALSE,
                 !.d20_pause_requested = FALSE, !.d20_pause_confirmed = FALSE]
        c2 == [PilotOff(c1, "X1") EXCEPT !.timer["x1"] = "off"]
    IN [DeauthorizeInternal(c2) EXCEPT
          !.flag_transaction_active = FALSE,
          !.last_shutdown_type = "None",      \* clear_errors_on_unplug
          !.slac_retries = 0, !.slac_retries_exhausted = FALSE,
          !.timer["wakeup"] = "off", !.hlc_failed = FALSE]

PassIdle(c, init) ==
    LET c1 == IF init THEN ResetSession(c) ELSE c
    IN IF c1.flag_disable_requested THEN Go(c1, "Disabled")
       ELSE IF FatalError(c1) /\ ~c1.cp_state_F_active THEN PilotOff(c1, "F")
       ELSE IF ~FatalError(c1) /\ c1.cp_state_F_active THEN PilotOff(c1, "X1")
       ELSE c1


\* 5 percent where HLC is configured, in AC while retries are left.
Use5PercentFor(c, hlc) ==
    IF ChargeMode = "AC"
    THEN hlc /\ Use5Percent /\ ~c.slac_retries_exhausted ELSE TRUE

\* The initialization of WaitingForAuthentication: no power, a session, and
\* 5 percent PWM where high level communication shall be tried.
EnterWaiting(c) ==
    LET c1 == [c EXCEPT !.allow_power_on = FALSE, !.timer["fallback"] = "off"]
        c2 == IF c.session_active THEN c1 ELSE StartSession(c1)
        hlc == IF ChargeMode = "AC" THEN AcHlc /\ ~c.hlc_failed
                                    ELSE c.ac_hlc_current_session
        five == Use5PercentFor(c, hlc)
        c3 == [c2 EXCEPT !.ac_hlc_current_session = hlc,
                         !.hlc_use_5percent = five]
        skip == c3.flag_authorized /\ ChargeMode = "AC" /\ hlc /\ ~EnforceHlc
    IN IF ~five \/ ~c.flag_ev_plugged_in THEN c3
       ELSE IF skip THEN [c3 EXCEPT !.hlc_use_5percent = FALSE]
       ELSE UpdatePwm(c3, "5percent")

\* Authorized by EIM on AC: which way leads to PrepareCharging (ISO 15118-3).
AuthorizedEim(c) ==
    IF c.ac_hlc_current_session /\ EnforceHlc /\ ~c.slac_retries_exhausted
    THEN Go([c EXCEPT !.hlc_use_5percent = TRUE], "PrepareCharging")
    ELSE IF ~c.ac_hlc_current_session \/ ~c.hlc_use_5percent
    THEN Go(c, "PrepareCharging")
    ELSE IF ~c.matching_started
    THEN Go([c EXCEPT !.t_step_EF_return_state = "PrepareCharging",
                      !.t_step_EF_return_pwm = "zero",
                      !.hlc_use_5percent = FALSE], "T_step_EF")
    ELSE IF c.hlc_charging_active THEN Go(c, "PrepareCharging")
    ELSE IF c.timer["fallback"] = "due"
    THEN Go([c EXCEPT !.t_step_X1_until_unmatched = FALSE,
                      !.hlc_use_5percent = FALSE], "T_step_X1")
    ELSE [c EXCEPT !.timer["fallback"] = "armed"]

\* Authorized by Plug and Charge on AC.
AuthorizedPnc(c) ==
    IF c.hlc_charging_active
    THEN Go([c EXCEPT !.hlc_use_5percent = TRUE], "PrepareCharging")
    ELSE IF ~c.hlc_use_5percent /\ ~c.dlink_established
    THEN Go(c, "PrepareCharging") ELSE c

\* Mutant: a transaction is started on every authorized pass.
AuthorizedAnew(c, env) ==
    LET c1 == StartTransaction(c)
    IN IF ChargeMode = "DC" THEN Go(c1, "PrepareCharging")
       ELSE IF c1.authorized_pnc THEN AuthorizedPnc(c1) ELSE AuthorizedEim(c1)

Authorized(c, env) ==
    LET c1 == IF c.flag_transaction_active THEN c ELSE StartTransaction(c)
    IN IF ~c.flag_transaction_active /\ MeterMayFail /\ ~env.meter THEN c
       ELSE IF ChargeMode = "DC" THEN Go(c1, "PrepareCharging")
       ELSE IF c1.authorized_pnc THEN AuthorizedPnc(c1) ELSE AuthorizedEim(c1)

PassWaiting(c, init, env) ==
    LET c1 == StopOnFatalError(IF init THEN EnterWaiting(c) ELSE c)
        c2 == [c1 EXCEPT !.cable_known = @ \/ (Socket /\ env.pp)]
    IN IF FatalError(c1) \/ ~c1.flag_ev_plugged_in
            \/ c1.flag_disable_requested \/ c1.flag_externally_cancelled
       THEN Go(c1, "Finished")
       ELSE IF (Socket /\ ~c2.cable_known)
               \/ (ChargeMode = "DC" /\ ~PowerAvailable(c2) /\ c2.age = 0)
               \/ ~c2.flag_authorized
       THEN c2
       ELSE Authorized(c2, env)

\* The states that interrupt a session give up on these.
Interrupted(c) ==
    FatalError(c) \/ ~c.flag_ev_plugged_in \/ c.flag_disable_requested

PassSwitchPhases(c, init) ==
    LET c1 == StopOnFatalError(IF init THEN PilotOff(c, SwitchCpState) ELSE c)
    IN IF Interrupted(c1) THEN Go(c1, "PrepareCharging")
       ELSE IF c1.age >= 1
       THEN Go([c1 EXCEPT !.switch_phases_ongoing = FALSE], "PrepareCharging")
       ELSE c1

\* age 1: T_STEP_EF, age 2: T_STEP_EF + STAY_IN_X1_AFTER_TSTEP_EF_MS
PassTStepEF(c, init) ==
    LET c0 == IF init THEN PilotOff([c EXCEPT !.t_step_ef_x1_pause = FALSE],
                                    "F") ELSE c
        c1 == StopOnFatalError(c0)
        back == IF c1.t_step_EF_return_pwm = "zero" THEN "X1"
                ELSE IF c1.hlc_use_5percent THEN "5percent"
                ELSE c1.t_step_EF_return_pwm
    IN IF Interrupted(c1)
       THEN Go(PilotOff(c1, "X1"), c1.t_step_EF_return_state)
       ELSE IF c1.age = 2
       THEN Go(UpdatePwm(c1, back), c1.t_step_EF_return_state)
       ELSE IF c1.age = 1 /\ ~c1.t_step_ef_x1_pause
       THEN PilotOff([c1 EXCEPT !.t_step_ef_x1_pause = TRUE], "X1")
       ELSE c1

\* age 1: TP_MATCH_LEAVE_MS, age 2: T_STEP_X1.  Without until_unmatched the
\* return state is PrepareCharging and the return duty cycle 0, i.e. X1.
PassTStepX1(c, init) ==
    LET c1 == StopOnFatalError(IF init THEN PilotOff(c, "X1") ELSE c)
        wait == c1.t_step_X1_until_unmatched
        c2 == [c1 EXCEPT !.t_step_X1_until_unmatched = FALSE]
        unmatched == ~c1.matching_started /\ ~c1.slac_matched
    IN IF Interrupted(c1)
       THEN Go(c2, IF wait THEN c1.t_step_EF_return_state
                           ELSE "PrepareCharging")
       ELSE IF wait /\ (c1.age = 2 \/ (unmatched /\ c1.age = 1))
       THEN Go(c2, "T_step_EF")
       ELSE IF ~wait /\ c1.age = 2
       THEN Go(PilotOff(c1, "X1"), "PrepareCharging")
       ELSE c1

PassReinit(c, init) ==
    LET c1 == IF init
              THEN [PilotOff(c, ReinitMethod) EXCEPT
                      !.reinit_running = TRUE,
                      !.iec_allow_close_contactor = FALSE,
                      !.hlc_allow_close_contactor = FALSE,
                      !.timer["reinit"] = IF ReinitTimed THEN "armed" ELSE "off"]
              ELSE c
    IN IF c1.timer["reinit"] = "armed" THEN c1
       ELSE Go(PilotOff([c1 EXCEPT !.reinit_running = FALSE,
                                   !.timer["reinit"] = "off"], "X1"),
               "WaitingForAuthentication")
-----------------------------------------------------------------------------
\* age 1: PREPARING_TIMEOUT_PAUSED_BY_EV, age 2: LEGACY_WAKEUP_TIMEOUT.
WaitForStateC(c) ==
    IF c.hlc_charging_active THEN c
    ELSE IF ~c.legacy_wakeup_done /\ c.age = 2
    THEN Go([c EXCEPT !.legacy_wakeup_done = TRUE,
                      !.t_step_EF_return_state = "PrepareCharging",
                      !.t_step_EF_return_pwm = NominalDuty(c)], "T_step_EF")
    ELSE IF c.legacy_wakeup_done /\ c.age >= 1 THEN Go(c, "ChargingPausedEV")
    ELSE c

\* Mutant: state C alone is enough.
ContactorMayCloseInC(c) == c.iec_allow_close_contactor

\* Both the pilot and, at 5 percent, the HLC stack ask for closed contactors.
ContactorMayClose(c) ==
    /\ c.iec_allow_close_contactor
    /\ c.hlc_use_5percent => c.hlc_allow_close_contactor

\* The end of PrepareCharging: PWM, then (AC) on to Charging.
ApplyPwm(c) ==
    LET nominal == ChargeMode = "AC" /\ (~c.hlc_use_5percent \/ c.hlc_failed)
        duty == IF nominal THEN NominalDuty(c) ELSE "5percent"
        c1 == UpdatePwmIfChanged(c, duty)
    IN IF duty # "X1" /\ MustWaitInX1(c) THEN c
       ELSE IF ChargeMode = "DC"
               \/ (~PowerAvailable(c1) /\ ~c1.hlc_use_5percent) THEN c1
       ELSE IF ContactorMayClose(c1) THEN Go(c1, "Charging")
       ELSE WaitForStateC(c1)

\* Mutant: an HLC session that has ended is prepared again.
PrepareGoesOn(c) == ApplyPwm(c)

\* An ended HLC session, and a wake-up that brought no link, do not go on.
Prepare(c) ==
    LET ended == c.hlc_charging_active
                    /\ c.hlc_charging_terminate_pause # "Unknown"
        c1 == IF ended THEN ResumeEvsePauseMarker(c) ELSE c
        c2 == IF c1.dlink_established
              THEN [c1 EXCEPT !.timer["wakeup"] = "off"] ELSE c1
    IN IF ended /\ ~EvsePauseResumable(c) THEN Go(c, "ChargingPausedEV")
       ELSE IF c2.timer["wakeup"] = "due"
       THEN ErrorSequence([c2 EXCEPT !.timer["wakeup"] = "off"])
       ELSE ApplyPwm(c2)

PassPrepareCharging(c, init) ==
    LET c0 == IF init THEN [BcbReset(c) EXCEPT !.timer["no_energy"] = "off"]
                      ELSE c
        c1 == StopOnFatalError(c0)
        c2 == IF ChargeMode = "DC" /\ c1.hlc_allow_close_contactor
                    /\ c1.iec_allow_close_contactor
              THEN [c1 EXCEPT !.allow_power_on = TRUE] ELSE c1
    IN IF FatalError(c1) \/ StopReason(c1) THEN Go(c1, "StoppingCharging")
       ELSE Prepare(c2)
-----------------------------------------------------------------------------
\* ISO 15118-20 scheduled mode: a pause is requested, and only stops the
\* charging once it has been notified to the EV.
ScheduledPause(c) ==
    c.hlc_charging_active /\ c.hlc_d20_active /\ ~c.hlc_d20_dynamic_mode

RequestPause(c) ==
    IF ~ScheduledPause(c) THEN c
    ELSE [c EXCEPT !.d20_pause_requested =
            c.flag_paused_by_evse \/ (@ /\ c.d20_pause_confirmed)]

\* What stops charging besides missing energy.
StopsCharging(c) ==
    \/ FatalError(c) \/ StopReason(c) \/ ~c.iec_allow_close_contactor
    \/ IF ScheduledPause(c) THEN c.d20_pause_confirmed ELSE c.flag_paused_by_evse

\* Without energy an HLC session has a timeout, basic charging stops at once.
NoEnergyStops(c) ==
    /\ ~PowerAvailable(c)
    /\ c.hlc_charging_active \/ c.hlc_use_5percent \/ ChargeMode = "AC"
    /\ (c.hlc_charging_active \/ c.hlc_use_5percent) /\ NoEnergyTimeout
            => c.timer["no_energy"] = "due"

\* Mutant: the permission is given before the reasons to stop are checked.
PassChargingEager(c, init, env) ==
    LET c1 == IF init THEN [c EXCEPT !.allow_power_on = TRUE] ELSE c
    IN IF FatalError(c1) \/ StopReason(c1) \/ ~c1.iec_allow_close_contactor
       THEN Go(c1, "StoppingCharging") ELSE c1

PassCharging(c, init, env) ==
    LET c0 == IF init
              THEN [c EXCEPT !.hlc_charging_terminate_pause = "Unknown",
                             !.timer["retain"] = "off",
                             !.hlc_session_paused_by_evse = FALSE] ELSE c
        c1 == RequestPause(StopOnFatalError(c0))
        c2 == [c1 EXCEPT !.timer["no_energy"] =
                 IF PowerAvailable(c1) \/ NoEnergyStops(c1) THEN "off"
                 ELSE IF @ = "off" /\ (c1.hlc_charging_active
                                         \/ c1.hlc_use_5percent)
                 THEN "armed" ELSE @]
        duty == IF c2.hlc_use_5percent THEN "5percent" ELSE NominalDuty(c2)
        c3 == IF ChargeMode = "AC" THEN [c2 EXCEPT !.legacy_wakeup_done = FALSE]
                                   ELSE c2
    IN IF StopsCharging(c1) THEN Go(c1, "StoppingCharging")
       ELSE IF NoEnergyStops(c1) THEN Go(c2, "StoppingCharging")
       ELSE IF init
       THEN LET on == [c3 EXCEPT !.allow_power_on = TRUE]
            IN IF ChargeMode = "AC" THEN UpdatePwmIfChanged(on, duty) ELSE on
       ELSE IF ChargeMode = "AC" /\ ~c2.hlc_use_5percent /\ env.late
       THEN UpdatePwmIfChanged(c2, duty)
       ELSE c2
-----------------------------------------------------------------------------
\* The HLC part of ChargingPausedEV: the EV may restart the session, and the
\* oscillator stops once the session has ended and its retain time is over.
PausedHlc(c) ==
    LET restart == c.hlc_session_restarted_by_ev \/ BcbDetected(c)
        c1 == [c EXCEPT !.hlc_session_restarted_by_ev = FALSE,
                        !.bcb_count = IF BcbDetected(c) THEN 0 ELSE @]
        c2 == IF restart
              THEN Go([c1 EXCEPT !.hlc_charging_terminate_pause = "Unknown",
                                 !.timer["retain"] = "off",
                                 !.timer["wakeup"] = "armed"],
                      "PrepareCharging")
              ELSE c1
    IN IF c2.hlc_charging_terminate_pause # "Unknown" /\ c2.pwm_running
            /\ c2.timer["retain"] = "off"
       THEN PilotOff(c2, "X1") ELSE c2

PassChargingPausedEV(c, env) ==
    IF StopReason(c) THEN Go(c, "StoppingCharging")
    ELSE IF c.hlc_charging_active THEN PausedHlc(c)
    ELSE IF ~PowerAvailable(c) THEN Go(c, "ChargingPausedEVSE")
    ELSE IF ~MustWaitInX1(c) /\ env.late
    THEN UpdatePwmIfChanged(c, NominalDuty(c))
    ELSE c

\* F for a while after a fault, in basic charging.
SignalFault(c) ==
    IF ~FAfterFault \/ c.hlc_charging_active THEN c
    ELSE LET c1 == IF EnteredFatalErrorState(c) THEN PilotOff(c, "F") ELSE c
         IN IF c1.cp_state_F_active /\ c1.timer["fault"] = "due"
            THEN PilotOff(c1, "X1") ELSE c1

\* Mutant: an ended session waits for the EV where nothing wakes it up.
ResumeFromPauseParks(c) ==
    IF (c.hlc_charging_active /\ c.hlc_charging_terminate_pause # "Unknown")
         \/ MustWaitInX1(c) \/ c.hlc_session_paused_by_evse
    THEN c ELSE Go(c, "PrepareCharging")

\* No reason to pause is left.
ResumeFromPause(c) ==
    LET ended == c.hlc_charging_active
                    /\ c.hlc_charging_terminate_pause # "Unknown"
    IN IF ended /\ EvsePauseResumable(c)
       THEN Go(ResumeEvsePauseMarker(c), "PrepareCharging")
       ELSE IF ended THEN Go(c, "ChargingPausedEV")
       ELSE IF MustWaitInX1(c) THEN c
       ELSE Go(c, "PrepareCharging")

PassChargingPausedEVSE(c, init) ==
    LET c0 == IF init /\ (~c.hlc_charging_active \/ ~c.flag_transaction_active)
              THEN PilotOff(c, "X1") ELSE c
        c1 == StopOnFatalError(SignalFault(c0))
    IN IF StopReason(c0) THEN Go(c0, "StoppingCharging")
       ELSE IF FatalError(c1) \/ ~PowerAvailable(c1) \/ c1.flag_paused_by_evse
       THEN c1
       ELSE ResumeFromPause(c1)

\* The initialization of StoppingCharging: ask the EV, or take the PWM away.
EnterStopping(c) ==
    LET pause == c.flag_paused_by_evse \/ c.d20_pause_confirmed
        d20 == c.hlc_charging_active /\ c.hlc_d20_active /\ pause
        c1 == [BcbReset(c) EXCEPT
                 !.hlc_dc_renegotiation = FALSE, !.legacy_wakeup_done = FALSE,
                 !.d20_pause_requested = FALSE, !.d20_pause_confirmed = FALSE,
                 !.stopping_for_evse_pause = pause,
                 !.d20_pause_ramp = d20 /\ c.hlc_d20_dynamic_mode,
                 !.d20_pause_notified = d20 /\ ~c.hlc_d20_dynamic_mode]
    IN IF c.hlc_charging_active THEN c1 ELSE PilotOff(c1, "X1")

\* age 1: stopping_charging_timeout_ms, which a pause notified at 0 A extends.
PassStoppingCharging(c, init) ==
    LET c1 == IF init THEN EnterStopping(c) ELSE c
        notify == c1.d20_pause_ramp /\ ~c1.d20_pause_notified /\ ~c1.dc_current
        c2 == IF notify THEN [c1 EXCEPT !.d20_pause_notified = TRUE, !.age = 0]
                        ELSE c1
        c3 == IF c2.age >= 1 THEN [c2 EXCEPT !.allow_power_on = FALSE] ELSE c2
        byUs == ~PowerAvailable(c3) \/ c3.flag_paused_by_evse
                    \/ c3.stopping_for_evse_pause
        c4 == IF byUs THEN c3 ELSE StopOnFatalError(c3)
    IN IF ~c3.contactor_open THEN c3
       ELSE IF StopReason(c3) THEN Go(c3, "Finished")
       ELSE IF byUs \/ FatalError(c4)
       THEN Go([c4 EXCEPT !.hlc_session_paused_by_evse =
                    c4.hlc_charging_active], "ChargingPausedEVSE")
       ELSE Go(c4, "ChargingPausedEV")

\* Mutant: "everything should already be off", so nothing is switched off.
PassFinishedTrusts(c, init) ==
    LET c0 == IF init /\ c.flag_transaction_active THEN StopTransaction(c)
                                                   ELSE c
    IN IF ~c0.flag_ev_plugged_in \/ c0.flag_disable_requested
       THEN Go(StopSession(c0),
               IF c0.flag_disable_requested THEN "Disabled" ELSE "Idle")
       ELSE c0

PassFinished(c, init) ==
    LET c0 == IF init /\ c.flag_transaction_active THEN StopTransaction(c)
                                                   ELSE c
        c1 == IF init THEN [c0 EXCEPT !.allow_power_on = FALSE] ELSE c0
    IN IF ~c1.flag_ev_plugged_in \/ c1.flag_disable_requested
       THEN Go(StopSession(c1),
               IF c1.flag_disable_requested THEN "Disabled" ELSE "Idle")
       ELSE c1
-----------------------------------------------------------------------------
\* process_pending_reinit_request: not before SLAC has let the link go.
PendingReinit(c) ==
    IF ~c.reinit_requested THEN c
    ELSE LET c1 == IF c.current_state = "Charging"
                   THEN Go(c, "StoppingCharging") ELSE c
             c2 == [c1 EXCEPT !.reinit_running = TRUE]
         IN IF c.slac_matched THEN c2
            ELSE Go([c2 EXCEPT !.reinit_requested = FALSE,
                               !.t_step_X1_until_unmatched = FALSE], "Reinit")

\* The head of the loop: state change detection, clean-up after a phase
\* switch, and the end of the oscillator's retain time in whatever state.
Begin(c, init) ==
    LET left == c.last_state_detect_state_change = "SwitchPhases"
                    /\ c.current_state # "SwitchPhases"
        c1 == [c EXCEPT !.last_state_detect_state_change = c.current_state,
                        !.detected_shutdown_type = c.shutdown_type,
                        !.age = IF init THEN 0 ELSE @,
                        !.switch_phases_ongoing = @ /\ ~left]
    IN IF c1.timer["retain"] # "due" THEN c1
       ELSE LET c2 == [c1 EXCEPT !.timer["retain"] = "off"]
            IN IF c2.pwm_running THEN PilotOff(c2, "X1") ELSE c2

\* One iteration of run_state_machine's loop.
Pass(ctx, env) ==
    LET c0 == PendingReinit(ctx)
        init == \/ c0.last_state_detect_state_change # c0.current_state
                \/ c0.detected_shutdown_type # c0.shutdown_type
        c == Begin(c0, init)
        state == c.current_state
    IN CASE state = "Disabled" -> PassDisabled(c, init)
         [] state = "Idle" -> PassIdle(c, init)
         [] state = "WaitingForAuthentication" -> PassWaiting(c, init, env)
         [] state = "SwitchPhases" -> PassSwitchPhases(c, init)
         [] state = "T_step_EF" -> PassTStepEF(c, init)
         [] state = "T_step_X1" -> PassTStepX1(c, init)
         [] state = "Reinit" -> PassReinit(c, init)
         [] state = "PrepareCharging" -> PassPrepareCharging(c, init)
         [] state = "Charging" -> PassCharging(c, init, env)
         [] state = "ChargingPausedEV" -> PassChargingPausedEV(c, env)
         [] state = "ChargingPausedEVSE" -> PassChargingPausedEVSE(c, init)
         [] state = "StoppingCharging" -> PassStoppingCharging(c, init)
         [] state = "Finished" -> PassFinished(c, init)

\* The loop ends when the state has not changed.
Settled(c) == c.last_state_detect_state_change = c.current_state
=============================================================================
