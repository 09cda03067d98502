-------------------------- MODULE ChargerStepProofs --------------------------
(***************************************************************************)
(* What a step of Charger may never do, for every configuration, every set *)
(* of calls and every bound: at 5 percent the permission to close the      *)
(* contactors is given only while the HLC stack asks for it, an HLC        *)
(* session that has ended does not get its oscillator back, and the        *)
(* oscillator it has keeps running for its retain time.                    *)
(***************************************************************************)
EXTENDS ChargerProofs

-----------------------------------------------------------------------------
\* A context, as far as assignments to its members are concerned.
Has(c) == DOMAIN c = Fields

\* d follows c without a permission given and without Charging entered.
Still(c, d) ==
    /\ Has(d)
    /\ d.allow_power_on => c.allow_power_on
    /\ d.current_state = "Charging" => c.current_state = "Charging"
    /\ d.last_state_detect_state_change = c.last_state_detect_state_change
    /\ d.detected_shutdown_type = c.detected_shutdown_type

\* ... and without the oscillator switched on.
Calm(c, d) == Still(c, d) /\ (d.pwm_running => c.pwm_running)

\* The members that decide whether the HLC stack agrees are left alone.
Agreed(c, d) ==
    /\ d.hlc_use_5percent = c.hlc_use_5percent
    /\ d.hlc_allow_close_contactor = c.hlc_allow_close_contactor

\* Two parts of a step, one after the other.
LEMMA CalmTrans ==
    ASSUME NEW c, NEW d, NEW e
    PROVE  /\ Still(c, d) /\ Still(d, e) => Still(c, e)
           /\ Calm(c, d) /\ Calm(d, e) => Calm(c, e)
BY DEF Still, Calm

\* The pilot is switched off.
LEMMA PilotOffCalm ==
    ASSUME NEW c, Has(c), NEW o
    PROVE  /\ Calm(c, PilotOff(c, o)) /\ Agreed(c, PilotOff(c, o))
           /\ PilotOff(c, o).current_state = c.current_state
BY DEF Has, Fields, PilotOff, Note, Calm, Still, Agreed

\* set_state
LEMMA GoCalm ==
    ASSUME NEW c, Has(c), NEW s
    PROVE  /\ Has(Go(c, s))
           /\ s # "Charging" => Calm(c, Go(c, s))
           /\ Agreed(c, Go(c, s))
BY DEF Has, Fields, Go, Calm, Still, Agreed

\* stop_charging_on_fatal_error_internal
LEMMA StopOnFatalErrorCalm ==
    ASSUME NEW c, Has(c)
    PROVE  /\ Calm(c, StopOnFatalError(c)) /\ Agreed(c, StopOnFatalError(c))
           /\ StopOnFatalError(c).current_state = c.current_state
BY DEF Has, Fields, StopOnFatalError, ShutDown, PilotOff, Note, Calm, Still, Agreed

-----------------------------------------------------------------------------
\* The states that neither give the permission nor lead to Charging.

\* Disabled and Finished.
LEMMA PassDisabledStill ==
    ASSUME NEW c, Has(c), NEW init
    PROVE  Still(c, PassDisabled(c, init))
BY DEF Has, Fields, PassDisabled, PilotOff, Note, Go, Still

\* Finished closes the books.
LEMMA PassFinishedStill ==
    ASSUME NEW c, Has(c), NEW init
    PROVE  Still(c, PassFinished(c, init))
BY DEF Has, Fields, PassFinished, StopTransaction, StopSession, EndSession, Hears,
       Go, Still

\* The initialization of Idle.
LEMMA ResetSessionStill ==
    ASSUME NEW c, Has(c)
    PROVE  Still(c, ResetSession(c))
<1> DEFINE c1 == [BcbReset(c) EXCEPT
                 !.iec_allow_close_contactor = FALSE,
                 !.hlc_charging_active = ChargeMode = "DC",
                 !.hlc_allow_close_contactor = FALSE,
                 !.cable_known = FALSE,
                 !.hlc_charging_terminate_pause = "Unknown",
                 !.hlc_dc_renegotiation = FALSE,
                 !.timer["retain"] = "off",
                 !.hlc_session_paused_by_evse = FALSE,
                 !.hlc_session_restarted_by_ev = FALSE,
                 !.legacy_wakeup_done = FALSE,
                 !.hlc_d20_active = FALSE, !.hlc_d20_dynamic_mode = FALSE,
                 !.d20_pause_requested = FALSE, !.d20_pause_confirmed = FALSE]
           p == PilotOff(c1, "X1")
           c2 == [p EXCEPT !.timer["x1"] = "off"]
           c3 == DeauthorizeInternal(c2)
<1>1. Still(c, c1)  BY DEF Has, Fields, BcbReset, Still
<1>2. Has(c1)  BY <1>1 DEF Still
<1> HIDE DEF c1
<1>3. Still(c1, p) /\ Has(p)  BY <1>2, PilotOffCalm DEF Calm, Still
<1> HIDE DEF p
<1>4. Still(p, c2) /\ Has(c2)  BY <1>3 DEF Has, Fields, Still
<1> HIDE DEF c2
<1>5. Still(c2, c3) /\ Has(c3)
  BY <1>4 DEF Has, Fields, Still, DeauthorizeInternal, EndSession, Hears
<1> HIDE DEF c3
<1>6. Still(c3, [c3 EXCEPT
          !.flag_transaction_active = FALSE,
          !.last_shutdown_type = "None",
          !.slac_retries = 0, !.slac_retries_exhausted = FALSE,
          !.timer["wakeup"] = "off", !.hlc_failed = FALSE])
  BY <1>5 DEF Has, Fields, Still
<1> QED  BY <1>1, <1>3, <1>4, <1>5, <1>6, CalmTrans DEF ResetSession, c1, p, c2, c3

\* Idle, with its initialization or without.
LEMMA PassIdleStill ==
    ASSUME NEW c, Has(c), NEW init
    PROVE  Still(c, PassIdle(c, init))
<1> DEFINE c1 == IF init THEN ResetSession(c) ELSE c
<1>1. Still(c, c) BY DEF Still
<1>2. Still(c, c1) /\ Has(c1)  BY <1>1, ResetSessionStill DEF Still
<1>3. PassIdle(c, init) \in
         {Go(c1, "Disabled"), PilotOff(c1, "F"), PilotOff(c1, "X1"), c1}
  BY DEF PassIdle
<1> HIDE DEF c1
<1>4. /\ Still(c1, Go(c1, "Disabled")) /\ Still(c1, PilotOff(c1, "F"))
      /\ Still(c1, PilotOff(c1, "X1")) /\ Still(c1, c1)
  BY <1>2, GoCalm, PilotOffCalm DEF Calm, Still
<1> QED  BY <1>2, <1>3, <1>4, CalmTrans

\* The sequences on the pilot, and the phase switch.
LEMMA PassSwitchPhasesStill ==
    ASSUME NEW c, Has(c), NEW init
    PROVE  Still(c, PassSwitchPhases(c, init))
<1> DEFINE c0 == IF init THEN PilotOff(c, SwitchCpState) ELSE c
           c1 == StopOnFatalError(c0)
<1>1. Still(c, c0) /\ Has(c0)  BY PilotOffCalm DEF Calm, Still
<1> HIDE DEF c0
<1>2. Still(c0, c1) /\ Has(c1)  BY <1>1, StopOnFatalErrorCalm DEF Calm, Still
<1> HIDE DEF c1
<1>3. /\ Still(c1, Go(c1, "PrepareCharging"))
      /\ Still(c1, Go([c1 EXCEPT !.switch_phases_ongoing = FALSE],
                      "PrepareCharging"))
      /\ Still(c1, c1)
  BY <1>2 DEF Has, Fields, Still, Go
<1>4. Still(c1, PassSwitchPhases(c, init))
  BY <1>3 DEF PassSwitchPhases, c1, c0
<1> QED  BY <1>1, <1>2, <1>4, CalmTrans

\* update_pwm_now, which may switch the oscillator on.
LEMMA UpdatePwmStill ==
    ASSUME NEW c, Has(c), NEW duty
    PROVE  /\ Still(c, UpdatePwm(c, duty)) /\ Agreed(c, UpdatePwm(c, duty))
           /\ Still(c, UpdatePwmIfChanged(c, duty))
           /\ Agreed(c, UpdatePwmIfChanged(c, duty))
           /\ UpdatePwm(c, duty).current_state = c.current_state
           /\ UpdatePwmIfChanged(c, duty).current_state = c.current_state
<1>1. /\ Still(c, UpdatePwm(c, duty)) /\ Agreed(c, UpdatePwm(c, duty))
      /\ UpdatePwm(c, duty).current_state = c.current_state
  BY PilotOffCalm DEF UpdatePwm, Has, Fields, Still, Agreed, Calm
<1> QED  BY <1>1 DEF UpdatePwmIfChanged, Still, Agreed

\* T_step_EF returns to the state it came from, which is not Charging.
LEMMA PassTStepEFStill ==
    ASSUME NEW c, Has(c), NEW init, c.t_step_EF_return_state # "Charging"
    PROVE  Still(c, PassTStepEF(c, init))
<1> DEFINE b == [c EXCEPT !.t_step_ef_x1_pause = FALSE]
           c0 == IF init THEN PilotOff(b, "F") ELSE c
           c1 == StopOnFatalError(c0)
           back == IF c1.t_step_EF_return_pwm = "zero" THEN "X1"
                   ELSE IF c1.hlc_use_5percent THEN "5percent"
                   ELSE c1.t_step_EF_return_pwm
           p == [c1 EXCEPT !.t_step_ef_x1_pause = TRUE]
<1>0. Has(b) /\ Still(c, b)  BY DEF Has, Fields, Still
<1>1. Still(c, c0) /\ Has(c0)
  BY <1>0, PilotOffCalm, CalmTrans DEF Calm, Still
<1>a. c0.t_step_EF_return_state = c.t_step_EF_return_state
  BY DEF Has, Fields, PilotOff, Note
<1> HIDE DEF c0
<1>2. Still(c0, c1) /\ Has(c1)  BY <1>1, StopOnFatalErrorCalm DEF Calm, Still
<1>b. c1.t_step_EF_return_state = c0.t_step_EF_return_state
  BY <1>1 DEF Has, Fields, StopOnFatalError, ShutDown, PilotOff, Note
<1> HIDE DEF c1
<1>3. PassTStepEF(c, init) \in
        {Go(PilotOff(c1, "X1"), c1.t_step_EF_return_state),
         Go(UpdatePwm(c1, back), c1.t_step_EF_return_state),
         PilotOff(p, "X1"), c1}
  BY DEF PassTStepEF, c0, c1
<1>4. Has(p) /\ Still(c1, p)  BY <1>2 DEF Has, Fields, Still
<1> HIDE DEF back, p
<1>5. Still(c1, PilotOff(c1, "X1")) /\ Still(c1, UpdatePwm(c1, back))
  BY <1>2, PilotOffCalm, UpdatePwmStill DEF Calm
<1>6. /\ Still(c1, Go(PilotOff(c1, "X1"), c1.t_step_EF_return_state))
      /\ Still(c1, Go(UpdatePwm(c1, back), c1.t_step_EF_return_state))
  BY <1>a, <1>b, <1>5, GoCalm, CalmTrans DEF Still, Calm
<1>7. Still(c1, PilotOff(p, "X1"))  BY <1>4, PilotOffCalm, CalmTrans DEF Calm
<1>8. Still(c1, c1)  BY <1>2 DEF Still
<1>9. Still(c1, PassTStepEF(c, init))  BY <1>3, <1>6, <1>7, <1>8
<1> QED  BY <1>1, <1>2, <1>9, CalmTrans

\* T_step_X1, which returns the same way once SLAC is unmatched.
LEMMA PassTStepX1Still ==
    ASSUME NEW c, Has(c), NEW init,
           c.t_step_X1_until_unmatched => c.t_step_EF_return_state # "Charging"
    PROVE  Still(c, PassTStepX1(c, init))
<1> DEFINE c0 == IF init THEN PilotOff(c, "X1") ELSE c
           c1 == StopOnFatalError(c0)
           c2 == [c1 EXCEPT !.t_step_X1_until_unmatched = FALSE]
           wait == c1.t_step_X1_until_unmatched
           s == IF wait THEN c1.t_step_EF_return_state ELSE "PrepareCharging"
<1>1. Still(c, c0) /\ Has(c0)  BY PilotOffCalm DEF Calm, Still
<1>a. /\ c0.t_step_EF_return_state = c.t_step_EF_return_state
      /\ c0.t_step_X1_until_unmatched = c.t_step_X1_until_unmatched
  BY DEF Has, Fields, PilotOff, Note
<1> HIDE DEF c0
<1>2. Still(c0, c1) /\ Has(c1)  BY <1>1, StopOnFatalErrorCalm DEF Calm, Still
<1>b. /\ c1.t_step_EF_return_state = c0.t_step_EF_return_state
      /\ c1.t_step_X1_until_unmatched = c0.t_step_X1_until_unmatched
  BY <1>1 DEF Has, Fields, StopOnFatalError, ShutDown, PilotOff, Note
<1> HIDE DEF c1
<1>3. PassTStepX1(c, init) \in
        {Go(c2, s), Go(c2, "T_step_EF"), Go(PilotOff(c1, "X1"), "PrepareCharging"),
         c1}
  BY DEF PassTStepX1, c0, c1
<1>4. Has(c2) /\ Still(c1, c2)  BY <1>2 DEF Has, Fields, Still
<1>5. s # "Charging"  BY <1>a, <1>b
<1> HIDE DEF c2, s
<1>6. Still(c1, Go(c2, s)) /\ Still(c1, Go(c2, "T_step_EF"))
  BY <1>4, <1>5, GoCalm, CalmTrans DEF Calm
<1>7. Still(c1, Go(PilotOff(c1, "X1"), "PrepareCharging"))
  BY <1>2, PilotOffCalm, GoCalm, CalmTrans DEF Calm, Still
<1>8. Still(c1, c1)  BY <1>2 DEF Still
<1>9. Still(c1, PassTStepX1(c, init))  BY <1>3, <1>6, <1>7, <1>8
<1> QED  BY <1>1, <1>2, <1>9, CalmTrans

\* A reinitialization switches the oscillator off.
LEMMA PassReinitCalm ==
    ASSUME NEW c, Has(c), NEW init
    PROVE  Calm(c, PassReinit(c, init))
<1> DEFINE c1 == IF init
                 THEN [PilotOff(c, ReinitMethod) EXCEPT
                         !.reinit_running = TRUE,
                         !.iec_allow_close_contactor = FALSE,
                         !.hlc_allow_close_contactor = FALSE,
                         !.timer["reinit"] = IF ReinitTimed THEN "armed" ELSE "off"]
                 ELSE c
           c2 == [c1 EXCEPT !.reinit_running = FALSE, !.timer["reinit"] = "off"]
           d == Go(PilotOff(c2, "X1"), "WaitingForAuthentication")
<1>1. PassReinit(c, init) \in {c1, d}  BY DEF PassReinit
<1>2. Calm(c, c1) /\ Has(c1)
  BY DEF Has, Fields, Calm, Still, PilotOff, Note
<1> HIDE DEF c1
<1>3. Calm(c1, c2) /\ Has(c2)  BY <1>2 DEF Has, Fields, Calm, Still
<1> HIDE DEF c2
<1>4. Calm(c2, d)  BY <1>3, PilotOffCalm, GoCalm, CalmTrans DEF Calm, Still
<1> HIDE DEF d
<1> QED  BY <1>1, <1>2, <1>3, <1>4, CalmTrans

\* The initialization of WaitingForAuthentication withdraws the permission.
LEMMA EnterWaitingStill ==
    ASSUME NEW c, Has(c)
    PROVE  Still(c, EnterWaiting(c))
<1> DEFINE c1 == [c EXCEPT !.allow_power_on = FALSE, !.timer["fallback"] = "off"]
           c2 == IF c.session_active THEN c1 ELSE StartSession(c1)
           hlcs == IF ChargeMode = "AC" THEN AcHlc /\ ~c.hlc_failed
                                        ELSE c.ac_hlc_current_session
           five == Use5PercentFor(c, hlcs)
           c3 == [c2 EXCEPT !.ac_hlc_current_session = hlcs,
                            !.hlc_use_5percent = five]
           c4 == [c3 EXCEPT !.hlc_use_5percent = FALSE]
           c5 == UpdatePwm(c3, "5percent")
<1>1. EnterWaiting(c) \in {c3, c4, c5}  BY DEF EnterWaiting
<1>2. Still(c, c2) /\ Has(c2)  BY DEF Has, Fields, Still, StartSession
<1> HIDE DEF c2, five, hlcs
<1>3. Still(c2, c3) /\ Has(c3)  BY <1>2 DEF Has, Fields, Still
<1> HIDE DEF c3
<1>4. Still(c3, c4) /\ Still(c3, c3)  BY <1>3 DEF Has, Fields, Still
<1>5. Still(c3, c5)  BY <1>3, UpdatePwmStill
<1> HIDE DEF c4, c5
<1>6. Still(c3, EnterWaiting(c))  BY <1>1, <1>4, <1>5
<1> QED  BY <1>2, <1>3, <1>6, CalmTrans

\* Authorized: the transaction, and the way to PrepareCharging.
LEMMA AuthorizedStill ==
    ASSUME NEW c, Has(c), NEW env
    PROVE  Still(c, Authorized(c, env))
<1> DEFINE c1 == IF c.flag_transaction_active THEN c ELSE StartTransaction(c)
<1>1. Still(c, c1) /\ Has(c1) /\ Still(c, c)
  BY DEF Has, Fields, Still, StartTransaction, Hears
<1> HIDE DEF c1
<1>2. Still(c1, AuthorizedEim(c1))
  BY <1>1 DEF Has, Fields, Still, AuthorizedEim, Go
<1>3. Still(c1, AuthorizedPnc(c1))
  BY <1>1 DEF Has, Fields, Still, AuthorizedPnc, Go
<1>4. Still(c1, Go(c1, "PrepareCharging"))  BY <1>1, GoCalm DEF Calm
<1>5. Authorized(c, env) \in {c, Go(c1, "PrepareCharging"), AuthorizedPnc(c1),
                              AuthorizedEim(c1)}
  BY DEF Authorized, c1
<1> QED  BY <1>1, <1>2, <1>3, <1>4, <1>5, CalmTrans

\* WaitingForAuthentication leads to PrepareCharging at most.
LEMMA PassWaitingStill ==
    ASSUME NEW c, Has(c), NEW init, NEW env
    PROVE  Still(c, PassWaiting(c, init, env))
<1> DEFINE c0 == IF init THEN EnterWaiting(c) ELSE c
           c1 == StopOnFatalError(c0)
           c2 == [c1 EXCEPT !.cable_known = @ \/ (Socket /\ env.pp)]
<1>1. Still(c, c0) /\ Has(c0)  BY EnterWaitingStill DEF Still
<1> HIDE DEF c0
<1>2. Still(c0, c1) /\ Has(c1)  BY <1>1, StopOnFatalErrorCalm DEF Calm, Still
<1> HIDE DEF c1
<1>3. Still(c1, c2) /\ Has(c2)  BY <1>2 DEF Has, Fields, Still
<1>4. PassWaiting(c, init, env) \in {Go(c1, "Finished"), c2, Authorized(c2, env)}
  BY DEF PassWaiting, c0, c1
<1> HIDE DEF c2
<1>5. Still(c1, Go(c1, "Finished"))  BY <1>2, GoCalm DEF Calm
<1>6. Still(c1, Authorized(c2, env))  BY <1>3, AuthorizedStill, CalmTrans
<1>7. Still(c1, PassWaiting(c, init, env))  BY <1>3, <1>4, <1>5, <1>6
<1> QED  BY <1>1, <1>2, <1>7, CalmTrans

-----------------------------------------------------------------------------
\* The states that pause and end a session leave the oscillator off, too.

\* An HLC session in ChargingPausedEV, which the EV may start over.
LEMMA PausedHlcCalm ==
    ASSUME NEW c, Has(c)
    PROVE  Calm(c, PausedHlc(c))
<1> DEFINE restart == c.hlc_session_restarted_by_ev \/ BcbDetected(c)
           c1 == [c EXCEPT !.hlc_session_restarted_by_ev = FALSE,
                           !.bcb_count = IF BcbDetected(c) THEN 0 ELSE @]
           a == [c1 EXCEPT !.hlc_charging_terminate_pause = "Unknown",
                           !.timer["retain"] = "off",
                           !.timer["wakeup"] = "armed"]
           c2 == IF restart THEN Go(a, "PrepareCharging") ELSE c1
<1>1. PausedHlc(c) \in {PilotOff(c2, "X1"), c2}  BY DEF PausedHlc
<1>2. Calm(c, c1) /\ Has(c1)  BY DEF Has, Fields, Still, Calm
<1> HIDE DEF c1
<1>3. Calm(c1, a) /\ Has(a) /\ Calm(c1, c1)  BY <1>2 DEF Has, Fields, Still, Calm
<1> HIDE DEF a
<1>4. Calm(c1, c2) /\ Has(c2)  BY <1>3, GoCalm, CalmTrans DEF Calm, Still
<1> HIDE DEF c2
<1>5. Calm(c2, PilotOff(c2, "X1")) /\ Calm(c2, c2)
  BY <1>4, PilotOffCalm DEF Calm, Still
<1> QED  BY <1>1, <1>2, <1>4, <1>5, CalmTrans

\* ChargingPausedEV: with HLC the oscillator is left as it is.
LEMMA PassChargingPausedEVStill ==
    ASSUME NEW c, Has(c), NEW env
    PROVE  /\ Still(c, PassChargingPausedEV(c, env))
           /\ c.hlc_charging_active => Calm(c, PassChargingPausedEV(c, env))
<1>1. Calm(c, Go(c, "StoppingCharging")) /\ Calm(c, Go(c, "ChargingPausedEVSE"))
  BY GoCalm
<1>2. Calm(c, PausedHlc(c)) /\ Calm(c, c)  BY PausedHlcCalm DEF Calm, Still
<1>3. Still(c, UpdatePwmIfChanged(c, NominalDuty(c)))  BY UpdatePwmStill
<1> QED  BY <1>1, <1>2, <1>3 DEF PassChargingPausedEV, Calm

\* ChargingPausedEVSE.
LEMMA PassChargingPausedEVSECalm ==
    ASSUME NEW c, Has(c), NEW init
    PROVE  Calm(c, PassChargingPausedEVSE(c, init))
<1> DEFINE c0 == IF init /\ (~c.hlc_charging_active \/ ~c.flag_transaction_active)
                 THEN PilotOff(c, "X1") ELSE c
           f == SignalFault(c0)
           c1 == StopOnFatalError(f)
           m == ResumeEvsePauseMarker(c1)
<1>1. Calm(c, c0) /\ Has(c0)  BY PilotOffCalm DEF Calm, Still
<1> HIDE DEF c0
<1>2. Calm(c0, f) /\ Has(f)
  <2> DEFINE g == IF EnteredFatalErrorState(c0) THEN PilotOff(c0, "F") ELSE c0
  <2>1. f \in {c0, g, PilotOff(g, "X1")}  BY DEF SignalFault
  <2>2. Calm(c0, g) /\ Has(g) /\ Calm(c0, c0)  BY <1>1, PilotOffCalm DEF Calm, Still
  <2> HIDE DEF g
  <2>3. Calm(c0, PilotOff(g, "X1"))  BY <2>2, PilotOffCalm, CalmTrans
  <2> QED  BY <2>1, <2>2, <2>3 DEF Calm, Still
<1> HIDE DEF f
<1>3. Calm(f, c1) /\ Has(c1)  BY <1>2, StopOnFatalErrorCalm DEF Calm, Still
<1> HIDE DEF c1
<1>4. PassChargingPausedEVSE(c, init) \in
        {Go(c0, "StoppingCharging"), c1, ResumeFromPause(c1)}
  BY DEF PassChargingPausedEVSE, c0, f, c1
<1>5. ResumeFromPause(c1) \in {Go(m, "PrepareCharging"), Go(c1, "ChargingPausedEV"),
                               c1, Go(c1, "PrepareCharging")}
  BY DEF ResumeFromPause
<1>6. Calm(c1, m) /\ Has(m)
  BY <1>3 DEF ResumeEvsePauseMarker, Has, Fields, Calm, Still
<1> HIDE DEF m
<1>7. /\ Calm(m, Go(m, "PrepareCharging")) /\ Calm(c1, Go(c1, "ChargingPausedEV"))
      /\ Calm(c1, Go(c1, "PrepareCharging")) /\ Calm(c1, c1)
      /\ Calm(c0, Go(c0, "StoppingCharging"))
  BY <1>1, <1>3, <1>6, GoCalm DEF Calm, Still
<1>8. Calm(c1, ResumeFromPause(c1))  BY <1>5, <1>6, <1>7, CalmTrans
<1>9. Calm(c, c1)  BY <1>1, <1>2, <1>3, CalmTrans
<1> QED  BY <1>1, <1>4, <1>7, <1>8, <1>9, CalmTrans

\* StoppingCharging, which finishes or pauses the session.
LEMMA PassStoppingChargingCalm ==
    ASSUME NEW c, Has(c), NEW init
    PROVE  Calm(c, PassStoppingCharging(c, init))
<1> DEFINE c1 == IF init THEN EnterStopping(c) ELSE c
           notify == c1.d20_pause_ramp /\ ~c1.d20_pause_notified /\ ~c1.dc_current
           c2 == IF notify THEN [c1 EXCEPT !.d20_pause_notified = TRUE, !.age = 0]
                           ELSE c1
           c3 == IF c2.age >= 1 THEN [c2 EXCEPT !.allow_power_on = FALSE] ELSE c2
           byUs == ~PowerAvailable(c3) \/ c3.flag_paused_by_evse
                       \/ c3.stopping_for_evse_pause
           c4 == IF byUs THEN c3 ELSE StopOnFatalError(c3)
           c5 == [c4 EXCEPT !.hlc_session_paused_by_evse = c4.hlc_charging_active]
<1>1. Calm(c, c1) /\ Has(c1)
  BY DEF EnterStopping, BcbReset, PilotOff, Note, Has, Fields, Calm, Still
<1> HIDE DEF c1
<1>2. Calm(c1, c2) /\ Has(c2)  BY <1>1 DEF Has, Fields, Calm, Still
<1> HIDE DEF c2
<1>3. Calm(c2, c3) /\ Has(c3)  BY <1>2 DEF Has, Fields, Calm, Still
<1> HIDE DEF c3
<1>4. Calm(c3, c4) /\ Has(c4)  BY <1>3, StopOnFatalErrorCalm DEF Calm, Still
<1> HIDE DEF c4
<1>5. Calm(c4, c5) /\ Has(c5)  BY <1>4 DEF Has, Fields, Calm, Still
<1> HIDE DEF c5
<1>6. PassStoppingCharging(c, init) \in
        {c3, Go(c3, "Finished"), Go(c5, "ChargingPausedEVSE"),
         Go(c4, "ChargingPausedEV")}
  BY DEF PassStoppingCharging, c1, c2, c3, c4, c5
<1>7. /\ Calm(c3, Go(c3, "Finished")) /\ Calm(c5, Go(c5, "ChargingPausedEVSE"))
      /\ Calm(c4, Go(c4, "ChargingPausedEV"))
  BY <1>3, <1>4, <1>5, GoCalm
<1>8. Calm(c, c3)  BY <1>1, <1>2, <1>3, CalmTrans
<1>9. Calm(c, c4) /\ Calm(c, c5)  BY <1>8, <1>4, <1>5, CalmTrans
<1> QED  BY <1>6, <1>7, <1>8, <1>9, CalmTrans

-----------------------------------------------------------------------------
\* PrepareCharging and Charging.

\* d follows c, nothing is given, and Charging is entered only in agreement
\* with the HLC stack.
Enters(c, d) ==
    /\ Has(d)
    /\ d.allow_power_on => c.allow_power_on
    /\ d.current_state = "Charging"
         => (d.hlc_use_5percent => d.hlc_allow_close_contactor)
    /\ d.last_state_detect_state_change = c.last_state_detect_state_change
    /\ d.detected_shutdown_type = c.detected_shutdown_type

\* What is still does not enter it.
LEMMA StillEnters ==
    ASSUME NEW c, NEW d, NEW e, c.current_state # "Charging"
    PROVE  /\ Still(c, d) => Enters(c, d)
           /\ Still(c, d) /\ Enters(d, e) => Enters(c, e)
BY DEF Still, Enters

\* request_error_sequence_internal
LEMMA ErrorSequenceCalm ==
    ASSUME NEW c, Has(c)
    PROVE  Calm(c, ErrorSequence(c))
<1> DEFINE exhausted == RetriesExhausted(c)
           limit == LimitRetries /\ ChargeMode = "AC"
           pwm == IF c.hlc_use_5percent /\ ~exhausted THEN "5percent" ELSE "zero"
           out == c.slac_retries_exhausted \/ exhausted
           five == c.hlc_use_5percent /\ ~exhausted
           n == IF limit /\ c.hlc_use_5percent /\ ~exhausted
                THEN c.slac_retries + 1 ELSE c.slac_retries
           wait == c.t_step_X1_until_unmatched \/ c.dlink_established
           s == IF c.dlink_established THEN "T_step_X1" ELSE "T_step_EF"
           c1 == [c EXCEPT !.t_step_EF_return_state = c.current_state,
                           !.t_step_EF_return_pwm = pwm,
                           !.slac_retries_exhausted = out,
                           !.hlc_use_5percent = five,
                           !.slac_retries = n,
                           !.t_step_X1_until_unmatched = wait,
                           !.current_state = s]
           d0 == [c EXCEPT !.dlink_established = FALSE]
           d1 == [c1 EXCEPT !.dlink_established = FALSE]
<1>1. ErrorSequence(c) \in {d0, d1}  BY DEF ErrorSequence
<1>2. s # "Charging"  OBVIOUS
<1> HIDE DEF exhausted, pwm, out, five, n, wait, s
<1>3. Calm(c, c1) /\ Has(c1)  BY <1>2 DEF Has, Fields, Calm, Still
<1>4. Calm(c, d0)  BY DEF Has, Fields, Calm, Still
<1> HIDE DEF c1
<1>5. Calm(c1, d1)  BY <1>3 DEF Has, Fields, Calm, Still
<1> HIDE DEF d0, d1
<1> QED  BY <1>1, <1>3, <1>4, <1>5, CalmTrans

\* PrepareCharging with a request for power applies the PWM and moves on.
LEMMA ApplyPwmEnters ==
    ASSUME NEW c, Has(c), c.current_state # "Charging"
    PROVE  Enters(c, ApplyPwm(c))
<1> DEFINE nominal == ChargeMode = "AC" /\ (~c.hlc_use_5percent \/ c.hlc_failed)
           duty == IF nominal THEN NominalDuty(c) ELSE "5percent"
           c1 == UpdatePwmIfChanged(c, duty)
           d == Go(c1, "Charging")
<1>1. \/ ApplyPwm(c) \in {c, c1, WaitForStateC(c1)}
      \/ ApplyPwm(c) = d /\ ContactorMayClose(c1)
  BY DEF ApplyPwm
<1> HIDE DEF duty
<1>2. Still(c, c1) /\ Has(c1) /\ c1.current_state # "Charging"
  BY UpdatePwmStill DEF Still
<1> HIDE DEF c1
<1>3. Still(c1, WaitForStateC(c1)) /\ Still(c1, c1)
  BY <1>2 DEF WaitForStateC, Go, Has, Fields, Still
<1>4. ContactorMayClose(c1) => Enters(c1, d)
  BY <1>2 DEF ContactorMayClose, Go, Has, Fields, Enters
<1> HIDE DEF d
<1>5. Still(c, c)  BY DEF Still
<1>6. CASE ApplyPwm(c) = d /\ ContactorMayClose(c1)  BY <1>2, <1>4, <1>6, StillEnters
<1>7. CASE ApplyPwm(c) \in {c, c1, WaitForStateC(c1)}
  BY <1>2, <1>3, <1>5, <1>7, StillEnters, CalmTrans
<1> QED  BY <1>1, <1>6, <1>7

\* An HLC session that has ended: either its end is forgotten, for a pause of
\* ours that is over, or it waits in ChargingPausedEV with the pilot as it is.
HasEnded(c) == c.hlc_charging_active /\ c.hlc_charging_terminate_pause # "Unknown"
EndHolds(c, d) ==
    HasEnded(c) /\ d.hlc_charging_terminate_pause # "Unknown"
    => (d.pwm_running => c.pwm_running)

\* The body of PrepareCharging.
LEMMA PrepareEnters ==
    ASSUME NEW c, Has(c), c.current_state # "Charging"
    PROVE  Enters(c, Prepare(c)) /\ EndHolds(c, Prepare(c))
<1> DEFINE ended == HasEnded(c)
           c1 == IF ended THEN ResumeEvsePauseMarker(c) ELSE c
           c2 == IF c1.dlink_established
                 THEN [c1 EXCEPT !.timer["wakeup"] = "off"] ELSE c1
           c3 == [c2 EXCEPT !.timer["wakeup"] = "off"]
<1>1. \/ Prepare(c) = Go(c, "ChargingPausedEV")
      \/ Prepare(c) \in {ErrorSequence(c3), ApplyPwm(c2)}
  BY DEF Prepare, HasEnded
<1>2. /\ Calm(c, c1) /\ Has(c1) /\ c1.current_state # "Charging"
      /\ ended => c1.hlc_charging_terminate_pause = "Unknown"
  BY DEF ResumeEvsePauseMarker, Has, Fields, Calm, Still
<1> HIDE DEF c1
<1>3. /\ Calm(c1, c2) /\ Has(c2) /\ c2.current_state # "Charging"
      /\ c2.hlc_charging_terminate_pause = c1.hlc_charging_terminate_pause
  BY <1>2 DEF Has, Fields, Calm, Still
<1> HIDE DEF c2
<1>4. /\ Calm(c2, c3) /\ Has(c3)
      /\ c3.hlc_charging_terminate_pause = c2.hlc_charging_terminate_pause
  BY <1>3 DEF Has, Fields, Calm, Still
<1> HIDE DEF c3
<1>5. CASE Prepare(c) = Go(c, "ChargingPausedEV")
  <2>1. Calm(c, Go(c, "ChargingPausedEV"))  BY GoCalm
  <2> QED  BY <1>5, <2>1, StillEnters DEF Calm, EndHolds
<1>6. CASE Prepare(c) = ErrorSequence(c3)
  <2>1. Calm(c3, ErrorSequence(c3))  BY <1>4, ErrorSequenceCalm
  <2>2. Calm(c, Prepare(c))  BY <1>2, <1>3, <1>4, <1>6, <2>1, CalmTrans
  <2> QED  BY <2>2, StillEnters DEF Calm, EndHolds
<1>7. CASE Prepare(c) = ApplyPwm(c2)
  <2>1. Enters(c2, ApplyPwm(c2))  BY <1>3, ApplyPwmEnters
  <2>2. Still(c, c2)  BY <1>2, <1>3, CalmTrans DEF Calm
  <2>3. Enters(c, Prepare(c))  BY <1>7, <2>1, <2>2, StillEnters
  <2>4. ApplyPwm(c2).hlc_charging_terminate_pause = c2.hlc_charging_terminate_pause
    BY <1>3 DEF ApplyPwm, UpdatePwmIfChanged, UpdatePwm, PilotOff, Note, Go,
         WaitForStateC, Has, Fields
  <2>5. ended => Prepare(c).hlc_charging_terminate_pause = "Unknown"
    BY <1>2, <1>3, <1>7, <2>4
  <2> QED  BY <2>3, <2>5 DEF EndHolds
<1> QED  BY <1>1, <1>5, <1>6, <1>7

\* In PrepareCharging the permission is given for DC, in agreement.
LEMMA PassPrepareChargingEnters ==
    ASSUME NEW c, Has(c), c.current_state = "PrepareCharging", NEW init
    PROVE  LET d == PassPrepareCharging(c, init)
           IN /\ EndHolds(c, d)
              /\ Has(d)
              /\ d.allow_power_on =>
                   c.allow_power_on \/ c.hlc_allow_close_contactor
              /\ d.current_state = "Charging"
                   => (d.hlc_use_5percent => d.hlc_allow_close_contactor)
              /\ d.last_state_detect_state_change = c.last_state_detect_state_change
              /\ d.detected_shutdown_type = c.detected_shutdown_type
<1> DEFINE c0 == IF init THEN [BcbReset(c) EXCEPT !.timer["no_energy"] = "off"]
                         ELSE c
           c1 == StopOnFatalError(c0)
           c2 == IF ChargeMode = "DC" /\ c1.hlc_allow_close_contactor
                       /\ c1.iec_allow_close_contactor
                 THEN [c1 EXCEPT !.allow_power_on = TRUE] ELSE c1
           d == PassPrepareCharging(c, init)
<1>1. /\ Calm(c, c0) /\ Has(c0) /\ Agreed(c, c0)
      /\ c0.current_state = "PrepareCharging"
      /\ c0.hlc_charging_active = c.hlc_charging_active
      /\ c0.hlc_charging_terminate_pause = c.hlc_charging_terminate_pause
  BY DEF BcbReset, Has, Fields, Calm, Still, Agreed
<1> HIDE DEF c0
<1>2. /\ Calm(c0, c1) /\ Has(c1) /\ Agreed(c0, c1)
      /\ c1.current_state = "PrepareCharging"
      /\ c1.hlc_charging_active = c0.hlc_charging_active
      /\ c1.hlc_charging_terminate_pause = c0.hlc_charging_terminate_pause
  <2>1. /\ Calm(c0, c1) /\ Has(c1) /\ Agreed(c0, c1)
        /\ c1.current_state = "PrepareCharging"
    BY <1>1, StopOnFatalErrorCalm DEF Calm, Still
  <2>2. /\ c1.hlc_charging_active = c0.hlc_charging_active
        /\ c1.hlc_charging_terminate_pause = c0.hlc_charging_terminate_pause
    BY <1>1 DEF StopOnFatalError, ShutDown, PilotOff, Note, Has, Fields
  <2> QED  BY <2>1, <2>2
<1> HIDE DEF c1
<1>3. /\ Has(c2) /\ c2.current_state = "PrepareCharging"
      /\ c2.allow_power_on => c1.allow_power_on \/ c1.hlc_allow_close_contactor
      /\ c2.pwm_running = c1.pwm_running
      /\ c2.hlc_charging_active = c1.hlc_charging_active
      /\ c2.hlc_charging_terminate_pause = c1.hlc_charging_terminate_pause
      /\ c2.last_state_detect_state_change = c1.last_state_detect_state_change
      /\ c2.detected_shutdown_type = c1.detected_shutdown_type
  BY <1>2 DEF Has, Fields
<1>4. d \in {Go(c1, "StoppingCharging"), Prepare(c2)}
  BY DEF PassPrepareCharging, c0, c1, c2
<1> HIDE DEF c2, d
<1>5. CASE d = Go(c1, "StoppingCharging")
  <2>1. Calm(c1, d)  BY <1>2, <1>5, GoCalm
  <2>2. Calm(c, d)  BY <1>1, <1>2, <2>1, CalmTrans
  <2> QED  BY <2>2 DEF Calm, Still, EndHolds, d
<1>6. CASE d = Prepare(c2)
  <2>1. Enters(c2, d) /\ EndHolds(c2, d)  BY <1>3, <1>6, PrepareEnters
  <2>2. EndHolds(c, d)
    BY <1>1, <1>2, <1>3, <2>1 DEF EndHolds, HasEnded, Calm
  <2>3. /\ Has(d)
        /\ d.allow_power_on => c.allow_power_on \/ c.hlc_allow_close_contactor
        /\ d.last_state_detect_state_change = c.last_state_detect_state_change
        /\ d.detected_shutdown_type = c.detected_shutdown_type
    BY <1>1, <1>2, <1>3, <2>1 DEF Enters, Calm, Still, Agreed
  <2> QED  BY <2>1, <2>2, <2>3 DEF Enters, d
<1> QED  BY <1>4, <1>5, <1>6

\* In Charging it is given when the state is entered, and not in an error.
LEMMA PassChargingGives ==
    ASSUME NEW c, Has(c), NEW init, NEW env, c.current_state = "Charging"
    PROVE  LET d == PassCharging(c, init, env)
           IN /\ Has(d)
              /\ d.allow_power_on =>
                   \/ c.allow_power_on
                   \/ init /\ c.shutdown_type = "None"
              /\ d.hlc_use_5percent = c.hlc_use_5percent
              /\ d.current_state = "Charging" => c.shutdown_type = "None"
              /\ d.last_state_detect_state_change = c.last_state_detect_state_change
              /\ d.detected_shutdown_type = c.detected_shutdown_type
<1> DEFINE c0 == IF init
              THEN [c EXCEPT !.hlc_charging_terminate_pause = "Unknown",
                             !.timer["retain"] = "off",
                             !.hlc_session_paused_by_evse = FALSE] ELSE c
           f == StopOnFatalError(c0)
           c1 == RequestPause(f)
           t == IF PowerAvailable(c1) \/ NoEnergyStops(c1) THEN "off"
                ELSE IF c1.timer["no_energy"] = "off" /\ (c1.hlc_charging_active
                                         \/ c1.hlc_use_5percent)
                THEN "armed" ELSE c1.timer["no_energy"]
           c2 == [c1 EXCEPT !.timer["no_energy"] = t]
           duty == IF c2.hlc_use_5percent THEN "5percent" ELSE NominalDuty(c2)
           c3 == IF ChargeMode = "AC" THEN [c2 EXCEPT !.legacy_wakeup_done = FALSE]
                                      ELSE c2
           on == [c3 EXCEPT !.allow_power_on = TRUE]
           d == PassCharging(c, init, env)
           Five(x) == x.hlc_use_5percent = c.hlc_use_5percent
           Shut(x) == x.shutdown_type = c.shutdown_type
<1>1. Still(c, c0) /\ Has(c0) /\ Five(c0) /\ Shut(c0)
  BY DEF Has, Fields, Still
<1> HIDE DEF c0
<1>2. Still(c0, f) /\ Has(f) /\ Five(f) /\ Shut(f)
  <2>1. Still(c0, f) /\ Has(f) /\ Five(f)
    BY <1>1, StopOnFatalErrorCalm DEF Calm, Still, Agreed
  <2>2. Shut(f)
    BY <1>1 DEF StopOnFatalError, ShutDown, PilotOff, Note, Has, Fields
  <2> QED  BY <2>1, <2>2
<1> HIDE DEF f
<1>3. Still(f, c1) /\ Has(c1) /\ Five(c1) /\ Shut(c1)
  BY <1>2 DEF RequestPause, Has, Fields, Still
<1> HIDE DEF c1
<1>4. Still(c1, c2) /\ Has(c2) /\ Five(c2) /\ Shut(c2)
  BY <1>3 DEF Has, Fields, Still
<1>5. \/ d \in {Go(c1, "StoppingCharging"), Go(c2, "StoppingCharging")}
      \/ /\ ~FatalError(c1)
         /\ \/ init /\ d \in {on, UpdatePwmIfChanged(on, duty)}
            \/ d \in {UpdatePwmIfChanged(c2, duty), c2}
  BY DEF PassCharging, StopsCharging, c0, f, c1
<1> HIDE DEF c2, duty, d
<1>6. Still(c2, c3) /\ Has(c3) /\ Five(c3)  BY <1>4 DEF Has, Fields, Still
<1> HIDE DEF c3
<1>7. /\ Has(on) /\ Five(on)
      /\ on.last_state_detect_state_change = c3.last_state_detect_state_change
      /\ on.detected_shutdown_type = c3.detected_shutdown_type
  BY <1>6 DEF Has, Fields
<1> HIDE DEF on
<1>8. Still(c, c1) /\ Still(c, c2)
  BY <1>1, <1>2, <1>3, <1>4, CalmTrans
<1>9. Still(c, c3)  BY <1>6, <1>8, CalmTrans
<1>10. CASE d \in {Go(c1, "StoppingCharging"), Go(c2, "StoppingCharging")}
  <2>1. Still(c, d)  BY <1>3, <1>4, <1>8, <1>10, GoCalm, CalmTrans DEF Calm
  <2>2. Five(d) /\ d.current_state # "Charging"
    BY <1>3, <1>4, <1>10 DEF Go, Has, Fields
  <2> QED  BY <2>1, <2>2 DEF Still, d
<1>11. CASE init /\ ~FatalError(c1) /\ d \in {on, UpdatePwmIfChanged(on, duty)}
  <2>1. Still(on, d) /\ Five(d)
    BY <1>7, <1>11, UpdatePwmStill DEF Still, Agreed
  <2>2. c.shutdown_type = "None"  BY <1>3, <1>11 DEF FatalError
  <2> QED  BY <1>7, <1>9, <1>11, <2>1, <2>2 DEF Still, d
<1>12. CASE ~FatalError(c1) /\ d \in {UpdatePwmIfChanged(c2, duty), c2}
  <2>1. Still(c2, d) /\ Five(d)
    BY <1>4, <1>12, UpdatePwmStill DEF Still, Agreed
  <2>2. c.shutdown_type = "None"  BY <1>3, <1>12 DEF FatalError
  <2>3. Still(c, d)  BY <1>8, <2>1, CalmTrans
  <2> QED  BY <2>1, <2>2, <2>3 DEF Still, d
<1> QED  BY <1>5, <1>10, <1>11, <1>12

-----------------------------------------------------------------------------
\* The head of an iteration, and a whole one.

\* Whether an HLC session has ended is left alone.
SameEnd(c, d) ==
    /\ d.hlc_charging_active = c.hlc_charging_active
    /\ d.hlc_charging_terminate_pause = c.hlc_charging_terminate_pause

\* A type of context is one with its members.
LEMMA CtxHas == ASSUME NEW c, IsCtx(c) PROVE Has(c)
BY DEF IsCtx, Has

\* process_pending_reinit_request leads away from Charging.
LEMMA PendingReinitCalm ==
    ASSUME NEW x, Has(x)
    PROVE  LET c == PendingReinit(x)
           IN /\ Calm(x, c) /\ Agreed(x, c) /\ SameEnd(x, c)
              /\ c.shutdown_type = x.shutdown_type
              /\ c.current_state = "Charging" => c = x
              /\ c.current_state \in
                   {x.current_state, "StoppingCharging", "Reinit"}
<1> DEFINE c1 == IF x.current_state = "Charging"
                 THEN Go(x, "StoppingCharging") ELSE x
           c2 == [c1 EXCEPT !.reinit_running = TRUE]
           c3 == [c2 EXCEPT !.reinit_requested = FALSE,
                            !.t_step_X1_until_unmatched = FALSE]
           c4 == Go(c3, "Reinit")
           Kept(c, d) == /\ Calm(c, d) /\ Agreed(c, d) /\ SameEnd(c, d)
                         /\ d.shutdown_type = c.shutdown_type
<1>1. \/ PendingReinit(x) = x
      \/ PendingReinit(x) \in {c2, c4}
  BY DEF PendingReinit
<1>2. /\ Kept(x, c1) /\ Has(c1)
      /\ c1.current_state \in {x.current_state, "StoppingCharging"} \ {"Charging"}
  BY DEF Go, Has, Fields, Calm, Still, Agreed, SameEnd
<1> HIDE DEF c1
<1>3. Kept(c1, c2) /\ Has(c2) /\ c2.current_state = c1.current_state
  BY <1>2 DEF Has, Fields, Calm, Still, Agreed, SameEnd
<1> HIDE DEF c2
<1>4. Kept(c2, c3) /\ Has(c3)
  BY <1>3 DEF Has, Fields, Calm, Still, Agreed, SameEnd
<1> HIDE DEF c3
<1>5. Kept(c3, c4) /\ c4.current_state = "Reinit"
  BY <1>4 DEF Go, Has, Fields, Calm, Still, Agreed, SameEnd
<1> HIDE DEF c4
<1>6. Kept(x, x)  BY DEF Calm, Still, Agreed, SameEnd
<1>7. Kept(x, c2) /\ Kept(x, c4)
  BY <1>2, <1>3, <1>4, <1>5 DEF Calm, Still, Agreed, SameEnd
<1> QED  BY <1>1, <1>2, <1>3, <1>5, <1>6, <1>7

\* The head of the loop notes the state and the shutdown.
LEMMA BeginCalm ==
    ASSUME NEW x, Has(x), NEW init
    PROVE  LET c == Begin(x, init)
           IN /\ Has(c) /\ Agreed(x, c) /\ SameEnd(x, c)
              /\ c.current_state = x.current_state
              /\ c.last_state_detect_state_change = x.current_state
              /\ c.shutdown_type = x.shutdown_type
              /\ c.detected_shutdown_type = x.shutdown_type
              /\ c.allow_power_on = x.allow_power_on
              /\ c.pwm_running => x.pwm_running
<1> DEFINE gone == x.last_state_detect_state_change = "SwitchPhases"
                       /\ x.current_state # "SwitchPhases"
           c1 == [x EXCEPT !.last_state_detect_state_change = x.current_state,
                           !.detected_shutdown_type = x.shutdown_type,
                           !.age = IF init THEN 0 ELSE @,
                           !.switch_phases_ongoing = @ /\ ~gone]
           c2 == [c1 EXCEPT !.timer["retain"] = "off"]
           Kept(c) == /\ Has(c) /\ Agreed(x, c) /\ SameEnd(x, c)
                      /\ c.current_state = x.current_state
                      /\ c.last_state_detect_state_change = x.current_state
                      /\ c.shutdown_type = x.shutdown_type
                      /\ c.detected_shutdown_type = x.shutdown_type
                      /\ c.allow_power_on = x.allow_power_on
                      /\ c.pwm_running => x.pwm_running
<1>1. Begin(x, init) \in {c1, c2, PilotOff(c2, "X1")}  BY DEF Begin
<1>2. Kept(c1)  BY DEF Has, Fields, Agreed, SameEnd
<1> HIDE DEF c1
<1>3. Kept(c2)  BY <1>2 DEF Has, Fields, Agreed, SameEnd
<1> HIDE DEF c2
<1>4. Kept(PilotOff(c2, "X1"))
  BY <1>3 DEF PilotOff, Note, Has, Fields, Agreed, SameEnd
<1> QED  BY <1>1, <1>2, <1>3, <1>4

\* Charging was entered in agreement with the HLC stack, and is not left to an
\* error that was noted.
Agreement(c) ==
    c.current_state = "Charging" =>
        IF c.last_state_detect_state_change = "Charging"
        THEN c.detected_shutdown_type = "None"
        ELSE c.hlc_use_5percent => c.hlc_allow_close_contactor

\* An iteration of run_state_machine's loop.
LEMMA PassAgrees ==
    ASSUME NEW x, Good(x), NEW env
    PROVE  LET d == Pass(x, env)
           IN /\ Has(d)
              /\ Agreement(x) =>
                   /\ Agreement(d)
                   /\ d.allow_power_on /\ d.hlc_use_5percent
                        => x.allow_power_on \/ x.hlc_allow_close_contactor
              /\ x.current_state \in InTransaction \ {"Charging"}
                   => EndHolds(x, d)
<1> DEFINE c0 == PendingReinit(x)
           init == \/ c0.last_state_detect_state_change # c0.current_state
                   \/ c0.detected_shutdown_type # c0.shutdown_type
           c == Begin(c0, init)
           s == c.current_state
           d == Pass(x, env)
<1>1. Base(x) /\ IsCtx(x) /\ Has(x)  BY CtxHas DEF Good, Base
<1>2. Base(c0) /\ Has(c0)
  BY <1>1, PendingReinitOk, CtxHas DEF Ok, Base
<1>3. /\ Calm(x, c0) /\ Agreed(x, c0) /\ SameEnd(x, c0)
      /\ c0.shutdown_type = x.shutdown_type
      /\ c0.current_state = "Charging" => c0 = x
      /\ c0.current_state \in {x.current_state, "StoppingCharging", "Reinit"}
  BY <1>1, PendingReinitCalm
<1>4. init \in BOOLEAN  OBVIOUS
<1>5. Base(c)  BY <1>2, <1>4, BeginOk
<1>6. /\ Has(c) /\ Agreed(c0, c) /\ SameEnd(c0, c)
      /\ s = c0.current_state
      /\ c.last_state_detect_state_change = s
      /\ c.shutdown_type = c0.shutdown_type
      /\ c.detected_shutdown_type = c0.shutdown_type
      /\ c.allow_power_on = c0.allow_power_on
      /\ c.pwm_running => c0.pwm_running
  <2> HIDE DEF c0, init
  <2> QED  BY <1>2, BeginCalm
<1>7. /\ s = "Disabled" => d = PassDisabled(c, init)
      /\ s = "Idle" => d = PassIdle(c, init)
      /\ s = "WaitingForAuthentication" => d = PassWaiting(c, init, env)
      /\ s = "SwitchPhases" => d = PassSwitchPhases(c, init)
      /\ s = "T_step_EF" => d = PassTStepEF(c, init)
      /\ s = "T_step_X1" => d = PassTStepX1(c, init)
      /\ s = "Reinit" => d = PassReinit(c, init)
      /\ s = "PrepareCharging" => d = PassPrepareCharging(c, init)
      /\ s = "Charging" => d = PassCharging(c, init, env)
      /\ s = "ChargingPausedEV" => d = PassChargingPausedEV(c, env)
      /\ s = "ChargingPausedEVSE" => d = PassChargingPausedEVSE(c, init)
      /\ s = "StoppingCharging" => d = PassStoppingCharging(c, init)
      /\ s = "Finished" => d = PassFinished(c, init)
  BY DEF Pass
<1>8. Agreement(x) /\ s = "Charging" /\ init /\ x.shutdown_type = "None"
      => (x.hlc_use_5percent => x.hlc_allow_close_contactor)
  BY <1>3, <1>6 DEF Agreement
<1> HIDE DEF c0, init, c, d
<1>9. s \in EvseState /\ Returns(c)  BY <1>5 DEF Base, IsCtx, Members
<1>10. /\ c.allow_power_on => x.allow_power_on
       /\ c.hlc_allow_close_contactor = x.hlc_allow_close_contactor
       /\ c.pwm_running => x.pwm_running
       /\ SameEnd(x, c)
  BY <1>3, <1>6 DEF Calm, Still, Agreed, SameEnd
<1>11. ASSUME s # "Charging", Still(c, d)
       PROVE  /\ Has(d) /\ Agreement(d)
              /\ d.allow_power_on => x.allow_power_on
  BY <1>10, <1>11 DEF Still, Agreement
<1>12. ASSUME Calm(c, d) PROVE EndHolds(x, d)
  BY <1>10, <1>12 DEF Calm, EndHolds
<1>13. CASE s \in {"Disabled", "Idle", "WaitingForAuthentication",
                   "SwitchPhases", "T_step_EF", "T_step_X1", "Finished"}
  <2>1. x.current_state \notin InTransaction \ {"Charging"}
    BY <1>3, <1>6, <1>13 DEF InTransaction
  <2>2. s = "Disabled" => Still(c, d)  BY <1>6, <1>7, PassDisabledStill
  <2>3. s = "Idle" => Still(c, d)  BY <1>6, <1>7, PassIdleStill
  <2>4. s = "WaitingForAuthentication" => Still(c, d)
    BY <1>6, <1>7, PassWaitingStill
  <2>5. s = "SwitchPhases" => Still(c, d)  BY <1>6, <1>7, PassSwitchPhasesStill
  <2>6. s = "T_step_EF" => Still(c, d)
    BY <1>6, <1>7, <1>9, PassTStepEFStill DEF Returns, ReturnStates
  <2>7. s = "T_step_X1" => Still(c, d)
    BY <1>6, <1>7, <1>9, PassTStepX1Still DEF Returns, ReturnStates
  <2>8. s = "Finished" => Still(c, d)  BY <1>6, <1>7, PassFinishedStill
  <2>9. Still(c, d)
    BY <1>13, <2>2, <2>3, <2>4, <2>5, <2>6, <2>7, <2>8
  <2> QED  BY <1>11, <1>13, <2>1, <2>9 DEF d
<1>14. CASE s \in {"Reinit", "ChargingPausedEVSE", "StoppingCharging"}
  <2>1. Calm(c, d)
    BY <1>6, <1>7, <1>14, PassReinitCalm, PassChargingPausedEVSECalm,
       PassStoppingChargingCalm
  <2> QED  BY <1>11, <1>12, <1>14, <2>1 DEF Calm, d
<1>15. CASE s = "ChargingPausedEV"
  <2>1. Still(c, d) /\ (c.hlc_charging_active => Calm(c, d))
    BY <1>6, <1>7, <1>15, PassChargingPausedEVStill
  <2>2. EndHolds(x, d)
    BY <1>10, <1>12, <2>1 DEF EndHolds, HasEnded, SameEnd
  <2> QED  BY <1>11, <1>15, <2>1, <2>2 DEF d
<1>16. CASE s = "PrepareCharging"
  <2>1. /\ EndHolds(c, d) /\ Has(d)
        /\ d.allow_power_on => c.allow_power_on \/ c.hlc_allow_close_contactor
        /\ d.current_state = "Charging"
             => (d.hlc_use_5percent => d.hlc_allow_close_contactor)
        /\ d.last_state_detect_state_change = "PrepareCharging"
    BY <1>6, <1>7, <1>16, PassPrepareChargingEnters
  <2>2. EndHolds(x, d)
    BY <1>10, <2>1 DEF EndHolds, HasEnded, SameEnd
  <2> QED  BY <1>10, <2>1, <2>2 DEF Agreement, d
<1>17. CASE s = "Charging"
  <2>1. /\ Has(d)
        /\ d.allow_power_on =>
             c.allow_power_on \/ (init /\ c.shutdown_type = "None")
        /\ d.hlc_use_5percent = c.hlc_use_5percent
        /\ d.current_state = "Charging" => c.shutdown_type = "None"
        /\ d.last_state_detect_state_change = "Charging"
        /\ d.detected_shutdown_type = c.shutdown_type
    BY <1>6, <1>7, <1>17, PassChargingGives
  <2>2. x.current_state = "Charging"  BY <1>3, <1>6, <1>17
  <2>3. c.hlc_use_5percent = x.hlc_use_5percent /\ c.shutdown_type = x.shutdown_type
    BY <1>3, <1>6 DEF Agreed
  <2> QED  BY <1>8, <1>10, <1>17, <2>1, <2>2, <2>3 DEF Agreement, d
<1> QED  BY <1>9, <1>13, <1>14, <1>15, <1>16, <1>17 DEF EvseState

-----------------------------------------------------------------------------
\* The events, and the main thread.

\* d follows c: nothing is given or switched on, nothing that decides about
\* the permission or about the end of the session has changed.
Follows(c, d) == Calm(c, d) /\ Agreed(c, d) /\ SameEnd(c, d)

\* Such a step keeps the agreement.
LEMMA FollowsAgree ==
    ASSUME NEW c, NEW d, Follows(c, d), Agreement(c)
    PROVE  Agreement(d)
BY DEF Follows, Calm, Still, Agreed, Agreement

\* Two of them are one.
LEMMA FollowsTrans ==
    ASSUME NEW c, NEW d, NEW e, Follows(c, d), Follows(d, e)
    PROVE  Follows(c, e)
BY DEF Follows, Calm, Still, Agreed, SameEnd

\* process_cp_events_independent
LEMMA IndependentEventFollows ==
    ASSUME NEW c, Has(c), NEW e
    PROVE  /\ Follows(c, IndependentEvent(c, e))
           /\ IndependentEvent(c, e).current_state = c.current_state
<1> DEFINE a == [c EXCEPT !.iec_allow_close_contactor = FALSE]
           b == [c EXCEPT !.flag_ev_plugged_in = FALSE]
           o == [c EXCEPT !.contactor_open = TRUE]
           p == [c EXCEPT !.contactor_open = FALSE]
<1>1. IndependentEvent(c, e) \in {a, b, o, p, c}  BY DEF IndependentEvent
<1>2. Follows(c, a) /\ a.current_state = c.current_state
  BY DEF Has, Fields, Follows, Calm, Still, Agreed, SameEnd
<1>3. Follows(c, b) /\ b.current_state = c.current_state
  BY DEF Has, Fields, Follows, Calm, Still, Agreed, SameEnd
<1>4. Follows(c, o) /\ o.current_state = c.current_state
  BY DEF Has, Fields, Follows, Calm, Still, Agreed, SameEnd
<1>5. Follows(c, p) /\ p.current_state = c.current_state
  BY DEF Has, Fields, Follows, Calm, Still, Agreed, SameEnd
<1>6. Follows(c, c)  BY DEF Follows, Calm, Still, Agreed, SameEnd
<1> QED  BY <1>1, <1>2, <1>3, <1>4, <1>5, <1>6

\* set_state to another state than Charging.
LEMMA GoFollows ==
    ASSUME NEW c, Has(c), NEW s, s = "Charging" => c.current_state = "Charging"
    PROVE  Follows(c, Go(c, s))
BY DEF Has, Fields, Go, Follows, Calm, Still, Agreed, SameEnd

\* The pulses of a BCB toggle are only counted.
LEMMA BcbFollows ==
    ASSUME NEW c, Has(c), NEW valid
    PROVE  Follows(c, BcbStartPulse(c)) /\ Follows(c, BcbStopPulse(c, valid))
<1>1. Follows(c, c)  BY DEF Follows, Calm, Still, Agreed, SameEnd
<1>2. Follows(c, BcbStartPulse(c))
  BY <1>1 DEF Has, Fields, BcbStartPulse, Follows, Calm, Still, Agreed, SameEnd
<1>3. Follows(c, BcbStopPulse(c, valid))
  BY <1>1 DEF Has, Fields, BcbStopPulse, Follows, Calm, Still, Agreed, SameEnd
<1> QED  BY <1>2, <1>3

\* process_cp_events_state
LEMMA StateEventFollows ==
    ASSUME NEW c, Has(c), NEW e, NEW valid
    PROVE  Follows(c, StateEvent(c, e, valid))
<1> DEFINE requests == [c EXCEPT !.iec_allow_close_contactor = TRUE]
           stops == [c EXCEPT !.iec_allow_close_contactor = FALSE]
           plugged == [c EXCEPT !.flag_ev_plugged_in = TRUE]
           paused == [stops EXCEPT !.hlc_session_paused_by_evse = FALSE]
           to == IF c.hlc_dc_renegotiation THEN c.current_state
                                           ELSE "ChargingPausedEVSE"
           d == StateEvent(c, e, valid)
<1>1. \/ d \in {Go(plugged, "WaitingForAuthentication"), requests, stops,
                Go(requests, "PrepareCharging"), BcbStartPulse(requests),
                BcbStopPulse(c, valid), BcbStartPulse(c), c}
      \/ c.current_state = "PrepareCharging" /\ d = Go(paused, to)
  BY DEF StateEvent, PulseEvent
<1>2. Follows(c, requests) /\ Has(requests)
  BY DEF Has, Fields, Follows, Calm, Still, Agreed, SameEnd
<1>3. Follows(c, stops) /\ Has(stops)
  BY DEF Has, Fields, Follows, Calm, Still, Agreed, SameEnd
<1>4. Follows(c, plugged) /\ Has(plugged)
  BY DEF Has, Fields, Follows, Calm, Still, Agreed, SameEnd
<1> HIDE DEF requests, stops, plugged, d
<1>5. Follows(stops, paused) /\ Has(paused)
  BY <1>3 DEF Has, Fields, Follows, Calm, Still, Agreed, SameEnd
<1> HIDE DEF paused
<1>6. Follows(plugged, Go(plugged, "WaitingForAuthentication"))
  BY <1>4, GoFollows
<1>7. Follows(requests, Go(requests, "PrepareCharging"))  BY <1>2, GoFollows
<1>8. c.current_state = "PrepareCharging" => Follows(paused, Go(paused, to))
  BY <1>5, GoFollows
<1>9. Follows(requests, BcbStartPulse(requests))  BY <1>2, BcbFollows
<1>10. Follows(c, BcbStopPulse(c, valid)) /\ Follows(c, BcbStartPulse(c))
  BY BcbFollows
<1>11. Follows(c, c)  BY DEF Follows, Calm, Still, Agreed, SameEnd
<1>12. /\ Follows(c, Go(plugged, "WaitingForAuthentication"))
       /\ Follows(c, Go(requests, "PrepareCharging"))
       /\ Follows(c, BcbStartPulse(requests))
  BY <1>2, <1>4, <1>6, <1>7, <1>9, FollowsTrans
<1>13. c.current_state = "PrepareCharging" => Follows(c, Go(paused, to))
  BY <1>3, <1>5, <1>8, FollowsTrans
<1>14. Follows(c, d)
  BY <1>1, <1>2, <1>3, <1>10, <1>11, <1>12, <1>13
<1> QED  BY <1>14 DEF d

\* An iteration, with the state dependent part of an event after it.
LEMMA IterateAgrees ==
    ASSUME NEW c, Good(c), NEW phase \in {"loop", "before", "after", "command"},
           NEW e, NEW env, NEW valid, Iterate(c, phase, e, env, valid)
    PROVE  /\ run'.phase = "none" => Settled(ctx')
           /\ Agreement(c) =>
                /\ Agreement(ctx')
                /\ ctx'.allow_power_on /\ ctx'.hlc_use_5percent
                     => c.allow_power_on \/ c.hlc_allow_close_contactor
           /\ c.current_state \in InTransaction \ {"Charging"}
                => EndHolds(c, ctx')
<1> DEFINE next == Pass(c, env)
           told == StateEvent(next, e, valid)
<1>1. /\ Has(next)
      /\ Agreement(c) =>
           /\ Agreement(next)
           /\ next.allow_power_on /\ next.hlc_use_5percent
                => c.allow_power_on \/ c.hlc_allow_close_contactor
      /\ c.current_state \in InTransaction \ {"Charging"} => EndHolds(c, next)
  BY PassAgrees
<1>2. \/ ctx' = next /\ run'.phase = phase
      \/ ctx' = told /\ run'.phase = "after"
      \/ ctx' = next /\ Settled(next)
  BY DEF Iterate, NotRunning
<1> HIDE DEF next
<1>3. Follows(next, told)  BY <1>1, StateEventFollows
<1> HIDE DEF told
<1>4. Agreement(next) => Agreement(told)  BY <1>3, FollowsAgree
<1>5. /\ told.allow_power_on => next.allow_power_on
      /\ told.hlc_use_5percent = next.hlc_use_5percent
  BY <1>3 DEF Follows, Calm, Still, Agreed
<1>6. EndHolds(c, next) => EndHolds(c, told)
  BY <1>3 DEF Follows, Calm, SameEnd, EndHolds
<1>7. CASE ctx' = next /\ run'.phase = phase  BY <1>1, <1>7
<1>8. CASE ctx' = told /\ run'.phase = "after"
  BY <1>1, <1>4, <1>5, <1>6, <1>8
<1>9. CASE ctx' = next /\ Settled(next)  BY <1>1, <1>9
<1> QED  BY <1>2, <1>7, <1>8, <1>9

-----------------------------------------------------------------------------
\* The calls.  None of them gives the permission or switches the oscillator on,
\* and only notify_currentdemand_started enters Charging.
LEMMA CalmRefl == ASSUME NEW c, Has(c) PROVE Calm(c, c)
BY DEF Calm, Still

\* The calls that do not take the mutex leave the agreement alone.
LEMMA FreeFollows ==
    ASSUME Has(ctx),
           \/ PauseCharging \/ ResumeCharging \/ StorePaused \/ SetHlcD20Active
           \/ UpdateDcPresentCurrent \/ DcOpenContactorPower
           \/ IecStep \/ IecC1Timeout
    PROVE  Follows(ctx, ctx') /\ run' = run
<1> USE DEF Has, Fields, Follows, Calm, Still, Agreed, SameEnd
<1>1. CASE PauseCharging \/ ResumeCharging
  BY <1>1 DEF PauseCharging, ResumeCharging, Asks
<1>2. CASE StorePaused  BY <1>2 DEF StorePaused
<1>3. CASE SetHlcD20Active
  <2>1. PICK dynamic \in BOOLEAN :
           ctx' = [ctx EXCEPT !.hlc_d20_active = TRUE,
                              !.hlc_d20_dynamic_mode = dynamic]
    BY <1>3 DEF SetHlcD20Active, Free
  <2>2. run' = run  BY <1>3 DEF SetHlcD20Active, Free
  <2> QED  BY <2>1, <2>2
<1>4. CASE UpdateDcPresentCurrent  BY <1>4 DEF UpdateDcPresentCurrent, Free
<1>5. CASE DcOpenContactorPower  BY <1>5 DEF DcOpenContactorPower
<1>6. CASE IecStep  BY <1>6 DEF IecStep
<1>7. CASE IecC1Timeout  BY <1>7 DEF IecC1Timeout
<1> QED  BY <1>1, <1>2, <1>3, <1>4, <1>5, <1>6, <1>7

\* The commands under the mutex.
LEMMA CommandCalm ==
    ASSUME Has(ctx),
           \/ Authorize \/ Deauthorize \/ CancelTransaction \/ StartReinit
           \/ SwitchThreePhases \/ ErrorThread \/ SetMaxCurrent
           \/ EnableDisableConnector
    PROVE  Calm(ctx, ctx') /\ run.phase = "none"
<1> USE DEF Locked
<1>1. CASE Authorize
  <2>1. PICK pnc \in BOOLEAN : ctx' = AuthorizedBy(ctx, pnc)
    BY <1>1 DEF Authorize
  <2> DEFINE c1 == IF ctx.session_active THEN ctx ELSE StartSession(ctx)
             c2 == [c1 EXCEPT !.flag_authorized = TRUE, !.authorized_pnc = pnc]
  <2>2. ctx' \in {ctx, c2}  BY <2>1 DEF AuthorizedBy
  <2>3. Calm(ctx, c1) /\ Has(c1)
    BY CalmRefl DEF StartSession, Has, Fields, Calm, Still
  <2> HIDE DEF c1
  <2>4. Calm(c1, c2)  BY <2>3 DEF Has, Fields, Calm, Still
  <2> HIDE DEF c2
  <2>5. Calm(ctx, ctx) /\ Calm(ctx, c2)
    BY <2>3, <2>4, CalmTrans, CalmRefl
  <2> QED  BY <1>1, <2>2, <2>5 DEF Authorize
<1>2. CASE Deauthorize
  BY <1>2 DEF Deauthorize, DeauthorizeInternal, EndSession, Hears, Has, Fields,
       Calm, Still
<1>3. CASE CancelTransaction
  BY <1>3 DEF CancelTransaction, Cancelled, Has, Fields, Calm, Still
<1>4. CASE StartReinit
  BY <1>4 DEF StartReinit, ReinitRequested, Has, Fields, Calm, Still
<1>5. CASE SwitchThreePhases
  BY <1>5 DEF SwitchThreePhases, Go, Has, Fields, Calm, Still
<1>6. CASE ErrorThread
  BY <1>6 DEF ErrorThread, Has, Fields, Calm, Still
<1>7. CASE SetMaxCurrent
  BY <1>7 DEF SetMaxCurrent, Has, Fields, Calm, Still
<1>8. CASE EnableDisableConnector
  <2>1. PICK connector_id \in {0, 1}, source \in Requests :
          LET winner == Winner(TableUpdate(table, source))
              enabled == IF connector_id # 0 THEN IsEnabled(winner)
                                               ELSE ctx.connector_enabled
              c1 == [ctx EXCEPT !.connector_enabled = enabled]
              c2 == IF ctx.current_state = "Disabled" /\ enabled
                    THEN Go([c1 EXCEPT !.flag_disable_requested = FALSE], "Idle")
                    ELSE c1
              changed == IsEnabled(winner) # IsEnabled(active)
          IN ctx' = IF changed /\ ~IsEnabled(winner)
                    THEN [c2 EXCEPT !.flag_disable_requested = TRUE] ELSE c2
    BY <1>8 DEF EnableDisableConnector
  <2> DEFINE enabled == IF connector_id # 0
                        THEN IsEnabled(Winner(TableUpdate(table, source)))
                        ELSE ctx.connector_enabled
             c1 == [ctx EXCEPT !.connector_enabled = enabled]
             b == [c1 EXCEPT !.flag_disable_requested = FALSE]
             c2 == IF ctx.current_state = "Disabled" /\ enabled
                   THEN Go(b, "Idle") ELSE c1
             d == [c2 EXCEPT !.flag_disable_requested = TRUE]
  <2>2. ctx' \in {c2, d}  BY <2>1
  <2> HIDE DEF enabled
  <2>3. Calm(ctx, c1) /\ Has(c1)  BY DEF Has, Fields, Calm, Still
  <2> HIDE DEF c1
  <2>4. Calm(c1, b) /\ Has(b)  BY <2>3 DEF Has, Fields, Calm, Still
  <2> HIDE DEF b
  <2>5. Calm(b, Go(b, "Idle")) /\ Has(Go(b, "Idle"))  BY <2>4, GoCalm
  <2>6. Calm(ctx, c2) /\ Has(c2)  BY <2>3, <2>4, <2>5, CalmTrans
  <2> HIDE DEF c2
  <2>7. Calm(c2, d)  BY <2>6 DEF Has, Fields, Calm, Still
  <2> HIDE DEF d
  <2>8. Calm(ctx, d)  BY <2>6, <2>7, CalmTrans
  <2> QED  BY <1>8, <2>2, <2>6, <2>8 DEF EnableDisableConnector
<1> QED  BY <1>1, <1>2, <1>3, <1>4, <1>5, <1>6, <1>7, <1>8

\* The HLC stack's flags.
LEMMA HlcFlagCalm ==
    ASSUME Has(ctx),
           \/ SetHlcChargingActive \/ SetHlcAllowCloseContactor
           \/ DcOpenContactorRequest \/ NotifyHlcSessionStarted
           \/ NotifyHlcPauseNotified \/ DcRenegotiationStarted
    PROVE  Calm(ctx, ctx') /\ run.phase = "none"
<1> USE DEF FromHlc, Locked, Has, Fields, Calm, Still
<1>1. CASE SetHlcChargingActive  BY <1>1 DEF SetHlcChargingActive
<1>2. CASE SetHlcAllowCloseContactor  BY <1>2 DEF SetHlcAllowCloseContactor
<1>3. CASE DcOpenContactorRequest  BY <1>3 DEF DcOpenContactorRequest
<1>4. CASE NotifyHlcSessionStarted  BY <1>4 DEF NotifyHlcSessionStarted
<1>5. CASE NotifyHlcPauseNotified  BY <1>5 DEF NotifyHlcPauseNotified
<1>6. CASE DcRenegotiationStarted  BY <1>6 DEF DcRenegotiationStarted, Go
<1> QED  BY <1>1, <1>2, <1>3, <1>4, <1>5, <1>6

\* Time, and SLAC.
LEMMA OutsideCalm ==
    ASSUME Has(ctx), Time \/ SlacCall
    PROVE  Calm(ctx, ctx') /\ run.phase = "none"
<1> USE DEF Has, Fields, Calm, Still
<1>1. CASE DeadlinePasses  BY <1>1 DEF DeadlinePasses
<1>2. CASE StateAges  BY <1>2 DEF StateAges
<1>3. CASE SlacMatching  BY <1>3 DEF SlacMatching, Slac
<1>4. CASE SlacMatched  BY <1>4 DEF SlacMatched, Slac
<1>5. CASE SetDlinkReady  BY <1>5 DEF SetDlinkReady, Slac
<1>6. CASE SlacUnmatched  BY <1>6 DEF SlacUnmatched, Locked
<1>7. CASE SlacUnmatchedToo  BY <1>7 DEF SlacUnmatchedToo, Slac
<1>8. CASE RequestErrorSequence
  BY <1>8, ErrorSequenceCalm DEF RequestErrorSequence, Locked
<1> QED
  BY <1>1, <1>2, <1>3, <1>4, <1>5, <1>6, <1>7, <1>8 DEF Time, SlacCall

\* The end of an HLC session, reported by the link layer or by the stack.
LEMMA HlcEndsCalm ==
    ASSUME NEW c, Has(c), NEW how
    PROVE  Calm(c, HlcEnds(c, how))
<1> DEFINE c1 == IF c.timer["retain"] = "off" THEN PilotOff(c, "X1") ELSE c
<1>1. Calm(c, c1) /\ Has(c1)  BY PilotOffCalm, CalmRefl DEF Calm, Still
<1> HIDE DEF c1
<1>2. Calm(c1, [c1 EXCEPT !.hlc_allow_close_contactor = FALSE,
                          !.hlc_charging_terminate_pause = how])
  BY <1>1 DEF Has, Fields, Calm, Still
<1> QED  BY <1>1, <1>2, CalmTrans DEF HlcEnds, c1

\* notify_session_stop_res_sent keeps the oscillator as it is, or stops it.
LEMMA SessionStopResCalm ==
    ASSUME NEW c, Has(c), NEW action
    PROVE  Calm(c, SessionStopRes(c, action))
<1> DEFINE c1 == [c EXCEPT !.hlc_allow_close_contactor = FALSE,
                           !.hlc_charging_terminate_pause =
                               IF action = "Pause" THEN "Pause" ELSE "Terminate"]
           c2 == [c1 EXCEPT !.timer["retain"] = "armed"]
<1>1. SessionStopRes(c, action) \in {c, PilotOff(c1, "X1"), c2}
  BY DEF SessionStopRes
<1>2. Calm(c, c1) /\ Has(c1)  BY DEF Has, Fields, Calm, Still
<1> HIDE DEF c1
<1>3. Calm(c1, c2)  BY <1>2 DEF Has, Fields, Calm, Still
<1> HIDE DEF c2
<1>4. Calm(c1, PilotOff(c1, "X1"))  BY <1>2, PilotOffCalm
<1>5. Calm(c, c2) /\ Calm(c, PilotOff(c1, "X1")) /\ Calm(c, c)
  BY <1>2, <1>3, <1>4, CalmTrans, CalmRefl
<1> QED  BY <1>1, <1>5

\* The way back to PrepareCharging of a session without its charging loop.
LEMMA BackToPrepareCalm ==
    ASSUME NEW c, Has(c)
    PROVE  Calm(c, BackToPrepare(c)) /\ Has(BackToPrepare(c))
BY DEF BackToPrepare, Has, Fields, Calm, Still

\* The section of dlink_error.
LEMMA DlinkFailedCalm ==
    ASSUME NEW c, Has(c)
    PROVE  Calm(c, DlinkFailed(c))
<1> DEFINE c1 == [c EXCEPT !.timer["retain"] = "off", !.hlc_failed = TRUE,
                           !.hlc_allow_close_contactor = FALSE]
           o == PilotOff(c1, "X1")
           o1 == IF c1.pwm_running THEN o ELSE c1
           o2 == [o1 EXCEPT !.allow_power_on = FALSE]
           b == BackToPrepare(c1)
           b1 == [b EXCEPT !.t_step_X1_until_unmatched = TRUE]
           c2 == IF ChargeMode = "AC"
                 THEN [c1 EXCEPT !.hlc_charging_active = FALSE] ELSE c1
           p == PilotOff(c2, "X1")
           c3 == IF c2.hlc_use_5percent THEN p ELSE c2
           c4 == [c3 EXCEPT
                    !.t_step_EF_return_state = "WaitingForAuthentication",
                    !.t_step_EF_return_pwm = "zero",
                    !.t_step_X1_until_unmatched = TRUE]
<1>1. DlinkFailed(c) \in {o2, Go(b1, "T_step_X1"), Go(c4, "T_step_X1"), c3}
  BY DEF DlinkFailed
<1>2. Calm(c, c1) /\ Has(c1)  BY DEF Has, Fields, Calm, Still
<1> HIDE DEF c1
<1>3. Calm(c1, o) /\ Has(o)  BY <1>2, PilotOffCalm DEF Calm, Still
<1> HIDE DEF o
<1>4. Calm(c1, o1) /\ Has(o1)  BY <1>2, <1>3, CalmRefl
<1> HIDE DEF o1
<1>5. Calm(o1, o2)  BY <1>4 DEF Has, Fields, Calm, Still
<1> HIDE DEF o2
<1>6. Calm(c1, b) /\ Has(b)  BY <1>2, BackToPrepareCalm
<1> HIDE DEF b
<1>7. Calm(b, b1) /\ Has(b1)  BY <1>6 DEF Has, Fields, Calm, Still
<1> HIDE DEF b1
<1>8. Calm(b1, Go(b1, "T_step_X1"))  BY <1>7, GoCalm
<1>9. Calm(c1, c2) /\ Has(c2)  BY <1>2 DEF Has, Fields, Calm, Still
<1> HIDE DEF c2
<1>10. Calm(c2, p) /\ Has(p)  BY <1>9, PilotOffCalm DEF Calm, Still
<1> HIDE DEF p
<1>11. Calm(c2, c3) /\ Has(c3)  BY <1>9, <1>10, CalmRefl
<1> HIDE DEF c3
<1>12. Calm(c3, c4) /\ Has(c4)  BY <1>11 DEF Has, Fields, Calm, Still
<1> HIDE DEF c4
<1>13. Calm(c4, Go(c4, "T_step_X1"))  BY <1>12, GoCalm
<1>14. Calm(c, o2)  BY <1>2, <1>4, <1>5, CalmTrans
<1>15. Calm(c, Go(b1, "T_step_X1"))
  <2>1. Calm(c, b1)  BY <1>2, <1>6, <1>7, CalmTrans
  <2> QED  BY <1>8, <2>1, CalmTrans
<1>16. Calm(c, c3)  BY <1>2, <1>9, <1>11, CalmTrans
<1>17. Calm(c, Go(c4, "T_step_X1"))
  <2>1. Calm(c, c4)  BY <1>12, <1>16, CalmTrans
  <2> QED  BY <1>13, <2>1, CalmTrans
<1> QED  BY <1>1, <1>14, <1>15, <1>16, <1>17

\* The link layer's signals.
LEMMA DlinkCalm ==
    ASSUME Has(ctx),
           \/ DlinkPause \/ DlinkTerminate \/ DlinkErrorSection
           \/ DlinkErrorReinit \/ NotifySessionStopResSent
    PROVE  Calm(ctx, ctx') /\ run.phase = "none"
<1> DEFINE c == Unlinked(ctx)
<1>0. Calm(ctx, c) /\ Has(c)  BY DEF Unlinked, Has, Fields, Calm, Still
<1>1. CASE DlinkPause
  BY <1>1, HlcEndsCalm, CalmRefl DEF DlinkPause, DlinkPaused, FromHlc, Locked
<1>2. CASE DlinkTerminate
  <2> DEFINE b == BackToPrepare(c)
  <2>1. ctx' \in {c, Go(b, "T_step_EF"), HlcEnds(c, "Terminate")}
    BY <1>2 DEF DlinkTerminate, Unlinked
  <2> HIDE DEF c
  <2>2. Calm(c, b) /\ Has(b)  BY <1>0, BackToPrepareCalm
  <2> HIDE DEF b
  <2>3. Calm(b, Go(b, "T_step_EF"))  BY <2>2, GoCalm
  <2>4. Calm(c, HlcEnds(c, "Terminate"))  BY <1>0, HlcEndsCalm
  <2>5. Calm(c, Go(b, "T_step_EF"))  BY <2>2, <2>3, CalmTrans
  <2>6. Calm(ctx, Go(b, "T_step_EF")) /\ Calm(ctx, HlcEnds(c, "Terminate"))
    BY <1>0, <2>4, <2>5, CalmTrans
  <2> QED  BY <1>0, <1>2, <2>1, <2>6 DEF DlinkTerminate
<1>3. CASE DlinkErrorSection
  <2>1. ctx' \in {c, DlinkFailed(c)}
    BY <1>3 DEF DlinkErrorSection, Unlinked
  <2> HIDE DEF c
  <2>2. Calm(c, DlinkFailed(c))  BY <1>0, DlinkFailedCalm
  <2>3. Calm(ctx, DlinkFailed(c))  BY <1>0, <2>2, CalmTrans
  <2> QED  BY <1>0, <1>3, <2>1, <2>3 DEF DlinkErrorSection
<1>4. CASE DlinkErrorReinit
  BY <1>4 DEF DlinkErrorReinit, ReinitRequested, Has, Fields, Calm, Still
<1>5. CASE NotifySessionStopResSent
  BY <1>5, SessionStopResCalm DEF NotifySessionStopResSent, FromHlc, Locked
<1> QED  BY <1>1, <1>2, <1>3, <1>4, <1>5

\* notify_currentdemand_started enters Charging by itself, no more.
LEMMA CurrentDemandStep ==
    ASSUME Has(ctx), NotifyCurrentDemandStarted
    PROVE  /\ "current_demand" \in Calls
           /\ ctx'.pwm_running = ctx.pwm_running
BY DEF NotifyCurrentDemandStarted, FromHlc, Locked, May, Go, Has, Fields

-----------------------------------------------------------------------------
\* What the steps keep.  Under the mutex Charging has been noted, so that a
\* call that withdraws the HLC stack's permission does not come between the
\* state that checks it and the one that gives it.
HlcInv ==
    /\ Agreement(ctx)
    /\ run.phase = "none" /\ ctx.current_state = "Charging" => Settled(ctx)

\* One step does not give the permission against the HLC stack.
GivesAgreed ==
    ctx'.allow_power_on /\ ctx'.hlc_use_5percent
    => ctx.allow_power_on \/ ctx.hlc_allow_close_contactor

\* One step does not start the oscillator for a session that has ended.
KeepsEnd ==
    ctx.current_state \in InTransaction \ {"Charging"} => EndHolds(ctx, ctx')

\* The main thread.
LEMMA MainThreadAgrees ==
    ASSUME CInv, MainLoop \/ ProcessEvent \/ NextIteration
    PROVE  KeepsEnd /\ (HlcInv => HlcInv' /\ GivesAgreed)
<1>0. Good(ctx) /\ IsCtx(ctx) /\ Has(ctx) /\ run \in RunType
  BY CtxHas DEF CInv, Good, Base, RestOK
<1>1. CASE MainLoop
  <2>1. PICK env \in Env(ctx.current_state) :
            Iterate(ctx, "loop", NoEvent, env, TRUE)
    BY <1>1 DEF MainLoop
  <2> QED  BY <1>0, <2>1, IterateAgrees DEF KeepsEnd, HlcInv, GivesAgreed
<1>2. CASE ProcessEvent
  <2> DEFINE e == Head(queue)
             c == IndependentEvent(ctx, e)
  <2>1. PICK env \in Env(ctx.current_state), valid \in Valid(e) :
            Iterate(c, "before", e, env, valid)
    BY <1>2 DEF ProcessEvent
  <2>2. Keeps(ctx, c)  BY <1>0, IndependentEventKeeps
  <2>3. Follows(ctx, c) /\ c.current_state = ctx.current_state
    BY <1>0, IndependentEventFollows
  <2> HIDE DEF c, e
  <2>4. Good(c)  BY <1>0, <2>2, KeepsFine DEF Fine
  <2>5. Agreement(ctx) => Agreement(c)  BY <2>3, FollowsAgree
  <2>6. /\ run'.phase = "none" => Settled(ctx')
        /\ Agreement(c) =>
             /\ Agreement(ctx')
             /\ ctx'.allow_power_on /\ ctx'.hlc_use_5percent
                  => c.allow_power_on \/ c.hlc_allow_close_contactor
        /\ c.current_state \in InTransaction \ {"Charging"}
             => EndHolds(c, ctx')
    BY <2>1, <2>4, IterateAgrees
  <2>7. /\ c.allow_power_on => ctx.allow_power_on
        /\ c.hlc_allow_close_contactor = ctx.hlc_allow_close_contactor
    BY <2>3 DEF Follows, Calm, Still, Agreed
  <2>8. EndHolds(c, ctx') => EndHolds(ctx, ctx')
    BY <2>3 DEF Follows, Calm, SameEnd, EndHolds, HasEnded
  <2> QED  BY <2>3, <2>5, <2>6, <2>7, <2>8 DEF KeepsEnd, HlcInv, GivesAgreed
<1>3. CASE NextIteration
  <2>1. PICK env \in Env(ctx.current_state), valid \in Valid(run.event) :
            Iterate(ctx, run.phase, run.event, env, valid)
    BY <1>3 DEF NextIteration
  <2>2. run.phase \in {"loop", "before", "after", "command"}
    BY <1>0, <1>3 DEF NextIteration, RunType
  <2> QED  BY <1>0, <2>1, <2>2, IterateAgrees DEF KeepsEnd, HlcInv, GivesAgreed
<1> QED  BY <1>1, <1>2, <1>3

\* A call that follows, wherever the main thread is.
LEMMA FollowsStep ==
    ASSUME Follows(ctx, ctx'), run' = run
    PROVE  KeepsEnd /\ (HlcInv => HlcInv' /\ GivesAgreed)
<1>1. Agreement(ctx) => Agreement(ctx')  BY FollowsAgree
<1>2. /\ ctx'.current_state = "Charging" /\ Settled(ctx) => Settled(ctx')
      /\ ctx'.current_state = "Charging" => ctx.current_state = "Charging"
  BY DEF Follows, Calm, Still, Settled
<1>3. GivesAgreed /\ KeepsEnd
  BY DEF Follows, Calm, Still, GivesAgreed, KeepsEnd, EndHolds
<1> QED  BY <1>1, <1>2, <1>3 DEF HlcInv

\* A call under the mutex.
LEMMA CalmStep ==
    ASSUME Calm(ctx, ctx'), run.phase = "none"
    PROVE  KeepsEnd /\ (HlcInv => HlcInv' /\ GivesAgreed)
<1>1. GivesAgreed /\ KeepsEnd
  BY DEF Calm, Still, GivesAgreed, KeepsEnd, EndHolds
<1>2. HlcInv => HlcInv'
  BY DEF Calm, Still, HlcInv, Agreement, Settled
<1> QED  BY <1>1, <1>2

\* Every step.
LEMMA AgreeingStep ==
    ASSUME CInv, [Next]_vars
    PROVE  /\ KeepsEnd
           /\ "current_demand" \notin Calls /\ HlcInv => HlcInv' /\ GivesAgreed
<1>0. Has(ctx)  BY CtxHas DEF CInv, Good, Base
<1>1. CASE MainLoop \/ ProcessEvent \/ NextIteration
  BY <1>1, MainThreadAgrees
<1>2. CASE \/ PauseCharging \/ ResumeCharging \/ StorePaused \/ SetHlcD20Active
           \/ UpdateDcPresentCurrent \/ DcOpenContactorPower
           \/ IecStep \/ IecC1Timeout
  BY <1>0, <1>2, FreeFollows, FollowsStep
<1>3. CASE \/ Authorize \/ Deauthorize \/ CancelTransaction \/ StartReinit
           \/ SwitchThreePhases \/ ErrorThread \/ SetMaxCurrent
           \/ EnableDisableConnector
  BY <1>0, <1>3, CommandCalm, CalmStep
<1>4. CASE \/ SetHlcChargingActive \/ SetHlcAllowCloseContactor
           \/ DcOpenContactorRequest \/ NotifyHlcSessionStarted
           \/ NotifyHlcPauseNotified \/ DcRenegotiationStarted
  BY <1>0, <1>4, HlcFlagCalm, CalmStep
<1>5. CASE Time \/ SlacCall  BY <1>0, <1>5, OutsideCalm, CalmStep
<1>6. CASE \/ DlinkPause \/ DlinkTerminate \/ DlinkError
           \/ DlinkErrorAfterTerminate \/ DlinkErrorReinit
           \/ NotifySessionStopResSent
  <2>1. \/ DlinkPause \/ DlinkTerminate \/ DlinkErrorSection
        \/ DlinkErrorReinit \/ NotifySessionStopResSent
    BY <1>6 DEF DlinkError, DlinkErrorAfterTerminate
  <2> QED  BY <1>0, <2>1, DlinkCalm, CalmStep
<1>7. CASE NotifyCurrentDemandStarted
  <2>1. "current_demand" \in Calls /\ ctx'.pwm_running = ctx.pwm_running
    BY <1>0, <1>7, CurrentDemandStep
  <2> QED  BY <2>1 DEF KeepsEnd, EndHolds
<1>8. CASE IecSimplified \/ Relays \/ EvMoves \/ UNCHANGED vars
  <2>1. ctx' = ctx /\ run' = run
    BY <1>8 DEF IecSimplified, Relays, EvMoves, vars
  <2>2. Follows(ctx, ctx')
    BY <1>0, <2>1 DEF Follows, Calm, Still, Agreed, SameEnd
  <2> QED  BY <2>1, <2>2, FollowsStep
<1> QED
  BY <1>1, <1>2, <1>3, <1>4, <1>5, <1>6, <1>7, <1>8
     DEF Next, Internal, Command, HlcCall

\* At 5 percent the permission to close the contactors is given only while the
\* HLC stack asks for it, for every configuration and every order of calls,
\* unless notify_currentdemand_started, which only a DC charger is wired to,
\* takes the state machine past the check.
THEOREM HlcStackPermits ==
    ASSUME "current_demand" \notin Calls
    PROVE  Spec => HlcPermits
<1>1. Init => HlcInv
  BY DEF Init, HlcInv, Agreement, NewContext
<1>2. CInv /\ HlcInv /\ [Next]_vars => HlcInv'  BY AgreeingStep
<1>3. CInv /\ HlcInv /\ [Next]_vars
      => [~ctx.allow_power_on /\ ctx'.allow_power_on /\ ctx'.hlc_use_5percent
            => ctx.hlc_allow_close_contactor]_vars
  BY AgreeingStep DEF GivesAgreed
<1> QED  BY <1>1, <1>2, <1>3, ChargerInvariant, PTL DEF Spec, HlcPermits

\* An HLC session that has ended does not get its oscillator back from a
\* resume, a new budget, a late event or any other call, in any configuration.
THEOREM EndedSessionStaysOff == Spec => EndedStaysOff
<1>1. CInv /\ [Next]_vars
      => [ctx.current_state \in InTransaction \ {"Charging"}
            /\ ctx.hlc_charging_active
            /\ ~ctx.pwm_running
            /\ ctx.hlc_charging_terminate_pause # "Unknown"
            /\ ctx'.hlc_charging_terminate_pause # "Unknown"
          => ~ctx'.pwm_running]_vars
  BY AgreeingStep DEF KeepsEnd, EndHolds, HasEnded
<1> QED  BY <1>1, ChargerInvariant, PTL DEF Spec, EndedStaysOff

-----------------------------------------------------------------------------
\* The oscillator's retain time.  A context whose deadlines are looked at, too.
HasTimers(c) == Has(c) /\ DOMAIN c.timer = Deadlines

\* The timer runs for an HLC session that has ended, and ChargingPausedEVSE
\* pauses a transaction.
RetainsEnded(c) == c.timer["retain"] # "off" => HasEnded(c)
PausesTransaction(c) ==
    c.current_state = "ChargingPausedEVSE" => c.flag_transaction_active

\* d follows c, and a timer that is still set afterwards is the old one.
Spares(c, d) ==
    /\ HasTimers(d)
    /\ d.last_state_detect_state_change = c.last_state_detect_state_change
    /\ d.shutdown_type = c.shutdown_type
    /\ PausesTransaction(c) => PausesTransaction(d)
    /\ d.timer["retain"] # "off" => /\ c.timer["retain"] # "off"
                                    /\ HasEnded(c) => HasEnded(d)

\* ... and the oscillator has been left running meanwhile.
Retains(c, d) ==
    /\ Spares(c, d)
    /\ /\ d.timer["retain"] # "off" /\ HasEnded(c) /\ c.pwm_running
       /\ c.shutdown_type # "EmergencyShutdown"
       => d.pwm_running

\* Two parts of a step, one after the other.
LEMMA RetainsTrans ==
    ASSUME NEW c, NEW d, NEW e
    PROVE  /\ Spares(c, d) /\ Spares(d, e) => Spares(c, e)
           /\ Retains(c, d) /\ Retains(d, e) => Retains(c, e)
BY DEF Spares, Retains

\* A part of a step that does nothing.
LEMMA RetainsRefl ==
    ASSUME NEW c, HasTimers(c)
    PROVE  Retains(c, c) /\ Spares(c, c)
BY DEF Spares, Retains

\* Without a timer, and without an ended session, the oscillator is free.
LEMMA SparesRetains ==
    ASSUME NEW c, NEW d, Spares(c, d),
           c.timer["retain"] = "off" \/ d.timer["retain"] = "off" \/ ~HasEnded(c)
    PROVE  Retains(c, d)
BY DEF Spares, Retains

\* The members that say whether the timer, the session's end and the
\* oscillator are as before.
Alike(c, d) ==
    /\ HasTimers(d)
    /\ d.current_state = c.current_state
    /\ d.last_state_detect_state_change = c.last_state_detect_state_change
    /\ d.shutdown_type = c.shutdown_type
    /\ d.flag_transaction_active = c.flag_transaction_active
    /\ d.timer["retain"] = c.timer["retain"]
    /\ d.hlc_charging_active = c.hlc_charging_active
    /\ d.hlc_charging_terminate_pause = c.hlc_charging_terminate_pause
    /\ d.pwm_running = c.pwm_running

\* What leaves them alone retains.
LEMMA AlikeRetains ==
    ASSUME NEW c, NEW d, Alike(c, d)
    PROVE  Retains(c, d) /\ Spares(c, d)
BY DEF Alike, Retains, Spares, PausesTransaction, HasEnded

\* The pilot is switched off.
LEMMA PilotOffSpares ==
    ASSUME NEW c, HasTimers(c), NEW o
    PROVE  LET d == PilotOff(c, o)
           IN /\ Spares(c, d) /\ HasTimers(d)
              /\ d.current_state = c.current_state
              /\ d.flag_transaction_active = c.flag_transaction_active
              /\ d.timer["retain"] = c.timer["retain"]
              /\ d.hlc_charging_active = c.hlc_charging_active
              /\ d.hlc_charging_terminate_pause = c.hlc_charging_terminate_pause
<1> DEFINE n == Note(c)
           d == PilotOff(c, o)
<1>1. Alike(c, n)
  BY DEF Note, Alike, HasTimers, Has, Fields, Deadlines
<1>2. HasTimers(n)  BY <1>1 DEF Alike
<1>3. /\ HasTimers(d)
      /\ d.current_state = n.current_state
      /\ d.last_state_detect_state_change = n.last_state_detect_state_change
      /\ d.shutdown_type = n.shutdown_type
      /\ d.flag_transaction_active = n.flag_transaction_active
      /\ d.timer = n.timer
      /\ d.hlc_charging_active = n.hlc_charging_active
      /\ d.hlc_charging_terminate_pause = n.hlc_charging_terminate_pause
  <2> HIDE DEF n
  <2> QED  BY <1>2 DEF PilotOff, n, HasTimers, Has, Fields
<1> QED  BY <1>1, <1>3 DEF Alike, Spares, PausesTransaction, HasEnded

\* set_state
LEMMA GoRetains ==
    ASSUME NEW c, HasTimers(c), NEW s,
           s = "ChargingPausedEVSE" => c.flag_transaction_active
    PROVE  Retains(c, Go(c, s)) /\ Spares(c, Go(c, s)) /\ HasTimers(Go(c, s))
BY DEF Go, HasTimers, Has, Fields, Retains, Spares, PausesTransaction, HasEnded

\* stop_charging_on_fatal_error_internal stops the PWM in an emergency only.
LEMMA StopOnFatalErrorRetains ==
    ASSUME NEW c, HasTimers(c)
    PROVE  LET d == StopOnFatalError(c)
           IN /\ Retains(c, d) /\ Spares(c, d) /\ HasTimers(d)
              /\ d.current_state = c.current_state
              /\ d.flag_transaction_active = c.flag_transaction_active
              /\ d.timer["retain"] = c.timer["retain"]
              /\ d.hlc_charging_active = c.hlc_charging_active
              /\ d.hlc_charging_terminate_pause = c.hlc_charging_terminate_pause
<1> DEFINE p == IF c.shutdown_type = "EmergencyShutdown" /\ c.pwm_running
                THEN PilotOff(c, "X1") ELSE c
           q == [p EXCEPT !.allow_power_on = FALSE]
           r == [q EXCEPT !.timer["fault"] = "armed"]
           entered == FatalError(c) /\ c.last_shutdown_type # c.shutdown_type
           c1 == IF entered THEN r ELSE c
           d == StopOnFatalError(c)
           Same2(x, y) ==
             /\ Retains(x, y) /\ HasTimers(y)
             /\ y.current_state = x.current_state
             /\ y.flag_transaction_active = x.flag_transaction_active
             /\ y.timer["retain"] = x.timer["retain"]
             /\ y.hlc_charging_active = x.hlc_charging_active
             /\ y.hlc_charging_terminate_pause = x.hlc_charging_terminate_pause
<1>1. Same2(c, p)
  <2>1. CASE c.shutdown_type = "EmergencyShutdown" /\ c.pwm_running
    BY <2>1, PilotOffSpares DEF Retains
  <2>2. CASE ~(c.shutdown_type = "EmergencyShutdown" /\ c.pwm_running)
    BY <2>2, RetainsRefl
  <2> QED  BY <2>1, <2>2
<1>2. d = [c1 EXCEPT !.last_shutdown_type = c.shutdown_type,
                     !.timer["fault"] = IF FatalError(c) THEN @ ELSE "off"]
  BY DEF StopOnFatalError, ShutDown
<1> HIDE DEF p
<1>3. Alike(p, q)  BY <1>1 DEF Alike, HasTimers, Has, Fields
<1> HIDE DEF q
<1>4. Alike(q, r)  BY <1>3 DEF Alike, HasTimers, Has, Fields, Deadlines
<1> HIDE DEF r
<1>5. Same2(c, r)
  BY <1>1, <1>3, <1>4, AlikeRetains, RetainsTrans DEF Alike
<1>6. Same2(c, c1)  BY <1>5, RetainsRefl
<1> HIDE DEF c1, entered
<1>7. Alike(c1, d)  BY <1>2, <1>6 DEF Alike, HasTimers, Has, Fields, Deadlines
<1> HIDE DEF d
<1>8. Same2(c, d)
  BY <1>6, <1>7, AlikeRetains, RetainsTrans DEF Alike
<1> QED  BY <1>8 DEF Retains, d

\* update_pwm_now and its variant: a duty cycle that is none keeps it running.
LEMMA UpdatePwmSpares ==
    ASSUME NEW c, HasTimers(c), NEW duty
    PROVE  LET d == UpdatePwmIfChanged(c, duty)
               e == UpdatePwm(c, duty)
               Kept(x) == /\ Spares(c, x) /\ HasTimers(x)
                          /\ x.current_state = c.current_state
                          /\ x.flag_transaction_active = c.flag_transaction_active
                          /\ duty \notin {"X1", "zero"} => Retains(c, x)
           IN Kept(d) /\ Kept(e)
<1> DEFINE e == UpdatePwm(c, duty)
           w == [c EXCEPT !.pwm_running = TRUE, !.last_duty_cycle = duty,
                          !.cp_state_F_active = FALSE, !.output = "PWM"]
           Kept(x) == /\ Spares(c, x) /\ HasTimers(x)
                      /\ x.current_state = c.current_state
                      /\ x.flag_transaction_active = c.flag_transaction_active
                      /\ duty \notin {"X1", "zero"} => Retains(c, x)
<1>1. Kept(w)
  BY DEF HasTimers, Has, Fields, Retains, Spares, PausesTransaction, HasEnded
<1>2. Kept(e)
  <2> HIDE DEF w
  <2>1. CASE duty \in {"X1", "zero"}
    BY <2>1, PilotOffSpares DEF UpdatePwm
  <2>2. CASE duty \notin {"X1", "zero"}
    <3>1. e = w  BY <2>2 DEF UpdatePwm, w
    <3> QED  BY <1>1, <3>1
  <2> QED  BY <2>1, <2>2
<1>3. Kept(c)  BY RetainsRefl
<1> HIDE DEF w
<1>4. Kept(UpdatePwmIfChanged(c, duty))
  BY <1>2, <1>3 DEF UpdatePwmIfChanged
<1> QED  BY <1>2, <1>4

-----------------------------------------------------------------------------
\* The states outside a transaction leave the timer to the session that has
\* ended, or reset both.

\* Disabled and Finished.
LEMMA PassDisabledSpares ==
    ASSUME NEW c, HasTimers(c), NEW init
    PROVE  Spares(c, PassDisabled(c, init))
<1> DEFINE c1 == IF init THEN PilotOff(c, "F") ELSE c
<1>1. Spares(c, c1) /\ HasTimers(c1)  BY PilotOffSpares, RetainsRefl
<1>2. PassDisabled(c, init) \in {c1, Go(c1, "Idle")}  BY DEF PassDisabled
<1> HIDE DEF c1
<1>3. Spares(c1, Go(c1, "Idle"))  BY <1>1, GoRetains
<1> QED  BY <1>1, <1>2, <1>3, RetainsTrans

\* Finished closes the books, which is not a pause.
LEMMA PassFinishedSpares ==
    ASSUME NEW c, HasTimers(c), NEW init, c.current_state = "Finished"
    PROVE  Spares(c, PassFinished(c, init))
<1> DEFINE t == StopTransaction(c)
           c0 == IF init /\ c.flag_transaction_active THEN t ELSE c
           c1 == IF init THEN [c0 EXCEPT !.allow_power_on = FALSE] ELSE c0
           e == StopSession(c1)
           s == IF c1.flag_disable_requested THEN "Disabled" ELSE "Idle"
           Over(x, y) == Spares(x, y) /\ HasTimers(y) /\ y.current_state = "Finished"
<1>1. Over(c, t)
  BY DEF StopTransaction, Hears, HasTimers, Has, Fields, Spares,
         PausesTransaction, HasEnded
<1> HIDE DEF t
<1>2. Over(c, c0)  BY <1>1, RetainsRefl
<1> HIDE DEF c0
<1>3. Over(c0, c1)
  BY <1>2 DEF HasTimers, Has, Fields, Spares, PausesTransaction, HasEnded
<1> HIDE DEF c1
<1>4. Over(c1, e)
  BY <1>3 DEF StopSession, EndSession, Hears, HasTimers, Has, Fields, Spares,
              PausesTransaction, HasEnded
<1>5. PassFinished(c, init) \in {c1, Go(e, s)}
  BY DEF PassFinished, c1, c0, t
<1> HIDE DEF e
<1>6. Spares(e, Go(e, s))  BY <1>4, GoRetains
<1> HIDE DEF s
<1>7. Spares(c, c1)  BY <1>2, <1>3, RetainsTrans
<1>8. Spares(c, Go(e, s))  BY <1>4, <1>6, <1>7, RetainsTrans
<1> QED  BY <1>5, <1>7, <1>8

\* The initialization of Idle switches the timer off.
LEMMA ResetSessionSpares ==
    ASSUME NEW c, HasTimers(c), c.current_state = "Idle"
    PROVE  Spares(c, ResetSession(c)) /\ HasTimers(ResetSession(c))
<1> DEFINE b == BcbReset(c)
           c1 == [b EXCEPT
                 !.iec_allow_close_contactor = FALSE,
                 !.hlc_charging_active = ChargeMode = "DC",
                 !.hlc_allow_close_contactor = FALSE,
                 !.cable_known = FALSE,
                 !.hlc_charging_terminate_pause = "Unknown",
                 !.hlc_dc_renegotiation = FALSE,
                 !.timer["retain"] = "off",
                 !.hlc_session_paused_by_evse = FALSE,
                 !.hlc_session_restarted_by_ev = FALSE,
                 !.legacy_wakeup_done = FALSE,
                 !.hlc_d20_active = FALSE, !.hlc_d20_dynamic_mode = FALSE,
                 !.d20_pause_requested = FALSE, !.d20_pause_confirmed = FALSE]
           p == PilotOff(c1, "X1")
           c2 == [p EXCEPT !.timer["x1"] = "off"]
           c3 == DeauthorizeInternal(c2)
           d == [c3 EXCEPT
                   !.flag_transaction_active = FALSE,
                   !.last_shutdown_type = "None",
                   !.slac_retries = 0, !.slac_retries_exhausted = FALSE,
                   !.timer["wakeup"] = "off", !.hlc_failed = FALSE]
           Off(x) == /\ HasTimers(x) /\ x.current_state = "Idle"
                     /\ x.timer["retain"] = "off"
                     /\ x.last_state_detect_state_change
                          = c.last_state_detect_state_change
                     /\ x.shutdown_type = c.shutdown_type
<1>1. HasTimers(b) /\ Alike(c, b)
  BY DEF BcbReset, Alike, HasTimers, Has, Fields
<1> HIDE DEF b
<1>2. Off(c1)  BY <1>1 DEF Alike, HasTimers, Has, Fields, Deadlines
<1> HIDE DEF c1
<1>3. Off(p)  BY <1>2, PilotOffSpares DEF Spares
<1> HIDE DEF p
<1>4. Off(c2)  BY <1>3 DEF HasTimers, Has, Fields, Deadlines
<1> HIDE DEF c2
<1>5. Off(c3)
  BY <1>4 DEF DeauthorizeInternal, EndSession, Hears, HasTimers, Has, Fields
<1> HIDE DEF c3
<1>6. Off(d)  BY <1>5 DEF HasTimers, Has, Fields, Deadlines
<1>7. ResetSession(c) = d  BY DEF ResetSession, d, c3, c2, p, c1, b
<1> HIDE DEF d
<1> QED  BY <1>6, <1>7 DEF Spares, PausesTransaction

\* Idle, with its initialization or without.
LEMMA PassIdleSpares ==
    ASSUME NEW c, HasTimers(c), NEW init, c.current_state = "Idle"
    PROVE  Spares(c, PassIdle(c, init))
<1> DEFINE c1 == IF init THEN ResetSession(c) ELSE c
<1>1. Spares(c, c1) /\ HasTimers(c1)  BY ResetSessionSpares, RetainsRefl
<1>2. PassIdle(c, init) \in
         {Go(c1, "Disabled"), PilotOff(c1, "F"), PilotOff(c1, "X1"), c1}
  BY DEF PassIdle
<1> HIDE DEF c1
<1>3. /\ Spares(c1, Go(c1, "Disabled")) /\ Spares(c1, PilotOff(c1, "F"))
      /\ Spares(c1, PilotOff(c1, "X1")) /\ Spares(c1, c1)
  BY <1>1, GoRetains, PilotOffSpares, RetainsRefl
<1> QED  BY <1>1, <1>2, <1>3, RetainsTrans

\* The phase switch.
LEMMA PassSwitchPhasesSpares ==
    ASSUME NEW c, HasTimers(c), NEW init
    PROVE  Spares(c, PassSwitchPhases(c, init))
<1> DEFINE c0 == IF init THEN PilotOff(c, SwitchCpState) ELSE c
           c1 == StopOnFatalError(c0)
           c2 == [c1 EXCEPT !.switch_phases_ongoing = FALSE]
<1>1. Spares(c, c0) /\ HasTimers(c0)  BY PilotOffSpares, RetainsRefl
<1> HIDE DEF c0
<1>2. Spares(c0, c1) /\ HasTimers(c1)  BY <1>1, StopOnFatalErrorRetains
<1>3. PassSwitchPhases(c, init) \in
        {Go(c1, "PrepareCharging"), Go(c2, "PrepareCharging"), c1}
  BY DEF PassSwitchPhases, c0
<1> HIDE DEF c1
<1>4. Alike(c1, c2)  BY <1>2 DEF Alike, HasTimers, Has, Fields
<1>5. Spares(c1, c2) /\ HasTimers(c2)  BY <1>4, AlikeRetains DEF Alike
<1> HIDE DEF c2
<1>6. /\ Spares(c1, Go(c1, "PrepareCharging"))
      /\ Spares(c2, Go(c2, "PrepareCharging"))
  BY <1>2, <1>5, GoRetains
<1>7. Spares(c, c1)  BY <1>1, <1>2, RetainsTrans
<1>8. Spares(c, c2)  BY <1>5, <1>7, RetainsTrans
<1> QED  BY <1>3, <1>6, <1>7, <1>8, RetainsTrans

\* T_step_EF comes back to a state that is no pause.
LEMMA PassTStepEFSpares ==
    ASSUME NEW c, HasTimers(c), NEW init,
           c.t_step_EF_return_state # "ChargingPausedEVSE"
    PROVE  Spares(c, PassTStepEF(c, init))
<1> DEFINE b == [c EXCEPT !.t_step_ef_x1_pause = FALSE]
           c0 == IF init THEN PilotOff(b, "F") ELSE c
           c1 == StopOnFatalError(c0)
           back == IF c1.t_step_EF_return_pwm = "zero" THEN "X1"
                   ELSE IF c1.hlc_use_5percent THEN "5percent"
                   ELSE c1.t_step_EF_return_pwm
           o == PilotOff(c1, "X1")
           u == UpdatePwm(c1, back)
           p == [c1 EXCEPT !.t_step_ef_x1_pause = TRUE]
           s == c1.t_step_EF_return_state
<1>0. Alike(c, b)  BY DEF Alike, HasTimers, Has, Fields
<1>1. Spares(c, b) /\ HasTimers(b)  BY <1>0, AlikeRetains DEF Alike
<1>2. c0.t_step_EF_return_state = c.t_step_EF_return_state
  BY DEF HasTimers, Has, Fields, PilotOff, Note
<1> HIDE DEF b
<1>3. Spares(c, c0) /\ HasTimers(c0)
  BY <1>1, PilotOffSpares, RetainsRefl, RetainsTrans
<1> HIDE DEF c0
<1>4. Spares(c0, c1) /\ HasTimers(c1)  BY <1>3, StopOnFatalErrorRetains
<1>5. s = c0.t_step_EF_return_state
  BY <1>3 DEF HasTimers, Has, Fields, StopOnFatalError, ShutDown, PilotOff, Note
<1>6. PassTStepEF(c, init) \in {Go(o, s), Go(u, s), PilotOff(p, "X1"), c1}
  BY DEF PassTStepEF, c0, b
<1> HIDE DEF c1, back
<1>7. Alike(c1, p)  BY <1>4 DEF Alike, HasTimers, Has, Fields
<1>8. Spares(c1, p) /\ HasTimers(p)  BY <1>7, AlikeRetains DEF Alike
<1> HIDE DEF p
<1>9. Spares(c1, PilotOff(p, "X1"))  BY <1>8, PilotOffSpares, RetainsTrans
<1>10. Spares(c1, o) /\ HasTimers(o)  BY <1>4, PilotOffSpares
<1> HIDE DEF o
<1>11. Spares(c1, u) /\ HasTimers(u)  BY <1>4, UpdatePwmSpares
<1> HIDE DEF u, s
<1>12. s # "ChargingPausedEVSE"  BY <1>2, <1>5
<1>13. Spares(o, Go(o, s)) /\ Spares(u, Go(u, s))
  BY <1>10, <1>11, <1>12, GoRetains
<1>14. Spares(c1, Go(o, s)) /\ Spares(c1, Go(u, s)) /\ Spares(c1, c1)
  BY <1>4, <1>10, <1>11, <1>13, RetainsTrans, RetainsRefl
<1>15. Spares(c1, PassTStepEF(c, init))  BY <1>6, <1>9, <1>14
<1>16. Spares(c, c1)  BY <1>3, <1>4, RetainsTrans
<1> QED  BY <1>15, <1>16, RetainsTrans

\* So does T_step_X1.
LEMMA PassTStepX1Spares ==
    ASSUME NEW c, HasTimers(c), NEW init,
           c.t_step_X1_until_unmatched
             => c.t_step_EF_return_state # "ChargingPausedEVSE"
    PROVE  Spares(c, PassTStepX1(c, init))
<1> DEFINE c0 == IF init THEN PilotOff(c, "X1") ELSE c
           c1 == StopOnFatalError(c0)
           c2 == [c1 EXCEPT !.t_step_X1_until_unmatched = FALSE]
           wait == c1.t_step_X1_until_unmatched
           s == IF wait THEN c1.t_step_EF_return_state ELSE "PrepareCharging"
           o == PilotOff(c1, "X1")
<1>1. Spares(c, c0) /\ HasTimers(c0)  BY PilotOffSpares, RetainsRefl
<1>2. /\ c0.t_step_EF_return_state = c.t_step_EF_return_state
      /\ c0.t_step_X1_until_unmatched = c.t_step_X1_until_unmatched
  BY DEF HasTimers, Has, Fields, PilotOff, Note
<1> HIDE DEF c0
<1>3. Spares(c0, c1) /\ HasTimers(c1)  BY <1>1, StopOnFatalErrorRetains
<1>4. /\ c1.t_step_EF_return_state = c0.t_step_EF_return_state
      /\ c1.t_step_X1_until_unmatched = c0.t_step_X1_until_unmatched
  BY <1>1 DEF HasTimers, Has, Fields, StopOnFatalError, ShutDown, PilotOff, Note
<1>5. PassTStepX1(c, init) \in
        {Go(c2, s), Go(c2, "T_step_EF"), Go(o, "PrepareCharging"), c1}
  BY DEF PassTStepX1, c0
<1>6. s # "ChargingPausedEVSE"  BY <1>2, <1>4
<1> HIDE DEF c1, s
<1>7. Alike(c1, c2)  BY <1>3 DEF Alike, HasTimers, Has, Fields
<1>8. Spares(c1, c2) /\ HasTimers(c2)  BY <1>7, AlikeRetains DEF Alike
<1> HIDE DEF c2
<1>9. Spares(c1, o) /\ HasTimers(o)  BY <1>3, PilotOffSpares
<1> HIDE DEF o
<1>10. /\ Spares(c2, Go(c2, s)) /\ Spares(c2, Go(c2, "T_step_EF"))
       /\ Spares(o, Go(o, "PrepareCharging"))
  BY <1>6, <1>8, <1>9, GoRetains
<1>11. /\ Spares(c1, Go(c2, s)) /\ Spares(c1, Go(c2, "T_step_EF"))
       /\ Spares(c1, Go(o, "PrepareCharging")) /\ Spares(c1, c1)
  BY <1>3, <1>8, <1>9, <1>10, RetainsTrans, RetainsRefl
<1>12. Spares(c1, PassTStepX1(c, init))  BY <1>5, <1>11
<1> QED  BY <1>1, <1>3, <1>12, RetainsTrans

\* A reinitialization does not lead back into a transaction.
LEMMA PassReinitSpares ==
    ASSUME NEW c, HasTimers(c), NEW init, c.current_state = "Reinit"
    PROVE  /\ Spares(c, PassReinit(c, init))
           /\ PassReinit(c, init).current_state \notin InTransaction
<1> DEFINE o == PilotOff(c, ReinitMethod)
           t == IF ReinitTimed THEN "armed" ELSE "off"
           a == [o EXCEPT !.reinit_running = TRUE,
                          !.iec_allow_close_contactor = FALSE,
                          !.hlc_allow_close_contactor = FALSE,
                          !.timer["reinit"] = t]
           c1 == IF init THEN a ELSE c
           c2 == [c1 EXCEPT !.reinit_running = FALSE, !.timer["reinit"] = "off"]
           p == PilotOff(c2, "X1")
           d == Go(p, "WaitingForAuthentication")
           At(x, y) == Spares(x, y) /\ HasTimers(y) /\ y.current_state = "Reinit"
<1>1. PassReinit(c, init) \in {c1, d}  BY DEF PassReinit
<1>2. At(c, o)  BY PilotOffSpares
<1> HIDE DEF o, t
<1>3. Alike(o, a)  BY <1>2 DEF Alike, HasTimers, Has, Fields, Deadlines
<1> HIDE DEF a
<1>4. At(c, a)  BY <1>2, <1>3, AlikeRetains, RetainsTrans DEF Alike
<1>5. At(c, c1)  BY <1>4, RetainsRefl
<1> HIDE DEF c1
<1>6. Alike(c1, c2)  BY <1>5 DEF Alike, HasTimers, Has, Fields, Deadlines
<1> HIDE DEF c2
<1>7. At(c1, c2)  BY <1>5, <1>6, AlikeRetains DEF Alike
<1>8. At(c2, p)  BY <1>7, PilotOffSpares
<1> HIDE DEF p
<1>9. Spares(p, d) /\ d.current_state = "WaitingForAuthentication"
  BY <1>8, GoRetains DEF Go, HasTimers, Has, Fields
<1> HIDE DEF d
<1>10. Spares(c, p)  BY <1>5, <1>7, <1>8, RetainsTrans
<1>11. Spares(c, d)  BY <1>9, <1>10, RetainsTrans
<1> QED  BY <1>1, <1>5, <1>9, <1>11 DEF InTransaction

\* The initialization of WaitingForAuthentication.
LEMMA EnterWaitingSpares ==
    ASSUME NEW c, HasTimers(c)
    PROVE  Spares(c, EnterWaiting(c)) /\ HasTimers(EnterWaiting(c))
<1> DEFINE c1 == [c EXCEPT !.allow_power_on = FALSE, !.timer["fallback"] = "off"]
           c2 == IF c.session_active THEN c1 ELSE StartSession(c1)
           hlcs == IF ChargeMode = "AC" THEN AcHlc /\ ~c.hlc_failed
                                        ELSE c.ac_hlc_current_session
           five == Use5PercentFor(c, hlcs)
           c3 == [c2 EXCEPT !.ac_hlc_current_session = hlcs,
                            !.hlc_use_5percent = five]
           c4 == [c3 EXCEPT !.hlc_use_5percent = FALSE]
           c5 == UpdatePwm(c3, "5percent")
<1>1. EnterWaiting(c) \in {c3, c4, c5}  BY DEF EnterWaiting
<1>2. Alike(c, c1)  BY DEF Alike, HasTimers, Has, Fields, Deadlines
<1>3. HasTimers(c1)  BY <1>2 DEF Alike
<1> HIDE DEF c1, five, hlcs
<1>4. Alike(c1, StartSession(c1))
  BY <1>3 DEF StartSession, Alike, HasTimers, Has, Fields
<1>5. Alike(c, c2) /\ HasTimers(c2)  BY <1>2, <1>4 DEF Alike
<1> HIDE DEF c2
<1>6. Alike(c2, c3) /\ HasTimers(c3)  BY <1>5 DEF Alike, HasTimers, Has, Fields
<1> HIDE DEF c3
<1>7. Alike(c3, c4) /\ HasTimers(c4)  BY <1>6 DEF Alike, HasTimers, Has, Fields
<1> HIDE DEF c4
<1>8. Spares(c3, c5) /\ HasTimers(c5)  BY <1>6, UpdatePwmSpares
<1> HIDE DEF c5
<1>9. Spares(c, c2) /\ Spares(c2, c3) /\ Spares(c3, c4)
  BY <1>5, <1>6, <1>7, AlikeRetains
<1>10. Spares(c, c3)  BY <1>9, RetainsTrans
<1>11. Spares(c, c4) /\ Spares(c, c5)  BY <1>8, <1>9, <1>10, RetainsTrans
<1> QED  BY <1>1, <1>6, <1>7, <1>8, <1>10, <1>11

\* Authorized: the transaction, and the way to PrepareCharging.
LEMMA AuthorizedSpares ==
    ASSUME NEW c, HasTimers(c), c.current_state = "WaitingForAuthentication",
           NEW env
    PROVE  Spares(c, Authorized(c, env))
<1> DEFINE c1 == IF c.flag_transaction_active THEN c ELSE StartTransaction(c)
<1>0. Spares(c, c)  BY RetainsRefl
<1>1. /\ Spares(c, c1) /\ HasTimers(c1)
      /\ c1.current_state = "WaitingForAuthentication"
  BY <1>0 DEF HasTimers, Has, Fields, Spares, StartTransaction, Hears,
         PausesTransaction, HasEnded
<1>2. Authorized(c, env) \in {c, Go(c1, "PrepareCharging"), AuthorizedPnc(c1),
                              AuthorizedEim(c1)}
  BY DEF Authorized
<1> HIDE DEF c1
<1>3. Spares(c1, AuthorizedEim(c1))
  <2> DEFINE a == [c1 EXCEPT !.hlc_use_5percent = TRUE]
             b == [c1 EXCEPT !.t_step_EF_return_state = "PrepareCharging",
                             !.t_step_EF_return_pwm = "zero",
                             !.hlc_use_5percent = FALSE]
             x == [c1 EXCEPT !.t_step_X1_until_unmatched = FALSE,
                             !.hlc_use_5percent = FALSE]
             t == [c1 EXCEPT !.timer["fallback"] = "armed"]
  <2>1. AuthorizedEim(c1) \in
          {Go(a, "PrepareCharging"), Go(c1, "PrepareCharging"),
           Go(b, "T_step_EF"), Go(x, "T_step_X1"), t}
    BY DEF AuthorizedEim
  <2>2. Alike(c1, a) /\ Alike(c1, b) /\ Alike(c1, x)
    BY <1>1 DEF Alike, HasTimers, Has, Fields
  <2>3. Alike(c1, t)  BY <1>1 DEF Alike, HasTimers, Has, Fields, Deadlines
  <2> HIDE DEF a, b, x, t
  <2>4. /\ Spares(c1, a) /\ HasTimers(a) /\ Spares(c1, b) /\ HasTimers(b)
        /\ Spares(c1, x) /\ HasTimers(x) /\ Spares(c1, t)
    BY <2>2, <2>3, AlikeRetains DEF Alike
  <2>5. /\ Spares(a, Go(a, "PrepareCharging"))
        /\ Spares(c1, Go(c1, "PrepareCharging"))
        /\ Spares(b, Go(b, "T_step_EF")) /\ Spares(x, Go(x, "T_step_X1"))
    BY <1>1, <2>4, GoRetains
  <2> QED  BY <2>1, <2>4, <2>5, RetainsTrans
<1>4. Spares(c1, AuthorizedPnc(c1))
  <2> DEFINE a == [c1 EXCEPT !.hlc_use_5percent = TRUE]
  <2>1. AuthorizedPnc(c1) \in
          {Go(a, "PrepareCharging"), Go(c1, "PrepareCharging"), c1}
    BY DEF AuthorizedPnc
  <2>2. Alike(c1, a)  BY <1>1 DEF Alike, HasTimers, Has, Fields
  <2> HIDE DEF a
  <2>3. Spares(c1, a) /\ HasTimers(a)  BY <2>2, AlikeRetains DEF Alike
  <2>4. /\ Spares(a, Go(a, "PrepareCharging"))
        /\ Spares(c1, Go(c1, "PrepareCharging")) /\ Spares(c1, c1)
    BY <1>1, <2>3, GoRetains, RetainsRefl
  <2> QED  BY <2>1, <2>3, <2>4, RetainsTrans
<1>5. Spares(c1, Go(c1, "PrepareCharging"))  BY <1>1, GoRetains
<1> QED  BY <1>0, <1>1, <1>2, <1>3, <1>4, <1>5, RetainsTrans

\* WaitingForAuthentication.
LEMMA PassWaitingSpares ==
    ASSUME NEW c, HasTimers(c), c.current_state = "WaitingForAuthentication",
           NEW init, NEW env
    PROVE  Spares(c, PassWaiting(c, init, env))
<1> DEFINE c0 == IF init THEN EnterWaiting(c) ELSE c
           c1 == StopOnFatalError(c0)
           known == c1.cable_known \/ (Socket /\ env.pp)
           c2 == [c1 EXCEPT !.cable_known = known]
<1>1. Spares(c, c0) /\ HasTimers(c0)  BY EnterWaitingSpares, RetainsRefl
<1>2. c0.current_state = "WaitingForAuthentication"
  <2>1. Has(c)  BY DEF HasTimers
  <2>2. EnterWaiting(c).current_state = c.current_state
    BY <2>1 DEF EnterWaiting, StartSession, UpdatePwm, Has, Fields
  <2> QED  BY <2>2
<1>3. PassWaiting(c, init, env) \in {Go(c1, "Finished"), c2, Authorized(c2, env)}
  BY DEF PassWaiting
<1> HIDE DEF c0
<1>4. /\ Spares(c0, c1) /\ HasTimers(c1)
      /\ c1.current_state = "WaitingForAuthentication"
  BY <1>1, <1>2, StopOnFatalErrorRetains
<1> HIDE DEF c1, known
<1>5. Alike(c1, c2)  BY <1>4 DEF Alike, HasTimers, Has, Fields
<1>6. /\ Spares(c1, c2) /\ HasTimers(c2)
      /\ c2.current_state = "WaitingForAuthentication"
  BY <1>4, <1>5, AlikeRetains DEF Alike
<1> HIDE DEF c2
<1>7. Spares(c1, Go(c1, "Finished"))  BY <1>4, GoRetains
<1>8. Spares(c2, Authorized(c2, env))  BY <1>6, AuthorizedSpares
<1>9. Spares(c1, PassWaiting(c, init, env))
  BY <1>3, <1>6, <1>7, <1>8, RetainsTrans
<1> QED  BY <1>1, <1>4, <1>9, RetainsTrans

-----------------------------------------------------------------------------
\* The states of a transaction.

\* d follows c with the transaction as it was.
RetainsPaid(c, d) ==
    /\ Retains(c, d)
    /\ d.flag_transaction_active = c.flag_transaction_active

\* request_error_sequence_internal leaves the oscillator to the sequence.
LEMMA ErrorSequenceRetains ==
    ASSUME NEW c, HasTimers(c)
    PROVE  RetainsPaid(c, ErrorSequence(c))
<1> DEFINE exhausted == RetriesExhausted(c)
           limit == LimitRetries /\ ChargeMode = "AC"
           pwm == IF c.hlc_use_5percent /\ ~exhausted THEN "5percent" ELSE "zero"
           out == c.slac_retries_exhausted \/ exhausted
           five == c.hlc_use_5percent /\ ~exhausted
           n == IF limit /\ c.hlc_use_5percent /\ ~exhausted
                THEN c.slac_retries + 1 ELSE c.slac_retries
           wait == c.t_step_X1_until_unmatched \/ c.dlink_established
           s == IF c.dlink_established THEN "T_step_X1" ELSE "T_step_EF"
           c1 == [c EXCEPT !.t_step_EF_return_state = c.current_state,
                           !.t_step_EF_return_pwm = pwm,
                           !.slac_retries_exhausted = out,
                           !.hlc_use_5percent = five,
                           !.slac_retries = n,
                           !.t_step_X1_until_unmatched = wait,
                           !.current_state = s]
           d0 == [c EXCEPT !.dlink_established = FALSE]
           d1 == [c1 EXCEPT !.dlink_established = FALSE]
<1>1. ErrorSequence(c) \in {d0, d1}  BY DEF ErrorSequence
<1>2. s # "ChargingPausedEVSE"  OBVIOUS
<1> HIDE DEF exhausted, pwm, out, five, n, wait, s
<1>3. RetainsPaid(c, c1) /\ HasTimers(c1)
  BY <1>2 DEF HasTimers, Has, Fields, RetainsPaid, Retains, Spares,
              PausesTransaction, HasEnded
<1>4. Alike(c, d0)  BY DEF Alike, HasTimers, Has, Fields
<1> HIDE DEF c1
<1>5. Alike(c1, d1)  BY <1>3 DEF Alike, HasTimers, Has, Fields
<1> HIDE DEF d0, d1
<1>6. RetainsPaid(c, d0)  BY <1>4, AlikeRetains DEF Alike, RetainsPaid
<1>7. RetainsPaid(c, d1)
  BY <1>3, <1>5, AlikeRetains, RetainsTrans DEF Alike, RetainsPaid
<1> QED  BY <1>1, <1>6, <1>7

\* The end of PrepareCharging.
LEMMA ApplyPwmSpares ==
    ASSUME NEW c, HasTimers(c)
    PROVE  /\ Spares(c, ApplyPwm(c))
           /\ ApplyPwm(c).flag_transaction_active = c.flag_transaction_active
<1> DEFINE nominal == ChargeMode = "AC" /\ (~c.hlc_use_5percent \/ c.hlc_failed)
           duty == IF nominal THEN NominalDuty(c) ELSE "5percent"
           c1 == UpdatePwmIfChanged(c, duty)
           t == NominalDuty(c1)
           w == [c1 EXCEPT !.legacy_wakeup_done = TRUE,
                           !.t_step_EF_return_state = "PrepareCharging",
                           !.t_step_EF_return_pwm = t]
           Paid(x, y) == /\ Spares(x, y) /\ HasTimers(y)
                         /\ y.flag_transaction_active = x.flag_transaction_active
<1>1. ApplyPwm(c) \in {c, c1, Go(c1, "Charging"), Go(w, "T_step_EF"),
                       Go(c1, "ChargingPausedEV")}
  BY DEF ApplyPwm, WaitForStateC
<1> HIDE DEF duty
<1>2. Paid(c, c1)  BY UpdatePwmSpares
<1> HIDE DEF c1, t
<1>3. Alike(c1, w)  BY <1>2 DEF Alike, HasTimers, Has, Fields
<1> HIDE DEF w
<1>4. Paid(c1, w)  BY <1>3, AlikeRetains DEF Alike
<1>5. /\ Paid(c1, Go(c1, "Charging")) /\ Paid(w, Go(w, "T_step_EF"))
      /\ Paid(c1, Go(c1, "ChargingPausedEV"))
  <2>1. /\ Spares(c1, Go(c1, "Charging")) /\ Spares(w, Go(w, "T_step_EF"))
        /\ Spares(c1, Go(c1, "ChargingPausedEV"))
    BY <1>2, <1>4, GoRetains
  <2>2. /\ Go(c1, "Charging").flag_transaction_active = c1.flag_transaction_active
        /\ Go(w, "T_step_EF").flag_transaction_active = w.flag_transaction_active
        /\ Go(c1, "ChargingPausedEV").flag_transaction_active
             = c1.flag_transaction_active
    BY <1>2, <1>4 DEF Go, HasTimers, Has, Fields
  <2> QED  BY <2>1, <2>2 DEF Spares
<1>6. Paid(c, c)  BY RetainsRefl
<1>7. Paid(c, Go(w, "T_step_EF"))
  <2>1. Paid(c, w)  BY <1>2, <1>4, RetainsTrans
  <2> QED  BY <1>5, <2>1, RetainsTrans
<1>8. Paid(c, Go(c1, "Charging")) /\ Paid(c, Go(c1, "ChargingPausedEV"))
  BY <1>2, <1>5, RetainsTrans
<1> QED  BY <1>1, <1>2, <1>6, <1>7, <1>8

\* The body of PrepareCharging: a session that has ended is left alone, or its
\* end is forgotten together with the timer.
LEMMA PrepareRetains ==
    ASSUME NEW c, HasTimers(c)
    PROVE  RetainsPaid(c, Prepare(c))
<1> DEFINE ended == HasEnded(c)
           m == ResumeEvsePauseMarker(c)
           c1 == IF ended THEN m ELSE c
           c2 == IF c1.dlink_established
                 THEN [c1 EXCEPT !.timer["wakeup"] = "off"] ELSE c1
           c3 == [c2 EXCEPT !.timer["wakeup"] = "off"]
           Paid(x, y) == /\ Spares(x, y) /\ HasTimers(y)
                         /\ y.flag_transaction_active = x.flag_transaction_active
<1>1. \/ Prepare(c) = Go(c, "ChargingPausedEV")
      \/ Prepare(c) \in {ErrorSequence(c3), ApplyPwm(c2)}
  BY DEF Prepare, HasEnded
<1>2. Paid(c, m) /\ m.timer["retain"] = "off"
  BY DEF ResumeEvsePauseMarker, HasTimers, Has, Fields, Deadlines, Spares,
         PausesTransaction
<1> HIDE DEF m
<1>3. Paid(c, c1) /\ (ended => c1.timer["retain"] = "off")
  BY <1>2, RetainsRefl
<1> HIDE DEF c1
<1>4. Alike(c1, c2) /\ HasTimers(c2)
  BY <1>3 DEF Alike, HasTimers, Has, Fields, Deadlines
<1> HIDE DEF c2
<1>5. Alike(c2, c3) /\ HasTimers(c3)
  BY <1>4 DEF Alike, HasTimers, Has, Fields, Deadlines
<1> HIDE DEF c3
<1>6. Paid(c, c2) /\ (ended => c2.timer["retain"] = "off")
  BY <1>3, <1>4, AlikeRetains, RetainsTrans DEF Alike
<1>7. Paid(c, c3) /\ (ended => c3.timer["retain"] = "off")
  BY <1>5, <1>6, AlikeRetains, RetainsTrans DEF Alike
<1>8. CASE Prepare(c) = Go(c, "ChargingPausedEV")
  BY <1>8, GoRetains DEF RetainsPaid, Go, HasTimers, Has, Fields
<1>9. ASSUME NEW x, NEW y, Paid(c, x), ended => x.timer["retain"] = "off",
             Spares(x, y), y.flag_transaction_active = x.flag_transaction_active
      PROVE  RetainsPaid(c, y)
  <2>1. Spares(c, y)  BY <1>9, RetainsTrans
  <2>2. ended => y.timer["retain"] = "off"  BY <1>9 DEF Spares
  <2>3. Retains(c, y)  BY <2>1, <2>2, SparesRetains
  <2> QED  BY <1>9, <2>3 DEF RetainsPaid
<1>10. CASE Prepare(c) = ErrorSequence(c3)
  BY <1>7, <1>9, <1>10, ErrorSequenceRetains DEF RetainsPaid, Retains
<1>11. CASE Prepare(c) = ApplyPwm(c2)
  BY <1>6, <1>9, <1>11, ApplyPwmSpares, <1>4
<1> QED  BY <1>1, <1>8, <1>10, <1>11

\* PrepareCharging stays only with a transaction.
LEMMA PassPrepareChargingRetains ==
    ASSUME NEW c, HasTimers(c), NEW init
    PROVE  /\ Retains(c, PassPrepareCharging(c, init))
           /\ PassPrepareCharging(c, init).current_state = "PrepareCharging"
                => PassPrepareCharging(c, init).flag_transaction_active
<1> DEFINE b == BcbReset(c)
           a == [b EXCEPT !.timer["no_energy"] = "off"]
           c0 == IF init THEN a ELSE c
           c1 == StopOnFatalError(c0)
           p == [c1 EXCEPT !.allow_power_on = TRUE]
           c2 == IF ChargeMode = "DC" /\ c1.hlc_allow_close_contactor
                       /\ c1.iec_allow_close_contactor
                 THEN p ELSE c1
           d == PassPrepareCharging(c, init)
<1>1. \/ d = Go(c1, "StoppingCharging")
      \/ d = Prepare(c2) /\ c1.flag_transaction_active
  BY DEF PassPrepareCharging, StopReason
<1>2. Alike(c, b) /\ HasTimers(b)  BY DEF BcbReset, Alike, HasTimers, Has, Fields
<1> HIDE DEF b
<1>3. Alike(b, a) /\ HasTimers(a)
  BY <1>2 DEF Alike, HasTimers, Has, Fields, Deadlines
<1> HIDE DEF a
<1>4. Retains(c, c0) /\ HasTimers(c0)
  BY <1>2, <1>3, AlikeRetains, RetainsTrans, RetainsRefl
<1> HIDE DEF c0
<1>5. Retains(c0, c1) /\ HasTimers(c1)  BY <1>4, StopOnFatalErrorRetains
<1> HIDE DEF c1
<1>6. Alike(c1, p) /\ HasTimers(p)  BY <1>5 DEF Alike, HasTimers, Has, Fields
<1> HIDE DEF p
<1>7. /\ Retains(c1, c2) /\ HasTimers(c2)
      /\ c2.flag_transaction_active = c1.flag_transaction_active
  BY <1>5, <1>6, AlikeRetains, RetainsRefl DEF Alike
<1> HIDE DEF c2, d
<1>8. Retains(c, c1) /\ Retains(c, c2)  BY <1>4, <1>5, <1>7, RetainsTrans
<1>9. CASE d = Go(c1, "StoppingCharging")
  <2>1. Retains(c1, d)  BY <1>5, <1>9, GoRetains
  <2>2. d.current_state # "PrepareCharging"
    BY <1>5, <1>9 DEF Go, HasTimers, Has, Fields
  <2> QED  BY <1>8, <2>1, <2>2, RetainsTrans DEF d
<1>10. CASE d = Prepare(c2) /\ c1.flag_transaction_active
  <2>1. RetainsPaid(c2, d)  BY <1>7, <1>10, PrepareRetains
  <2> QED  BY <1>7, <1>8, <1>10, <2>1, RetainsTrans DEF RetainsPaid, d
<1> QED  BY <1>1, <1>9, <1>10

\* Charging keeps the oscillator running as long as there is energy, or the
\* duty cycle is 5 percent; its initialization switches the timer off.
LEMMA PassChargingRetains ==
    ASSUME NEW c, HasTimers(c), NEW init, NEW env, c.current_state = "Charging"
    PROVE  /\ Spares(c, PassCharging(c, init, env))
           /\ PowerAvailable(c) \/ c.hlc_use_5percent
                => Retains(c, PassCharging(c, init, env))
<1> DEFINE z == [c EXCEPT !.hlc_charging_terminate_pause = "Unknown",
                          !.timer["retain"] = "off",
                          !.hlc_session_paused_by_evse = FALSE]
           c0 == IF init THEN z ELSE c
           f == StopOnFatalError(c0)
           c1 == RequestPause(f)
           t == IF PowerAvailable(c1) \/ NoEnergyStops(c1) THEN "off"
                ELSE IF c1.timer["no_energy"] = "off" /\ (c1.hlc_charging_active
                                         \/ c1.hlc_use_5percent)
                THEN "armed" ELSE c1.timer["no_energy"]
           c2 == [c1 EXCEPT !.timer["no_energy"] = t]
           duty == IF c2.hlc_use_5percent THEN "5percent" ELSE NominalDuty(c2)
           l == [c2 EXCEPT !.legacy_wakeup_done = FALSE]
           c3 == IF ChargeMode = "AC" THEN l ELSE c2
           on == [c3 EXCEPT !.allow_power_on = TRUE]
           d == PassCharging(c, init, env)
           fed == PowerAvailable(c) \/ c.hlc_use_5percent
           Energy(x, y) == /\ y.current_state = x.current_state
                           /\ y.hlc_use_5percent = x.hlc_use_5percent
                           /\ y.max_current_ok = x.max_current_ok
                           /\ y.cable_known = x.cable_known
<1>1. d \in {Go(c1, "StoppingCharging"), Go(c2, "StoppingCharging"),
             on, UpdatePwmIfChanged(on, duty), UpdatePwmIfChanged(c2, duty), c2}
  BY DEF PassCharging
<1>2. Spares(c, z) /\ HasTimers(z) /\ z.timer["retain"] = "off" /\ Energy(c, z)
  BY DEF HasTimers, Has, Fields, Deadlines, Spares, PausesTransaction
<1> HIDE DEF z
<1>3. Retains(c, c0) /\ HasTimers(c0) /\ Energy(c, c0)
  BY <1>2, SparesRetains, RetainsRefl
<1> HIDE DEF c0
<1>4. Retains(c0, f) /\ HasTimers(f) /\ Energy(c0, f)
  <2>1. Retains(c0, f) /\ HasTimers(f)  BY <1>3, StopOnFatalErrorRetains
  <2>2. Energy(c0, f)
    BY <1>3 DEF StopOnFatalError, ShutDown, PilotOff, Note, HasTimers, Has, Fields
  <2> QED  BY <2>1, <2>2
<1> HIDE DEF f
<1>5. Alike(f, c1) /\ HasTimers(c1) /\ Energy(f, c1)
  BY <1>4 DEF RequestPause, Alike, HasTimers, Has, Fields
<1> HIDE DEF c1, t
<1>6. Alike(c1, c2) /\ HasTimers(c2) /\ Energy(c1, c2)
  BY <1>5 DEF Alike, HasTimers, Has, Fields, Deadlines
<1>7. fed => duty \notin {"X1", "zero"}
  <2>1. Energy(c, c2)  BY <1>3, <1>4, <1>5, <1>6
  <2>2. PowerAvailable(c) => PowerAvailable(c2)  BY <2>1 DEF PowerAvailable
  <2> QED  BY <2>1, <2>2 DEF NominalDuty
<1> HIDE DEF c2, duty, fed
<1>8. Alike(c2, l) /\ HasTimers(l)  BY <1>6 DEF Alike, HasTimers, Has, Fields
<1> HIDE DEF l
<1>9. Retains(c2, c3) /\ HasTimers(c3)
  BY <1>6, <1>8, AlikeRetains, RetainsRefl
<1> HIDE DEF c3
<1>10. Alike(c3, on) /\ HasTimers(on)  BY <1>9 DEF Alike, HasTimers, Has, Fields
<1> HIDE DEF on
<1>11. Retains(c, c1)
  <2>1. Retains(f, c1)  BY <1>5, AlikeRetains
  <2> QED  BY <1>3, <1>4, <2>1, RetainsTrans
<1>12. Retains(c, c2)  BY <1>6, <1>11, AlikeRetains, RetainsTrans
<1>13. Retains(c, on)
  <2>1. Retains(c3, on)  BY <1>10, AlikeRetains
  <2> QED  BY <1>9, <1>12, <2>1, RetainsTrans
<1>14. /\ Retains(c, Go(c1, "StoppingCharging"))
       /\ Retains(c, Go(c2, "StoppingCharging"))
  BY <1>5, <1>6, <1>11, <1>12, GoRetains, RetainsTrans
<1>15. ASSUME NEW x, HasTimers(x), Retains(c, x)
       PROVE  /\ Spares(c, UpdatePwmIfChanged(x, duty))
              /\ fed => Retains(c, UpdatePwmIfChanged(x, duty))
  <2>1. /\ Spares(x, UpdatePwmIfChanged(x, duty))
        /\ fed => Retains(x, UpdatePwmIfChanged(x, duty))
    BY <1>7, <1>15, UpdatePwmSpares
  <2>2. Spares(c, x)  BY <1>15 DEF Retains
  <2> QED  BY <1>15, <2>1, <2>2, RetainsTrans
<1>16. /\ Spares(c, UpdatePwmIfChanged(on, duty))
       /\ fed => Retains(c, UpdatePwmIfChanged(on, duty))
       /\ Spares(c, UpdatePwmIfChanged(c2, duty))
       /\ fed => Retains(c, UpdatePwmIfChanged(c2, duty))
  BY <1>6, <1>10, <1>12, <1>13, <1>15
<1> HIDE DEF d
<1>17. Spares(c, d) /\ (fed => Retains(c, d))
  BY <1>1, <1>12, <1>13, <1>14, <1>16 DEF Retains
<1> QED  BY <1>17 DEF d, fed

\* An HLC session in ChargingPausedEV: only the timer switches the oscillator
\* off while it runs, and the EV that starts over switches off the timer.
LEMMA PausedHlcRetains ==
    ASSUME NEW c, HasTimers(c)
    PROVE  Retains(c, PausedHlc(c))
<1> DEFINE restart == c.hlc_session_restarted_by_ev \/ BcbDetected(c)
           n == IF BcbDetected(c) THEN 0 ELSE c.bcb_count
           c1 == [c EXCEPT !.hlc_session_restarted_by_ev = FALSE,
                           !.bcb_count = n]
           a == [c1 EXCEPT !.hlc_charging_terminate_pause = "Unknown",
                           !.timer["retain"] = "off",
                           !.timer["wakeup"] = "armed"]
           g == Go(a, "PrepareCharging")
           c2 == IF restart THEN g ELSE c1
<1>1. \/ PausedHlc(c) = c2
      \/ PausedHlc(c) = PilotOff(c2, "X1") /\ c2.timer["retain"] = "off"
  BY DEF PausedHlc
<1> HIDE DEF n, restart
<1>2. Alike(c, c1) /\ HasTimers(c1)  BY DEF Alike, HasTimers, Has, Fields
<1> HIDE DEF c1
<1>3. Spares(c1, a) /\ HasTimers(a) /\ a.timer["retain"] = "off"
  BY <1>2 DEF HasTimers, Has, Fields, Deadlines, Spares, PausesTransaction
<1> HIDE DEF a
<1>4. Retains(c1, a)  BY <1>3, SparesRetains
<1>5. Retains(a, g) /\ HasTimers(g)  BY <1>3, GoRetains
<1> HIDE DEF g
<1>6. Retains(c, c1)  BY <1>2, AlikeRetains
<1>7. Retains(c, c2) /\ HasTimers(c2)
  BY <1>2, <1>4, <1>5, <1>6, RetainsTrans
<1> HIDE DEF c2
<1>8. c2.timer["retain"] = "off" => Retains(c2, PilotOff(c2, "X1"))
  BY <1>7, PilotOffSpares, SparesRetains
<1> QED  BY <1>1, <1>7, <1>8, RetainsTrans

\* ChargingPausedEV.
LEMMA PassChargingPausedEVRetains ==
    ASSUME NEW c, HasTimers(c), NEW env
    PROVE  Retains(c, PassChargingPausedEV(c, env))
<1> DEFINE d == PassChargingPausedEV(c, env)
           u == UpdatePwmIfChanged(c, NominalDuty(c))
<1>1. \/ d = Go(c, "StoppingCharging")
      \/ d = PausedHlc(c)
      \/ ~c.hlc_charging_active /\ c.flag_transaction_active
           /\ d \in {Go(c, "ChargingPausedEVSE"), u, c}
  BY DEF PassChargingPausedEV, StopReason
<1> HIDE DEF d
<1>2. CASE d = Go(c, "StoppingCharging")  BY <1>2, GoRetains DEF d
<1>3. CASE d = PausedHlc(c)  BY <1>3, PausedHlcRetains DEF d
<1>4. CASE /\ ~c.hlc_charging_active /\ c.flag_transaction_active
           /\ d \in {Go(c, "ChargingPausedEVSE"), u, c}
  <2>1. Spares(c, u)  BY UpdatePwmSpares
  <2> HIDE DEF u
  <2>2. Retains(c, u)  BY <1>4, <2>1, SparesRetains DEF HasEnded
  <2> QED  BY <1>4, <2>2, GoRetains, RetainsRefl DEF d
<1> QED  BY <1>1, <1>2, <1>3, <1>4

\* ChargingPausedEVSE, which takes the PWM away from basic charging only.
LEMMA PassChargingPausedEVSERetains ==
    ASSUME NEW c, HasTimers(c), NEW init
    PROVE  /\ Spares(c, PassChargingPausedEVSE(c, init))
           /\ c.flag_transaction_active
                => Retains(c, PassChargingPausedEVSE(c, init))
<1> DEFINE o == PilotOff(c, "X1")
           c0 == IF init /\ (~c.hlc_charging_active \/ ~c.flag_transaction_active)
                 THEN o ELSE c
           g == IF EnteredFatalErrorState(c0) THEN PilotOff(c0, "F") ELSE c0
           f == SignalFault(c0)
           c1 == StopOnFatalError(f)
           m == ResumeEvsePauseMarker(c1)
           d == PassChargingPausedEVSE(c, init)
<1>1. d \in {Go(c0, "StoppingCharging"), c1, ResumeFromPause(c1)}
  BY DEF PassChargingPausedEVSE
<1>2. Spares(c, o) /\ HasTimers(o)  BY PilotOffSpares
<1> HIDE DEF o
<1>3. Spares(c, c0) /\ HasTimers(c0)  BY <1>2, RetainsRefl
<1>4. c.flag_transaction_active => Retains(c, c0)
  BY <1>2, SparesRetains, RetainsRefl DEF HasEnded
<1> HIDE DEF c0
<1>5. Retains(c0, f) /\ HasTimers(f)
  <2>1. \/ f = c0
        \/ ~c0.hlc_charging_active /\ f \in {g, PilotOff(g, "X1")}
    BY DEF SignalFault
  <2>2. Spares(c0, g) /\ HasTimers(g)  BY <1>3, PilotOffSpares, RetainsRefl
  <2> HIDE DEF g
  <2>3. Spares(c0, PilotOff(g, "X1")) /\ HasTimers(PilotOff(g, "X1"))
    BY <2>2, PilotOffSpares, RetainsTrans
  <2> HIDE DEF f
  <2>4. CASE f = c0  BY <1>3, <2>4, RetainsRefl
  <2>5. CASE ~c0.hlc_charging_active /\ f \in {g, PilotOff(g, "X1")}
    BY <2>2, <2>3, <2>5, SparesRetains DEF HasEnded
  <2> QED  BY <2>1, <2>4, <2>5
<1> HIDE DEF f
<1>6. Retains(f, c1) /\ HasTimers(c1)  BY <1>5, StopOnFatalErrorRetains
<1> HIDE DEF c1
<1>7. ResumeFromPause(c1) \in {Go(m, "PrepareCharging"), Go(c1, "ChargingPausedEV"),
                               c1, Go(c1, "PrepareCharging")}
  BY DEF ResumeFromPause
<1>8. Spares(c1, m) /\ HasTimers(m) /\ m.timer["retain"] = "off"
  BY <1>6 DEF ResumeEvsePauseMarker, HasTimers, Has, Fields, Deadlines, Spares,
              PausesTransaction
<1> HIDE DEF m
<1>9. Retains(c1, m)  BY <1>8, SparesRetains
<1>10. /\ Retains(m, Go(m, "PrepareCharging"))
       /\ Retains(c1, Go(c1, "ChargingPausedEV"))
       /\ Retains(c1, Go(c1, "PrepareCharging")) /\ Retains(c1, c1)
       /\ Retains(c0, Go(c0, "StoppingCharging"))
  BY <1>3, <1>6, <1>8, GoRetains, RetainsRefl
<1>11. Retains(c1, ResumeFromPause(c1))  BY <1>7, <1>9, <1>10, RetainsTrans
<1>12. Retains(c0, c1)  BY <1>5, <1>6, RetainsTrans
<1>13. Retains(c0, ResumeFromPause(c1))  BY <1>11, <1>12, RetainsTrans
<1> HIDE DEF d
<1>14. Retains(c0, d)  BY <1>1, <1>10, <1>12, <1>13
<1>15. Spares(c, d)  BY <1>3, <1>14, RetainsTrans DEF Retains
<1>16. c.flag_transaction_active => Retains(c, d)  BY <1>4, <1>14, RetainsTrans
<1> QED  BY <1>15, <1>16 DEF d

\* StoppingCharging, which asks an EV with an HLC session to stop.
LEMMA PassStoppingChargingRetains ==
    ASSUME NEW c, HasTimers(c), NEW init
    PROVE  Retains(c, PassStoppingCharging(c, init))
<1> DEFINE pause == c.flag_paused_by_evse \/ c.d20_pause_confirmed
           d20 == c.hlc_charging_active /\ c.hlc_d20_active /\ pause
           ramp == d20 /\ c.hlc_d20_dynamic_mode
           told == d20 /\ ~c.hlc_d20_dynamic_mode
           b == BcbReset(c)
           e == [b EXCEPT
                   !.hlc_dc_renegotiation = FALSE, !.legacy_wakeup_done = FALSE,
                   !.d20_pause_requested = FALSE, !.d20_pause_confirmed = FALSE,
                   !.stopping_for_evse_pause = pause,
                   !.d20_pause_ramp = ramp,
                   !.d20_pause_notified = told]
           c1 == IF init THEN EnterStopping(c) ELSE c
           notify == c1.d20_pause_ramp /\ ~c1.d20_pause_notified /\ ~c1.dc_current
           c2 == IF notify THEN [c1 EXCEPT !.d20_pause_notified = TRUE, !.age = 0]
                           ELSE c1
           c3 == IF c2.age >= 1 THEN [c2 EXCEPT !.allow_power_on = FALSE] ELSE c2
           byUs == ~PowerAvailable(c3) \/ c3.flag_paused_by_evse
                       \/ c3.stopping_for_evse_pause
           c4 == IF byUs THEN c3 ELSE StopOnFatalError(c3)
           c5 == [c4 EXCEPT !.hlc_session_paused_by_evse = c4.hlc_charging_active]
           d == PassStoppingCharging(c, init)
<1>1. \/ d \in {c3, Go(c3, "Finished"), Go(c4, "ChargingPausedEV")}
      \/ d = Go(c5, "ChargingPausedEVSE") /\ c3.flag_transaction_active
  BY DEF PassStoppingCharging, StopReason
<1>2. Retains(c, c1) /\ HasTimers(c1)
  <2>1. EnterStopping(c) = IF c.hlc_charging_active THEN e ELSE PilotOff(e, "X1")
    BY DEF EnterStopping
  <2>2. Alike(c, b) /\ HasTimers(b)  BY DEF BcbReset, Alike, HasTimers, Has, Fields
  <2> HIDE DEF b, pause, ramp, told
  <2>3. Alike(b, e) /\ HasTimers(e)  BY <2>2 DEF Alike, HasTimers, Has, Fields
  <2> HIDE DEF e
  <2>4. Retains(c, e)  BY <2>2, <2>3, AlikeRetains, RetainsTrans
  <2>5. CASE c.hlc_charging_active  BY <2>1, <2>3, <2>4, <2>5, RetainsRefl
  <2>6. CASE ~c.hlc_charging_active
    <3>1. Spares(e, PilotOff(e, "X1")) /\ HasTimers(PilotOff(e, "X1"))
      BY <2>3, PilotOffSpares
    <3>2. Spares(c, PilotOff(e, "X1"))  BY <2>4, <3>1, RetainsTrans DEF Retains
    <3>3. Retains(c, PilotOff(e, "X1"))  BY <2>6, <3>2, SparesRetains DEF HasEnded
    <3> QED  BY <2>1, <2>6, <3>1, <3>3, RetainsRefl
  <2> QED  BY <2>5, <2>6
<1> HIDE DEF c1
<1>3. Alike(c1, c2) /\ HasTimers(c2)  BY <1>2 DEF Alike, HasTimers, Has, Fields
<1> HIDE DEF c2
<1>4. Alike(c2, c3) /\ HasTimers(c3)  BY <1>3 DEF Alike, HasTimers, Has, Fields
<1> HIDE DEF c3, byUs
<1>5. /\ Retains(c3, c4) /\ HasTimers(c4)
      /\ c4.flag_transaction_active = c3.flag_transaction_active
  BY <1>4, StopOnFatalErrorRetains, RetainsRefl
<1> HIDE DEF c4
<1>6. Alike(c4, c5) /\ HasTimers(c5)  BY <1>5 DEF Alike, HasTimers, Has, Fields
<1> HIDE DEF c5
<1>7. Retains(c, c3)
  <2>1. Retains(c1, c2) /\ Retains(c2, c3)  BY <1>3, <1>4, AlikeRetains
  <2> QED  BY <1>2, <2>1, RetainsTrans
<1>8. Retains(c, c4)  BY <1>5, <1>7, RetainsTrans
<1>9. Retains(c, c5)  BY <1>6, <1>8, AlikeRetains, RetainsTrans
<1>10. c5.flag_transaction_active = c3.flag_transaction_active
  BY <1>5, <1>6 DEF Alike
<1>11. /\ Retains(c, Go(c3, "Finished")) /\ Retains(c, Go(c4, "ChargingPausedEV"))
       /\ c3.flag_transaction_active => Retains(c, Go(c5, "ChargingPausedEVSE"))
  BY <1>4, <1>5, <1>6, <1>7, <1>8, <1>9, <1>10, GoRetains, RetainsTrans
<1> HIDE DEF d
<1>12. Retains(c, d)  BY <1>1, <1>7, <1>11
<1> QED  BY <1>12 DEF d

-----------------------------------------------------------------------------
\* A whole iteration.

\* A typed context has its members and its deadlines.
LEMMA CtxHasTimers == ASSUME NEW c, IsCtx(c) PROVE HasTimers(c)
BY CtxHas DEF IsCtx, HasTimers

\* What decides about the energy that Charging has.
SameEnergy(c, d) ==
    /\ d.current_state = c.current_state
    /\ d.hlc_use_5percent = c.hlc_use_5percent
    /\ d.max_current_ok = c.max_current_ok
    /\ d.cable_known = c.cable_known

\* Within a transaction the oscillator is left running while the timer runs,
\* but for an emergency, and for Charging at nominal duty without energy.
Fed(c) == c.current_state = "Charging" => PowerAvailable(c) \/ c.hlc_use_5percent
RetainsOscillator(c, d) ==
    /\ {c.current_state, d.current_state} \subseteq InTransaction
    /\ d.timer["retain"] # "off" /\ c.pwm_running
    /\ c.shutdown_type # "EmergencyShutdown" /\ Fed(c)
    => d.pwm_running

\* process_pending_reinit_request
LEMMA PendingReinitRetains ==
    ASSUME NEW x, HasTimers(x)
    PROVE  Retains(x, PendingReinit(x)) /\ HasTimers(PendingReinit(x))
<1> DEFINE g == Go(x, "StoppingCharging")
           c1 == IF x.current_state = "Charging" THEN g ELSE x
           c2 == [c1 EXCEPT !.reinit_running = TRUE]
           c3 == [c2 EXCEPT !.reinit_requested = FALSE,
                            !.t_step_X1_until_unmatched = FALSE]
           c4 == Go(c3, "Reinit")
<1>1. PendingReinit(x) \in {x, c2, c4}  BY DEF PendingReinit
<1>2. Retains(x, g) /\ HasTimers(g)  BY GoRetains
<1> HIDE DEF g
<1>3. Retains(x, c1) /\ HasTimers(c1)  BY <1>2, RetainsRefl
<1> HIDE DEF c1
<1>4. Alike(c1, c2) /\ HasTimers(c2)  BY <1>3 DEF Alike, HasTimers, Has, Fields
<1> HIDE DEF c2
<1>5. Alike(c2, c3) /\ HasTimers(c3)  BY <1>4 DEF Alike, HasTimers, Has, Fields
<1> HIDE DEF c3
<1>6. Retains(c3, c4) /\ HasTimers(c4)  BY <1>5, GoRetains
<1> HIDE DEF c4
<1>7. Retains(x, c2)  BY <1>3, <1>4, AlikeRetains, RetainsTrans
<1>8. Retains(x, c3)  BY <1>5, <1>7, AlikeRetains, RetainsTrans
<1>9. Retains(x, c4)  BY <1>6, <1>8, RetainsTrans
<1> QED  BY <1>1, <1>4, <1>6, <1>7, <1>9, RetainsRefl

\* The head of the loop, where the timer that is due switches both off.
LEMMA BeginRetains ==
    ASSUME NEW x, HasTimers(x), NEW init
    PROVE  LET c == Begin(x, init)
           IN /\ HasTimers(c) /\ SameEnergy(x, c) /\ SameEnd(x, c)
              /\ c.last_state_detect_state_change = x.current_state
              /\ c.shutdown_type = x.shutdown_type
              /\ c.flag_transaction_active = x.flag_transaction_active
              /\ c.timer["retain"] # "off" =>
                   /\ x.timer["retain"] # "off"
                   /\ c.pwm_running = x.pwm_running
<1> DEFINE gone == x.last_state_detect_state_change = "SwitchPhases"
                       /\ x.current_state # "SwitchPhases"
           c1 == [x EXCEPT !.last_state_detect_state_change = x.current_state,
                           !.detected_shutdown_type = x.shutdown_type,
                           !.age = IF init THEN 0 ELSE @,
                           !.switch_phases_ongoing = @ /\ ~gone]
           c2 == [c1 EXCEPT !.timer["retain"] = "off"]
           o == PilotOff(c2, "X1")
           Begun(c) == /\ HasTimers(c) /\ SameEnergy(x, c) /\ SameEnd(x, c)
                      /\ c.last_state_detect_state_change = x.current_state
                      /\ c.shutdown_type = x.shutdown_type
                      /\ c.flag_transaction_active = x.flag_transaction_active
<1>1. Begin(x, init) \in {c1, c2, o}  BY DEF Begin
<1> HIDE DEF gone
<1>2. Begun(c1) /\ c1.timer = x.timer /\ c1.pwm_running = x.pwm_running
  BY DEF HasTimers, Has, Fields, SameEnergy, SameEnd
<1> HIDE DEF c1
<1>3. Begun(c2) /\ c2.timer["retain"] = "off"
  BY <1>2 DEF HasTimers, Has, Fields, Deadlines, SameEnergy, SameEnd
<1> HIDE DEF c2
<1>4. Begun(o) /\ o.timer["retain"] = "off"
  <2>1. HasTimers(o) /\ o.timer["retain"] = "off"  BY <1>3, PilotOffSpares
  <2>2. Begun(o)
    BY <1>3, <2>1 DEF PilotOff, Note, HasTimers, Has, Fields, SameEnergy, SameEnd
  <2> QED  BY <2>1, <2>2
<1> QED  BY <1>1, <1>2, <1>3, <1>4

\* An iteration of run_state_machine's loop.
LEMMA PassRetains ==
    ASSUME NEW x, Good(x), NEW env
    PROVE  LET d == Pass(x, env)
           IN /\ HasTimers(d)
              /\ d.shutdown_type = x.shutdown_type
              /\ PausesTransaction(x) => PausesTransaction(d)
              /\ RetainsEnded(x) => RetainsEnded(d)
              /\ Settled(d) /\ d.current_state = "PrepareCharging"
                   => d.flag_transaction_active
              /\ RetainsEnded(x) /\ PausesTransaction(x) => RetainsOscillator(x, d)
<1> DEFINE c0 == PendingReinit(x)
           init == \/ c0.last_state_detect_state_change # c0.current_state
                   \/ c0.detected_shutdown_type # c0.shutdown_type
           c == Begin(c0, init)
           s == c.current_state
           d == Pass(x, env)
<1>1. Base(x) /\ IsCtx(x) /\ Has(x) /\ HasTimers(x)
  BY CtxHas, CtxHasTimers DEF Good, Base
<1>2. Base(c0) /\ Retains(x, c0) /\ HasTimers(c0)
  BY <1>1, PendingReinitOk, PendingReinitRetains DEF Ok
<1>3. /\ c0.current_state = "Charging" => c0 = x
      /\ c0.current_state \in {x.current_state, "StoppingCharging", "Reinit"}
  BY <1>1, PendingReinitCalm
<1>4. init \in BOOLEAN  OBVIOUS
<1>5. Base(c)  BY <1>2, <1>4, BeginOk
<1>6. /\ HasTimers(c) /\ SameEnergy(c0, c) /\ SameEnd(c0, c)
      /\ c.last_state_detect_state_change = c0.current_state
      /\ c.shutdown_type = c0.shutdown_type
      /\ c.flag_transaction_active = c0.flag_transaction_active
      /\ c.timer["retain"] # "off" =>
           /\ c0.timer["retain"] # "off"
           /\ c.pwm_running = c0.pwm_running
  <2> HIDE DEF c0, init
  <2> QED  BY <1>2, BeginRetains
<1>7. /\ s = "Disabled" => d = PassDisabled(c, init)
      /\ s = "Idle" => d = PassIdle(c, init)
      /\ s = "WaitingForAuthentication" => d = PassWaiting(c, init, env)
      /\ s = "SwitchPhases" => d = PassSwitchPhases(c, init)
      /\ s = "T_step_EF" => d = PassTStepEF(c, init)
      /\ s = "T_step_X1" => d = PassTStepX1(c, init)
      /\ s = "Reinit" => d = PassReinit(c, init)
      /\ s = "PrepareCharging" => d = PassPrepareCharging(c, init)
      /\ s = "Charging" => d = PassCharging(c, init, env)
      /\ s = "ChargingPausedEV" => d = PassChargingPausedEV(c, env)
      /\ s = "ChargingPausedEVSE" => d = PassChargingPausedEVSE(c, init)
      /\ s = "StoppingCharging" => d = PassStoppingCharging(c, init)
      /\ s = "Finished" => d = PassFinished(c, init)
  BY DEF Pass
<1> HIDE DEF c0, init, c, d
<1>8. s \in EvseState /\ Returns(c)  BY <1>5 DEF Base, IsCtx, Members
<1>9. /\ s \in {x.current_state, "StoppingCharging", "Reinit"}
      /\ s = "Charging" => x.current_state = "Charging" /\ (Fed(x) => Fed(c))
      /\ c.last_state_detect_state_change = s
  BY <1>3, <1>6 DEF SameEnergy, Fed, PowerAvailable
<1>10. /\ c.shutdown_type = x.shutdown_type
       /\ PausesTransaction(x) => PausesTransaction(c)
       /\ c.timer["retain"] # "off" =>
            /\ x.timer["retain"] # "off"
            /\ HasEnded(x) => HasEnded(c)
            /\ HasEnded(x) /\ x.pwm_running
                 /\ x.shutdown_type # "EmergencyShutdown" => c.pwm_running
  <2>1. /\ c.shutdown_type = x.shutdown_type
        /\ PausesTransaction(x) => PausesTransaction(c)
    BY <1>2, <1>6 DEF Retains, Spares, PausesTransaction, SameEnergy
  <2>2. c.timer["retain"] # "off" => c0.timer["retain"] # "off"  BY <1>6
  <2>3. HasEnded(c0) => HasEnded(c)  BY <1>6 DEF SameEnd, HasEnded
  <2>4. c0.timer["retain"] # "off" =>
            /\ x.timer["retain"] # "off"
            /\ HasEnded(x) => HasEnded(c0)
            /\ HasEnded(x) /\ x.pwm_running
                 /\ x.shutdown_type # "EmergencyShutdown" => c0.pwm_running
    BY <1>2 DEF Retains, Spares
  <2> QED  BY <1>6, <2>1, <2>2, <2>3, <2>4
<1>11. ASSUME Spares(c, d)
       PROVE  /\ HasTimers(d)
              /\ d.shutdown_type = x.shutdown_type
              /\ PausesTransaction(x) => PausesTransaction(d)
              /\ RetainsEnded(x) => RetainsEnded(d)
              /\ d.last_state_detect_state_change = s
  BY <1>9, <1>10, <1>11 DEF Spares, RetainsEnded
<1>12. ASSUME Retains(c, d), RetainsEnded(x)
       PROVE  RetainsOscillator(x, d)
  BY <1>10, <1>12 DEF Spares, Retains, RetainsEnded, RetainsOscillator
<1>13. CASE s \in {"Disabled", "Idle", "WaitingForAuthentication",
                   "SwitchPhases", "T_step_EF", "T_step_X1", "Finished"}
  <2>1. x.current_state \notin InTransaction
    BY <1>9, <1>13 DEF InTransaction
  <2>2. s = "Disabled" => Spares(c, d)  BY <1>6, <1>7, PassDisabledSpares
  <2>3. s = "Idle" => Spares(c, d)  BY <1>6, <1>7, PassIdleSpares
  <2>4. s = "WaitingForAuthentication" => Spares(c, d)
    BY <1>6, <1>7, PassWaitingSpares
  <2>5. s = "SwitchPhases" => Spares(c, d)  BY <1>6, <1>7, PassSwitchPhasesSpares
  <2>6. s = "T_step_EF" => Spares(c, d)
    BY <1>6, <1>7, <1>8, PassTStepEFSpares DEF Returns, ReturnStates
  <2>7. s = "T_step_X1" => Spares(c, d)
    BY <1>6, <1>7, <1>8, PassTStepX1Spares DEF Returns, ReturnStates
  <2>8. s = "Finished" => Spares(c, d)  BY <1>6, <1>7, PassFinishedSpares
  <2>9. Spares(c, d)
    BY <1>13, <2>2, <2>3, <2>4, <2>5, <2>6, <2>7, <2>8
  <2> QED  BY <1>11, <1>13, <2>1, <2>9 DEF d, Settled, RetainsOscillator
<1>14. CASE s = "Reinit"
  <2>1. Spares(c, d) /\ d.current_state \notin InTransaction
    BY <1>6, <1>7, <1>14, PassReinitSpares
  <2> QED  BY <1>11, <1>14, <2>1 DEF d, Settled, RetainsOscillator
<1>15. CASE s = "PrepareCharging"
  <2>1. /\ Retains(c, d)
        /\ d.current_state = "PrepareCharging" => d.flag_transaction_active
    BY <1>6, <1>7, <1>15, PassPrepareChargingRetains
  <2>2. Spares(c, d)  BY <2>1 DEF Retains
  <2> QED  BY <1>11, <1>12, <2>1, <2>2 DEF d
<1>16. CASE s = "Charging"
  <2>1. /\ Spares(c, d)
        /\ PowerAvailable(c) \/ c.hlc_use_5percent => Retains(c, d)
    BY <1>6, <1>7, <1>16, PassChargingRetains
  <2>2. x.current_state = "Charging" /\ (Fed(x) => Retains(c, d))
    BY <1>9, <1>16, <2>1 DEF Fed
  <2>3. RetainsEnded(x) => RetainsOscillator(x, d)
    BY <1>12, <2>2 DEF RetainsOscillator
  <2> QED  BY <1>11, <1>16, <2>1, <2>3 DEF d, Settled
<1>17. CASE s = "ChargingPausedEVSE"
  <2>1. /\ Spares(c, d)
        /\ c.flag_transaction_active => Retains(c, d)
    BY <1>6, <1>7, <1>17, PassChargingPausedEVSERetains
  <2>2. PausesTransaction(x) => Retains(c, d)
    BY <1>10, <1>17, <2>1 DEF PausesTransaction
  <2> QED  BY <1>11, <1>12, <1>17, <2>1, <2>2 DEF d, Settled
<1>18. CASE s \in {"ChargingPausedEV", "StoppingCharging"}
  <2>1. Retains(c, d)
    BY <1>6, <1>7, <1>18, PassChargingPausedEVRetains, PassStoppingChargingRetains
  <2>2. Spares(c, d)  BY <2>1 DEF Retains
  <2> QED  BY <1>11, <1>12, <1>18, <2>1, <2>2 DEF d, Settled
<1> QED  BY <1>8, <1>13, <1>14, <1>15, <1>16, <1>17, <1>18 DEF EvseState
-----------------------------------------------------------------------------
\* The events, the main thread and the calls.

\* process_cp_events_independent
LEMMA IndependentEventRetains ==
    ASSUME NEW c, HasTimers(c), NEW e
    PROVE  Alike(c, IndependentEvent(c, e)) /\ SameEnergy(c, IndependentEvent(c, e))
<1> DEFINE a == [c EXCEPT !.iec_allow_close_contactor = FALSE]
           b == [c EXCEPT !.flag_ev_plugged_in = FALSE]
           o == [c EXCEPT !.contactor_open = TRUE]
           p == [c EXCEPT !.contactor_open = FALSE]
<1>1. IndependentEvent(c, e) \in {a, b, o, p, c}  BY DEF IndependentEvent
<1>2. Alike(c, a) /\ SameEnergy(c, a)
  BY DEF Alike, HasTimers, Has, Fields, SameEnergy
<1>3. Alike(c, b) /\ SameEnergy(c, b)
  BY DEF Alike, HasTimers, Has, Fields, SameEnergy
<1>4. Alike(c, o) /\ SameEnergy(c, o)
  BY DEF Alike, HasTimers, Has, Fields, SameEnergy
<1>5. Alike(c, p) /\ SameEnergy(c, p)
  BY DEF Alike, HasTimers, Has, Fields, SameEnergy
<1>6. Alike(c, c) /\ SameEnergy(c, c)  BY DEF Alike, SameEnergy
<1> QED  BY <1>1, <1>2, <1>3, <1>4, <1>5, <1>6

\* The pulses of a BCB toggle are only counted.
LEMMA BcbAlike ==
    ASSUME NEW c, HasTimers(c), NEW valid
    PROVE  Alike(c, BcbStartPulse(c)) /\ Alike(c, BcbStopPulse(c, valid))
<1>1. Alike(c, c)  BY DEF Alike
<1>2. Alike(c, BcbStartPulse(c))
  BY <1>1 DEF BcbStartPulse, Alike, HasTimers, Has, Fields, Deadlines
<1>3. Alike(c, BcbStopPulse(c, valid))
  BY <1>1 DEF BcbStopPulse, Alike, HasTimers, Has, Fields
<1> QED  BY <1>2, <1>3

\* process_cp_events_state, which pauses a session in PrepareCharging that has
\* its transaction, and does not enter the states of a transaction otherwise.
LEMMA StateEventRetains ==
    ASSUME NEW c, HasTimers(c), NEW e, NEW valid,
           c.current_state = "PrepareCharging" => c.flag_transaction_active
    PROVE  LET d == StateEvent(c, e, valid)
           IN /\ Retains(c, d)
              /\ d.current_state \in InTransaction
                   => c.current_state \in InTransaction
              /\ d.pwm_running = c.pwm_running
<1> DEFINE requests == [c EXCEPT !.iec_allow_close_contactor = TRUE]
           stops == [c EXCEPT !.iec_allow_close_contactor = FALSE]
           plugged == [c EXCEPT !.flag_ev_plugged_in = TRUE]
           paused == [stops EXCEPT !.hlc_session_paused_by_evse = FALSE]
           to == IF c.hlc_dc_renegotiation THEN c.current_state
                                           ELSE "ChargingPausedEVSE"
           d == StateEvent(c, e, valid)
           Told(x) == /\ Retains(c, x)
                      /\ x.current_state \in InTransaction
                           => c.current_state \in InTransaction
                      /\ x.pwm_running = c.pwm_running
<1>1. \/ d \in {Go(plugged, "WaitingForAuthentication"), requests, stops,
                BcbStartPulse(requests), BcbStopPulse(c, valid),
                BcbStartPulse(c), c}
      \/ c.current_state = "ChargingPausedEV" /\ d = Go(requests, "PrepareCharging")
      \/ c.current_state = "PrepareCharging" /\ d = Go(paused, to)
  BY DEF StateEvent, PulseEvent
<1>2. ASSUME NEW x, Alike(c, x)
      PROVE  Told(x) /\ HasTimers(x)
  BY <1>2, AlikeRetains DEF Alike
<1>3. ASSUME NEW x, Alike(c, x), NEW s,
             s = "ChargingPausedEVSE" => x.flag_transaction_active,
             s \in InTransaction => c.current_state \in InTransaction
      PROVE  Told(Go(x, s))
  <2>1. Told(x) /\ HasTimers(x)  BY <1>2, <1>3
  <2>2. Retains(x, Go(x, s))  BY <1>3, <2>1, GoRetains
  <2>3. Go(x, s).current_state = s /\ Go(x, s).pwm_running = x.pwm_running
    BY <2>1 DEF Go, HasTimers, Has, Fields
  <2> QED  BY <1>3, <2>1, <2>2, <2>3, RetainsTrans
<1>4. Alike(c, requests)  BY DEF Alike, HasTimers, Has, Fields
<1>5. Alike(c, stops)  BY DEF Alike, HasTimers, Has, Fields
<1>6. Alike(c, plugged)  BY DEF Alike, HasTimers, Has, Fields
<1> HIDE DEF requests, stops, plugged, d
<1>7. Alike(stops, paused)  BY <1>5 DEF Alike, HasTimers, Has, Fields
<1>8. Alike(c, paused)  BY <1>5, <1>7 DEF Alike
<1> HIDE DEF paused
<1>9. Alike(c, c)  BY DEF Alike
<1>10. /\ Alike(c, BcbStopPulse(c, valid)) /\ Alike(c, BcbStartPulse(c))
       /\ Alike(c, BcbStartPulse(requests))
  <2>1. HasTimers(requests)  BY <1>4 DEF Alike
  <2>2. Alike(requests, BcbStartPulse(requests))  BY <2>1, BcbAlike
  <2>3. Alike(c, BcbStartPulse(requests))  BY <1>4, <2>2 DEF Alike
  <2> QED  BY <2>3, BcbAlike
<1>11. Told(Go(plugged, "WaitingForAuthentication"))
  BY <1>3, <1>6 DEF InTransaction
<1>12. CASE /\ c.current_state = "ChargingPausedEV"
            /\ d = Go(requests, "PrepareCharging")
  <2>1. Told(Go(requests, "PrepareCharging"))
    BY <1>3, <1>4, <1>12 DEF InTransaction
  <2> QED  BY <1>12, <2>1 DEF d
<1>13. CASE c.current_state = "PrepareCharging" /\ d = Go(paused, to)
  <2>1. paused.flag_transaction_active  BY <1>8, <1>13 DEF Alike
  <2> HIDE DEF to
  <2>2. Told(Go(paused, to))  BY <1>3, <1>8, <1>13, <2>1 DEF InTransaction
  <2> QED  BY <1>13, <2>2 DEF d
<1>14. CASE d \in {Go(plugged, "WaitingForAuthentication"), requests, stops,
                   BcbStartPulse(requests), BcbStopPulse(c, valid),
                   BcbStartPulse(c), c}
  <2>1. /\ Told(requests) /\ Told(stops) /\ Told(BcbStartPulse(requests))
        /\ Told(BcbStopPulse(c, valid)) /\ Told(BcbStartPulse(c)) /\ Told(c)
    BY <1>2, <1>4, <1>5, <1>9, <1>10
  <2> QED  BY <1>11, <1>14, <2>1 DEF d
<1> QED  BY <1>1, <1>12, <1>13, <1>14

\* The invariant behind RetainHolds, and what a step does with it.
RetainInv == RetainsEnded(ctx) /\ PausesTransaction(ctx)
RetainStep == RetainInv => RetainInv' /\ RetainsOscillator(ctx, ctx')

\* A call or an event that retains.
LEMMA RetainsStep ==
    ASSUME Retains(ctx, ctx')
    PROVE  RetainStep
BY DEF Retains, Spares, RetainStep, RetainInv, RetainsEnded, RetainsOscillator

\* An iteration, with the state dependent part of an event after it.
LEMMA IterateRetains ==
    ASSUME NEW c, Good(c), NEW phase, NEW e, NEW env, NEW valid,
           Iterate(c, phase, e, env, valid),
           RetainsEnded(c), PausesTransaction(c)
    PROVE  RetainInv' /\ RetainsOscillator(c, ctx')
<1> DEFINE next == Pass(c, env)
           told == StateEvent(next, e, valid)
<1>1. /\ HasTimers(next)
      /\ PausesTransaction(next) /\ RetainsEnded(next)
      /\ Settled(next) /\ next.current_state = "PrepareCharging"
           => next.flag_transaction_active
      /\ RetainsOscillator(c, next)
  BY PassRetains
<1>2. \/ ctx' = next
      \/ ctx' = told /\ Settled(next)
  BY DEF Iterate
<1> HIDE DEF next
<1>3. CASE ctx' = next  BY <1>1, <1>3 DEF RetainInv
<1>4. CASE ctx' = told /\ Settled(next)
  <2>1. /\ Retains(next, told)
        /\ told.current_state \in InTransaction
             => next.current_state \in InTransaction
        /\ told.pwm_running = next.pwm_running
    BY <1>1, <1>4, StateEventRetains
  <2> HIDE DEF told
  <2>2. PausesTransaction(told) /\ RetainsEnded(told)
    BY <1>1, <2>1 DEF Retains, Spares, RetainsEnded
  <2>3. RetainsOscillator(c, told)
    BY <1>1, <2>1 DEF Retains, Spares, RetainsOscillator
  <2> QED  BY <1>4, <2>2, <2>3 DEF RetainInv
<1> QED  BY <1>2, <1>3, <1>4

\* The main thread.
LEMMA MainThreadRetains ==
    ASSUME CInv, MainLoop \/ ProcessEvent \/ NextIteration
    PROVE  RetainStep
<1>0. Good(ctx) /\ IsCtx(ctx) /\ HasTimers(ctx)
  BY CtxHasTimers DEF CInv, Good, Base
<1> SUFFICES ASSUME RetainsEnded(ctx), PausesTransaction(ctx)
             PROVE  RetainInv' /\ RetainsOscillator(ctx, ctx')
  BY DEF RetainStep, RetainInv
<1>1. CASE MainLoop
  <2>1. PICK env \in Env(ctx.current_state) :
            Iterate(ctx, "loop", NoEvent, env, TRUE)
    BY <1>1 DEF MainLoop
  <2> QED  BY <1>0, <2>1, IterateRetains
<1>2. CASE ProcessEvent
  <2> DEFINE e == Head(queue)
             c == IndependentEvent(ctx, e)
  <2>1. PICK env \in Env(ctx.current_state), valid \in Valid(e) :
            Iterate(c, "before", e, env, valid)
    BY <1>2 DEF ProcessEvent
  <2>2. Keeps(ctx, c)  BY <1>0, IndependentEventKeeps
  <2>3. Alike(ctx, c) /\ SameEnergy(ctx, c)  BY <1>0, IndependentEventRetains
  <2> HIDE DEF c, e
  <2>4. Good(c)  BY <1>0, <2>2, KeepsFine DEF Fine
  <2>5. RetainsEnded(c) /\ PausesTransaction(c)
    BY <2>3 DEF Alike, RetainsEnded, PausesTransaction, HasEnded
  <2>6. RetainInv' /\ RetainsOscillator(c, ctx')
    BY <2>1, <2>4, <2>5, IterateRetains
  <2>7. RetainsOscillator(ctx, ctx')
    BY <2>3, <2>6 DEF Alike, SameEnergy, RetainsOscillator, Fed, PowerAvailable
  <2> QED  BY <2>6, <2>7
<1>3. CASE NextIteration
  <2>1. PICK env \in Env(ctx.current_state), valid \in Valid(run.event) :
            Iterate(ctx, run.phase, run.event, env, valid)
    BY <1>3 DEF NextIteration
  <2> QED  BY <1>0, <2>1, IterateRetains
<1> QED  BY <1>1, <1>2, <1>3

\* The calls that only set other members.
LEMMA PlainCallRetains ==
    ASSUME HasTimers(ctx),
           \/ PauseCharging \/ ResumeCharging \/ StorePaused \/ SetHlcD20Active
           \/ UpdateDcPresentCurrent \/ DcOpenContactorPower
           \/ IecStep \/ IecC1Timeout
           \/ CancelTransaction \/ StartReinit \/ SetMaxCurrent
           \/ SetHlcAllowCloseContactor \/ DcOpenContactorRequest
           \/ NotifyHlcSessionStarted \/ NotifyHlcPauseNotified
           \/ SlacMatching \/ SlacMatched \/ SetDlinkReady
           \/ SlacUnmatched \/ SlacUnmatchedToo \/ DlinkErrorReinit
    PROVE  Retains(ctx, ctx')
<1> SUFFICES Alike(ctx, ctx')  BY AlikeRetains
<1> USE DEF Alike, HasTimers, Has, Fields, Locked, FromHlc, Free, Slac
<1>1. CASE PauseCharging \/ ResumeCharging
  BY <1>1 DEF PauseCharging, ResumeCharging, Asks
<1>2. CASE StorePaused  BY <1>2 DEF StorePaused
<1>3. CASE SetHlcD20Active
  <2>1. PICK dynamic \in BOOLEAN :
           ctx' = [ctx EXCEPT !.hlc_d20_active = TRUE,
                              !.hlc_d20_dynamic_mode = dynamic]
    BY <1>3 DEF SetHlcD20Active
  <2> QED  BY <2>1
<1>4. CASE UpdateDcPresentCurrent  BY <1>4 DEF UpdateDcPresentCurrent
<1>5. CASE DcOpenContactorPower  BY <1>5 DEF DcOpenContactorPower
<1>6. CASE IecStep  BY <1>6 DEF IecStep
<1>7. CASE IecC1Timeout  BY <1>7 DEF IecC1Timeout
<1>8. CASE CancelTransaction  BY <1>8 DEF CancelTransaction, Cancelled
<1>9. CASE StartReinit  BY <1>9 DEF StartReinit, ReinitRequested
<1>10. CASE SetMaxCurrent  BY <1>10 DEF SetMaxCurrent
<1>11. CASE SetHlcAllowCloseContactor  BY <1>11 DEF SetHlcAllowCloseContactor
<1>12. CASE DcOpenContactorRequest  BY <1>12 DEF DcOpenContactorRequest
<1>13. CASE NotifyHlcSessionStarted  BY <1>13 DEF NotifyHlcSessionStarted
<1>14. CASE NotifyHlcPauseNotified  BY <1>14 DEF NotifyHlcPauseNotified
<1>15. CASE SlacMatching  BY <1>15 DEF SlacMatching
<1>16. CASE SlacMatched  BY <1>16 DEF SlacMatched
<1>17. CASE SetDlinkReady  BY <1>17 DEF SetDlinkReady
<1>18. CASE SlacUnmatched  BY <1>18 DEF SlacUnmatched
<1>19. CASE SlacUnmatchedToo  BY <1>19 DEF SlacUnmatchedToo
<1>20. CASE DlinkErrorReinit  BY <1>20 DEF DlinkErrorReinit, ReinitRequested
<1> QED
  BY <1>1, <1>2, <1>3, <1>4, <1>5, <1>6, <1>7, <1>8, <1>9, <1>10, <1>11, <1>12,
     <1>13, <1>14, <1>15, <1>16, <1>17, <1>18, <1>19, <1>20

\* The calls that begin or end a session, or move the state machine.
LEMMA SessionCallRetains ==
    ASSUME HasTimers(ctx),
           \/ Authorize \/ Deauthorize \/ SwitchThreePhases
           \/ EnableDisableConnector \/ SetHlcChargingActive
           \/ DcRenegotiationStarted \/ NotifyCurrentDemandStarted
           \/ RequestErrorSequence \/ Time
    PROVE  Retains(ctx, ctx')
<1> USE DEF Locked, FromHlc
<1>1. CASE Authorize
  <2>1. PICK pnc \in BOOLEAN : ctx' = AuthorizedBy(ctx, pnc)
    BY <1>1 DEF Authorize
  <2> DEFINE n == StartSession(ctx)
             c1 == IF ctx.session_active THEN ctx ELSE n
             c2 == [c1 EXCEPT !.flag_authorized = TRUE, !.authorized_pnc = pnc]
  <2>2. ctx' \in {ctx, c2}  BY <2>1 DEF AuthorizedBy
  <2>3. Alike(ctx, ctx)  BY DEF Alike
  <2>4. Alike(ctx, n)  BY DEF StartSession, Alike, HasTimers, Has, Fields
  <2> HIDE DEF n
  <2>5. Alike(ctx, c1) /\ HasTimers(c1)  BY <2>3, <2>4 DEF Alike
  <2> HIDE DEF c1
  <2>6. Alike(c1, c2)  BY <2>5 DEF Alike, HasTimers, Has, Fields
  <2> HIDE DEF c2
  <2>7. Retains(ctx, c2)  BY <2>5, <2>6, AlikeRetains, RetainsTrans
  <2> QED  BY <2>2, <2>7, RetainsRefl
<1>2. CASE Deauthorize
  <2>1. Alike(ctx, ctx')
    BY <1>2 DEF Deauthorize, DeauthorizeInternal, EndSession, Hears,
         Alike, HasTimers, Has, Fields
  <2> QED  BY <2>1, AlikeRetains
<1>3. CASE SwitchThreePhases
  <2> DEFINE a == [ctx EXCEPT !.switch_phases_ongoing = TRUE]
  <2>1. ctx' \in {Go(a, "SwitchPhases"), ctx}  BY <1>3 DEF SwitchThreePhases
  <2>2. Alike(ctx, a) /\ HasTimers(a)  BY DEF Alike, HasTimers, Has, Fields
  <2> HIDE DEF a
  <2>3. Retains(ctx, Go(a, "SwitchPhases"))
    BY <2>2, AlikeRetains, GoRetains, RetainsTrans
  <2> QED  BY <2>1, <2>3, RetainsRefl
<1>4. CASE EnableDisableConnector
  <2>1. PICK connector_id \in {0, 1}, source \in Requests :
          LET winner == Winner(TableUpdate(table, source))
              enabled == IF connector_id # 0 THEN IsEnabled(winner)
                                               ELSE ctx.connector_enabled
              c1 == [ctx EXCEPT !.connector_enabled = enabled]
              c2 == IF ctx.current_state = "Disabled" /\ enabled
                    THEN Go([c1 EXCEPT !.flag_disable_requested = FALSE], "Idle")
                    ELSE c1
              changed == IsEnabled(winner) # IsEnabled(active)
          IN ctx' = IF changed /\ ~IsEnabled(winner)
                    THEN [c2 EXCEPT !.flag_disable_requested = TRUE] ELSE c2
    BY <1>4 DEF EnableDisableConnector
  <2> DEFINE enabled == IF connector_id # 0
                        THEN IsEnabled(Winner(TableUpdate(table, source)))
                        ELSE ctx.connector_enabled
             c1 == [ctx EXCEPT !.connector_enabled = enabled]
             b == [c1 EXCEPT !.flag_disable_requested = FALSE]
             g == Go(b, "Idle")
             c2 == IF ctx.current_state = "Disabled" /\ enabled THEN g ELSE c1
             d == [c2 EXCEPT !.flag_disable_requested = TRUE]
  <2>2. ctx' \in {c2, d}  BY <2>1
  <2> HIDE DEF enabled
  <2>3. Alike(ctx, c1) /\ HasTimers(c1)  BY DEF Alike, HasTimers, Has, Fields
  <2> HIDE DEF c1
  <2>4. Alike(c1, b) /\ HasTimers(b)  BY <2>3 DEF Alike, HasTimers, Has, Fields
  <2> HIDE DEF b
  <2>5. Retains(b, g) /\ HasTimers(g)  BY <2>4, GoRetains
  <2> HIDE DEF g
  <2>6. Retains(ctx, c1) /\ Retains(c1, b)  BY <2>3, <2>4, AlikeRetains
  <2>7. Retains(ctx, c2) /\ HasTimers(c2)
    BY <2>3, <2>5, <2>6, RetainsTrans
  <2> HIDE DEF c2
  <2>8. Alike(c2, d)  BY <2>7 DEF Alike, HasTimers, Has, Fields
  <2> HIDE DEF d
  <2>9. Retains(ctx, d)  BY <2>7, <2>8, AlikeRetains, RetainsTrans
  <2> QED  BY <2>2, <2>7, <2>9
<1>5. CASE SetHlcChargingActive
  BY <1>5 DEF SetHlcChargingActive, HasTimers, Has, Fields, Retains, Spares,
       PausesTransaction, HasEnded
<1>6. CASE DcRenegotiationStarted
  <2> DEFINE a == [ctx EXCEPT !.hlc_dc_renegotiation = TRUE,
                              !.hlc_allow_close_contactor = FALSE,
                              !.allow_power_on = FALSE]
  <2>1. ctx' \in {Go(a, "PrepareCharging"), ctx}
    BY <1>6 DEF DcRenegotiationStarted
  <2>2. Alike(ctx, a) /\ HasTimers(a)  BY DEF Alike, HasTimers, Has, Fields
  <2> HIDE DEF a
  <2>3. Retains(ctx, Go(a, "PrepareCharging"))
    BY <2>2, AlikeRetains, GoRetains, RetainsTrans
  <2> QED  BY <2>1, <2>3, RetainsRefl
<1>7. CASE NotifyCurrentDemandStarted
  <2> DEFINE a == [ctx EXCEPT !.hlc_dc_renegotiation = FALSE]
  <2>1. ctx' \in {Go(a, "Charging"), ctx}
    BY <1>7 DEF NotifyCurrentDemandStarted
  <2>2. Alike(ctx, a) /\ HasTimers(a)  BY DEF Alike, HasTimers, Has, Fields
  <2> HIDE DEF a
  <2>3. Retains(ctx, Go(a, "Charging"))
    BY <2>2, AlikeRetains, GoRetains, RetainsTrans
  <2> QED  BY <2>1, <2>3, RetainsRefl
<1>8. CASE RequestErrorSequence
  BY <1>8, ErrorSequenceRetains DEF RequestErrorSequence, RetainsPaid
<1>9. CASE DeadlinePasses
  <2>1. PICK t \in Deadlines : /\ ctx.timer[t] = "armed"
                               /\ ctx' = [ctx EXCEPT !.timer[t] = "due"]
    BY <1>9 DEF DeadlinePasses
  <2>2. /\ HasTimers(ctx')
        /\ ctx'.timer["retain"] # "off" => ctx.timer["retain"] # "off"
    BY <2>1 DEF HasTimers, Has, Fields, Deadlines
  <2> QED  BY <2>1, <2>2 DEF HasTimers, Has, Fields, Retains, Spares,
              PausesTransaction, HasEnded
<1>10. CASE StateAges
  <2>1. Alike(ctx, ctx')
    BY <1>10 DEF StateAges, Alike, HasTimers, Has, Fields, Deadlines
  <2> QED  BY <2>1, AlikeRetains
<1> QED
  BY <1>1, <1>2, <1>3, <1>4, <1>5, <1>6, <1>7, <1>8, <1>9, <1>10 DEF Time

\* The end of an HLC session, reported by the link layer: a timer that is set
\* decides alone.
LEMMA HlcEndsRetains ==
    ASSUME NEW c, HasTimers(c), NEW how \in {"Terminate", "Pause"}
    PROVE  Retains(c, HlcEnds(c, how))
<1> DEFINE o == PilotOff(c, "X1")
           c1 == IF c.timer["retain"] = "off" THEN o ELSE c
           d == HlcEnds(c, how)
<1>1. Spares(c, o) /\ HasTimers(o) /\ o.timer["retain"] = c.timer["retain"]
  BY PilotOffSpares
<1> HIDE DEF o
<1>2. Retains(c, c1) /\ HasTimers(c1)
  BY <1>1, SparesRetains, RetainsRefl
<1>3. d = [c1 EXCEPT !.hlc_allow_close_contactor = FALSE,
                     !.hlc_charging_terminate_pause = how]
  BY DEF HlcEnds, o
<1> HIDE DEF c1, d
<1>4. Retains(c1, d)
  BY <1>2, <1>3 DEF HasTimers, Has, Fields, Retains, Spares, PausesTransaction,
       HasEnded
<1>5. Retains(c, d)  BY <1>2, <1>4, RetainsTrans
<1> QED  BY <1>5 DEF d

\* The way back to PrepareCharging, and the section of dlink_error, switch the
\* timer off.
LEMMA BackToPrepareRetains ==
    ASSUME NEW c, HasTimers(c)
    PROVE  LET d == BackToPrepare(c)
           IN Retains(c, d) /\ HasTimers(d) /\ d.timer["retain"] = "off"
<1> DEFINE d == BackToPrepare(c)
<1>1. Spares(c, d) /\ HasTimers(d) /\ d.timer["retain"] = "off"
  BY DEF BackToPrepare, HasTimers, Has, Fields, Deadlines, Spares,
         PausesTransaction
<1> QED  BY <1>1, SparesRetains

\* The section of dlink_error.
LEMMA DlinkFailedRetains ==
    ASSUME NEW c, HasTimers(c)
    PROVE  Retains(c, DlinkFailed(c))
<1> DEFINE c1 == [c EXCEPT !.timer["retain"] = "off", !.hlc_failed = TRUE,
                           !.hlc_allow_close_contactor = FALSE]
           o == PilotOff(c1, "X1")
           o1 == IF c1.pwm_running THEN o ELSE c1
           o2 == [o1 EXCEPT !.allow_power_on = FALSE]
           b == BackToPrepare(c1)
           b1 == [b EXCEPT !.t_step_X1_until_unmatched = TRUE]
           a == [c1 EXCEPT !.hlc_charging_active = FALSE]
           c2 == IF ChargeMode = "AC" THEN a ELSE c1
           p == PilotOff(c2, "X1")
           c3 == IF c2.hlc_use_5percent THEN p ELSE c2
           c4 == [c3 EXCEPT
                    !.t_step_EF_return_state = "WaitingForAuthentication",
                    !.t_step_EF_return_pwm = "zero",
                    !.t_step_X1_until_unmatched = TRUE]
           Off(x) == Spares(c, x) /\ HasTimers(x) /\ x.timer["retain"] = "off"
<1>1. DlinkFailed(c) \in {o2, Go(b1, "T_step_X1"), Go(c4, "T_step_X1"), c3}
  BY DEF DlinkFailed
<1>2. Off(c1)
  BY DEF HasTimers, Has, Fields, Deadlines, Spares, PausesTransaction
<1> HIDE DEF c1
<1>3. ASSUME NEW x, NEW y, Off(x), Alike(x, y)
      PROVE  Off(y)
  BY <1>3, AlikeRetains, RetainsTrans DEF Alike
<1>4. ASSUME NEW x, Off(x)
      PROVE  Off(PilotOff(x, "X1"))
  BY <1>4, PilotOffSpares, RetainsTrans
<1>5. ASSUME NEW x, Off(x)
      PROVE  Off(Go(x, "T_step_X1"))
  <2>1. Spares(x, Go(x, "T_step_X1")) /\ HasTimers(Go(x, "T_step_X1"))
    BY <1>5, GoRetains
  <2> QED  BY <1>5, <2>1, RetainsTrans DEF Spares
<1>6. Off(o)  BY <1>2, <1>4
<1> HIDE DEF o
<1>7. Off(o1)  BY <1>2, <1>6
<1> HIDE DEF o1
<1>8. Alike(o1, o2)  BY <1>7 DEF Alike, HasTimers, Has, Fields
<1> HIDE DEF o2
<1>9. Off(o2)  BY <1>3, <1>7, <1>8
<1>10. Off(b)
  <2>1. Spares(c1, b) /\ HasTimers(b) /\ b.timer["retain"] = "off"
    BY <1>2, BackToPrepareRetains DEF Retains
  <2> QED  BY <1>2, <2>1, RetainsTrans
<1> HIDE DEF b
<1>11. Alike(b, b1)  BY <1>10 DEF Alike, HasTimers, Has, Fields
<1> HIDE DEF b1
<1>12. Off(b1)  BY <1>3, <1>10, <1>11
<1>13. Off(a)
  BY <1>2 DEF HasTimers, Has, Fields, Spares, PausesTransaction
<1> HIDE DEF a
<1>14. Off(c2)  BY <1>2, <1>13
<1> HIDE DEF c2
<1>15. Off(p)  BY <1>4, <1>14
<1> HIDE DEF p
<1>16. Off(c3)  BY <1>14, <1>15
<1> HIDE DEF c3
<1>17. Alike(c3, c4)  BY <1>16 DEF Alike, HasTimers, Has, Fields
<1> HIDE DEF c4
<1>18. Off(c4)  BY <1>3, <1>16, <1>17
<1>19. Off(Go(b1, "T_step_X1")) /\ Off(Go(c4, "T_step_X1"))
  BY <1>5, <1>12, <1>18
<1>20. Off(DlinkFailed(c))  BY <1>1, <1>9, <1>16, <1>19
<1> QED  BY <1>20, SparesRetains

\* The link layer's signals.
LEMMA DlinkRetains ==
    ASSUME HasTimers(ctx), DlinkPause \/ DlinkTerminate \/ DlinkErrorSection
    PROVE  Retains(ctx, ctx')
<1> DEFINE c == Unlinked(ctx)
<1>0. Alike(ctx, c)  BY DEF Unlinked, Alike, HasTimers, Has, Fields
<1>1. Retains(ctx, c) /\ HasTimers(c)  BY <1>0, AlikeRetains DEF Alike
<1>2. CASE DlinkPause
  BY <1>2, HlcEndsRetains, RetainsRefl DEF DlinkPause, DlinkPaused, FromHlc, Locked
<1>3. CASE DlinkTerminate
  <2> DEFINE b == BackToPrepare(c)
  <2>1. ctx' \in {c, Go(b, "T_step_EF"), HlcEnds(c, "Terminate")}
    BY <1>3 DEF DlinkTerminate, Unlinked
  <2> HIDE DEF c
  <2>2. Retains(c, b) /\ HasTimers(b)  BY <1>1, BackToPrepareRetains
  <2> HIDE DEF b
  <2>3. Retains(c, Go(b, "T_step_EF"))  BY <2>2, GoRetains, RetainsTrans
  <2>4. Retains(c, HlcEnds(c, "Terminate"))  BY <1>1, HlcEndsRetains
  <2> QED  BY <1>1, <2>1, <2>3, <2>4, RetainsTrans
<1>4. CASE DlinkErrorSection
  <2>1. ctx' \in {c, DlinkFailed(c)}
    BY <1>4 DEF DlinkErrorSection, Unlinked
  <2> HIDE DEF c
  <2>2. Retains(c, DlinkFailed(c))  BY <1>1, DlinkFailedRetains
  <2> QED  BY <1>1, <2>1, <2>2, RetainsTrans
<1> QED  BY <1>2, <1>3, <1>4

\* notify_session_stop_res_sent sets the timer for a session that has ended.
LEMMA SessionStopResInv ==
    ASSUME HasTimers(ctx), NotifySessionStopResSent, RetainInv
    PROVE  RetainInv'
<1>1. PICK action \in {"Pause", "Terminate", "FailedTermination"} :
          ctx' = SessionStopRes(ctx, action)
  BY DEF NotifySessionStopResSent, FromHlc, Locked
<1> DEFINE how == IF action = "Pause" THEN "Pause" ELSE "Terminate"
           c1 == [ctx EXCEPT !.hlc_allow_close_contactor = FALSE,
                             !.hlc_charging_terminate_pause = how]
           o == PilotOff(c1, "X1")
           c2 == [c1 EXCEPT !.timer["retain"] = "armed"]
<1>2. ctx' = ctx \/ (ctx.hlc_charging_active /\ ctx' \in {o, c2})
  BY <1>1 DEF SessionStopRes
<1>3. how # "Unknown"  OBVIOUS
<1> HIDE DEF how
<1>4. /\ HasTimers(c1) /\ PausesTransaction(c1)
      /\ ctx.hlc_charging_active => HasEnded(c1)
  BY <1>3 DEF HasTimers, Has, Fields, RetainInv, PausesTransaction, HasEnded
<1> HIDE DEF c1
<1>5. PausesTransaction(o) /\ (HasEnded(c1) => HasEnded(o))
  BY <1>4, PilotOffSpares DEF PausesTransaction, HasEnded
<1>6. PausesTransaction(c2) /\ (HasEnded(c1) => HasEnded(c2))
  BY <1>4 DEF HasTimers, Has, Fields, PausesTransaction, HasEnded
<1> HIDE DEF o, c2
<1> QED  BY <1>2, <1>4, <1>5, <1>6 DEF RetainInv, RetainsEnded

\* The error thread leaves the oscillator to the next iteration.
LEMMA ErrorThreadRetains ==
    ASSUME HasTimers(ctx), ErrorThread
    PROVE  RetainStep
<1>1. /\ ctx'.current_state = ctx.current_state
      /\ ctx'.flag_transaction_active = ctx.flag_transaction_active
      /\ ctx'.timer = ctx.timer
      /\ ctx'.hlc_charging_active = ctx.hlc_charging_active
      /\ ctx'.hlc_charging_terminate_pause = ctx.hlc_charging_terminate_pause
      /\ ctx'.pwm_running = ctx.pwm_running
  BY DEF ErrorThread, Locked, HasTimers, Has, Fields
<1> QED  BY <1>1 DEF RetainStep, RetainInv, RetainsEnded, PausesTransaction,
               HasEnded, RetainsOscillator

\* Every step.
LEMMA RetainNext ==
    ASSUME CInv, RetainInv, [Next]_vars
    PROVE  /\ RetainInv'
           /\ ~NotifySessionStopResSent => RetainsOscillator(ctx, ctx')
<1>0. HasTimers(ctx)  BY CtxHasTimers DEF CInv, Good, Base
<1>1. CASE MainLoop \/ ProcessEvent \/ NextIteration
  BY <1>1, MainThreadRetains DEF RetainStep
<1>2. CASE \/ PauseCharging \/ ResumeCharging \/ StorePaused \/ SetHlcD20Active
           \/ UpdateDcPresentCurrent \/ DcOpenContactorPower
           \/ IecStep \/ IecC1Timeout
           \/ CancelTransaction \/ StartReinit \/ SetMaxCurrent
           \/ SetHlcAllowCloseContactor \/ DcOpenContactorRequest
           \/ NotifyHlcSessionStarted \/ NotifyHlcPauseNotified
           \/ SlacMatching \/ SlacMatched \/ SetDlinkReady
           \/ SlacUnmatched \/ SlacUnmatchedToo \/ DlinkErrorReinit
  BY <1>0, <1>2, PlainCallRetains, RetainsStep DEF RetainStep
<1>3. CASE \/ Authorize \/ Deauthorize \/ SwitchThreePhases
           \/ EnableDisableConnector \/ SetHlcChargingActive
           \/ DcRenegotiationStarted \/ NotifyCurrentDemandStarted
           \/ RequestErrorSequence \/ Time
  BY <1>0, <1>3, SessionCallRetains, RetainsStep DEF RetainStep
<1>4. CASE \/ DlinkPause \/ DlinkTerminate \/ DlinkError
           \/ DlinkErrorAfterTerminate
  <2>1. DlinkPause \/ DlinkTerminate \/ DlinkErrorSection
    BY <1>4 DEF DlinkError, DlinkErrorAfterTerminate
  <2> QED  BY <1>0, <2>1, DlinkRetains, RetainsStep DEF RetainStep
<1>5. CASE NotifySessionStopResSent  BY <1>0, <1>5, SessionStopResInv
<1>6. CASE ErrorThread  BY <1>0, <1>6, ErrorThreadRetains DEF RetainStep
<1>7. CASE IecSimplified \/ Relays \/ EvMoves \/ UNCHANGED vars
  <2>1. ctx' = ctx  BY <1>7 DEF IecSimplified, Relays, EvMoves, vars
  <2> QED  BY <1>0, <2>1, RetainsRefl, RetainsStep DEF RetainStep
<1> QED
  BY <1>1, <1>2, <1>3, <1>4, <1>5, <1>6, <1>7
     DEF Next, Internal, Command, HlcCall, SlacCall

\* The oscillator is retained after SessionStopRes until the timer says so,
\* whatever the link layer, the EV, the budget and the commands do meanwhile,
\* in every configuration.
THEOREM OscillatorIsRetained == Spec => RetainHolds
<1>1. Init => RetainInv
  BY DEF Init, RetainInv, RetainsEnded, PausesTransaction, NewContext, Deadlines
<1>2. CInv /\ RetainInv /\ [Next]_vars => RetainInv'  BY RetainNext
<1>3. CInv /\ RetainInv /\ [Next]_vars
      => [{ctx.current_state, ctx'.current_state} \subseteq InTransaction
            /\ ctx.timer["retain"] = "armed" /\ ctx'.timer["retain"] = "armed"
            /\ ctx.pwm_running
            /\ ctx.shutdown_type # "EmergencyShutdown"
            /\ (ctx.current_state = "Charging"
                  => PowerAvailable(ctx) \/ ctx.hlc_use_5percent)
            /\ ~NotifySessionStopResSent
          => ctx'.pwm_running]_vars
  BY RetainNext DEF RetainsOscillator, Fed
<1> QED  BY <1>1, <1>2, <1>3, ChargerInvariant, PTL DEF Spec, RetainHolds
=============================================================================
