---------------------------- MODULE ChargerProofs ----------------------------
(***************************************************************************)
(* Proofs about Charger for every configuration, every set of calls and    *)
(* every bound: the members keep their types, and what the permission to   *)
(* close the contactors, the transaction, the shutdown and the next        *)
(* session have to do with each other holds after every iteration of the   *)
(* state machine and every call between two iterations.                    *)
(***************************************************************************)
EXTENDS Charger, EnableDisableProofs

-----------------------------------------------------------------------------
\* The context as a function of its members: an assignment to some of them
\* keeps the type when the assigned values have theirs.
Fields ==
    {"current_state", "last_state_detect_state_change", "shutdown_type",
     "last_shutdown_type", "detected_shutdown_type",
     "flag_disable_requested", "connector_enabled", "flag_authorized",
     "authorized_pnc", "flag_transaction_active", "session_active",
     "flag_externally_cancelled", "flag_paused_by_evse",
     "flag_ev_plugged_in", "iec_allow_close_contactor",
     "hlc_allow_close_contactor", "contactor_open", "hlc_charging_active",
     "hlc_charging_terminate_pause", "hlc_dc_renegotiation",
     "hlc_session_paused_by_evse", "hlc_session_restarted_by_ev",
     "legacy_wakeup_done", "hlc_d20_active", "hlc_d20_dynamic_mode",
     "d20_pause_requested", "d20_pause_confirmed", "d20_pause_ramp",
     "d20_pause_notified", "stopping_for_evse_pause", "dc_current",
     "pwm_running", "last_duty_cycle", "cp_state_F_active",
     "hlc_use_5percent", "ac_hlc_current_session", "hlc_failed",
     "slac_retries", "slac_retries_exhausted", "matching_started",
     "slac_matched", "dlink_established", "t_step_EF_return_state",
     "t_step_EF_return_pwm", "t_step_ef_x1_pause",
     "t_step_X1_until_unmatched", "switch_phases_ongoing",
     "reinit_requested", "reinit_running", "cable_known", "max_current_ok",
     "bcb_count", "bcb_sequence_started", "age", "timer", "output",
     "allow_power_on", "heard"}

Members(c) ==
    /\ c.current_state \in EvseState
    /\ c.last_state_detect_state_change \in EvseState
    /\ c.shutdown_type \in ShutdownType
    /\ c.last_shutdown_type \in ShutdownType
    /\ c.detected_shutdown_type \in ShutdownType
    /\ c.flag_disable_requested \in BOOLEAN
    /\ c.connector_enabled \in BOOLEAN
    /\ c.flag_authorized \in BOOLEAN
    /\ c.authorized_pnc \in BOOLEAN
    /\ c.flag_transaction_active \in BOOLEAN
    /\ c.session_active \in BOOLEAN
    /\ c.flag_externally_cancelled \in BOOLEAN
    /\ c.flag_paused_by_evse \in BOOLEAN
    /\ c.flag_ev_plugged_in \in BOOLEAN
    /\ c.iec_allow_close_contactor \in BOOLEAN
    /\ c.hlc_allow_close_contactor \in BOOLEAN
    /\ c.contactor_open \in BOOLEAN
    /\ c.hlc_charging_active \in BOOLEAN
    /\ c.hlc_charging_terminate_pause \in HlcTerminatePause
    /\ c.hlc_dc_renegotiation \in BOOLEAN
    /\ c.hlc_session_paused_by_evse \in BOOLEAN
    /\ c.hlc_session_restarted_by_ev \in BOOLEAN
    /\ c.legacy_wakeup_done \in BOOLEAN
    /\ c.hlc_d20_active \in BOOLEAN
    /\ c.hlc_d20_dynamic_mode \in BOOLEAN
    /\ c.d20_pause_requested \in BOOLEAN
    /\ c.d20_pause_confirmed \in BOOLEAN
    /\ c.d20_pause_ramp \in BOOLEAN
    /\ c.d20_pause_notified \in BOOLEAN
    /\ c.stopping_for_evse_pause \in BOOLEAN
    /\ c.dc_current \in BOOLEAN
    /\ c.pwm_running \in BOOLEAN
    /\ c.last_duty_cycle \in DutyCycle
    /\ c.cp_state_F_active \in BOOLEAN
    /\ c.hlc_use_5percent \in BOOLEAN
    /\ c.ac_hlc_current_session \in BOOLEAN
    /\ c.hlc_failed \in BOOLEAN
    /\ c.slac_retries \in 0..C_SEQU_RETRY
    /\ c.slac_retries_exhausted \in BOOLEAN
    /\ c.matching_started \in BOOLEAN
    /\ c.slac_matched \in BOOLEAN
    /\ c.dlink_established \in BOOLEAN
    /\ c.t_step_EF_return_state \in EvseState
    /\ c.t_step_EF_return_pwm \in DutyCycle
    /\ c.t_step_ef_x1_pause \in BOOLEAN
    /\ c.t_step_X1_until_unmatched \in BOOLEAN
    /\ c.switch_phases_ongoing \in BOOLEAN
    /\ c.reinit_requested \in BOOLEAN
    /\ c.reinit_running \in BOOLEAN
    /\ c.cable_known \in BOOLEAN
    /\ c.max_current_ok \in BOOLEAN
    /\ c.bcb_count \in 0..BCB_PULSES
    /\ c.bcb_sequence_started \in BOOLEAN
    /\ c.age \in 0..2
    /\ c.output \in Output
    /\ c.allow_power_on \in BOOLEAN
    /\ c.heard \in [transaction : BOOLEAN, odd : SUBSET Oddity]

IsCtx(c) ==
    /\ c = [f \in Fields |-> c[f]]
    /\ Members(c)
    /\ c.timer \in [Deadlines -> TimerState]

\* The two views of the type are the same.
LEMMA ContextIsCtx ==
    ASSUME NEW c \in ContextType
    PROVE  IsCtx(c)
<1>1. c = [f \in Fields |-> c[f]]  BY DEF ContextType, Fields
<1>2. Members(c) /\ c.timer \in [Deadlines -> TimerState]
  BY DEF ContextType, Members
<1> QED  BY <1>1, <1>2 DEF IsCtx

\* The other direction: a function on the members with members of the right
\* sets is a context.
LEMMA CtxIsContext ==
    ASSUME NEW c, IsCtx(c)
    PROVE  c \in ContextType
<1> DEFINE r == [current_state |-> c.current_state,
                last_state_detect_state_change |-> c.last_state_detect_state_change,
                shutdown_type |-> c.shutdown_type,
                last_shutdown_type |-> c.last_shutdown_type,
                detected_shutdown_type |-> c.detected_shutdown_type,
                flag_disable_requested |-> c.flag_disable_requested,
                connector_enabled |-> c.connector_enabled,
                flag_authorized |-> c.flag_authorized,
                authorized_pnc |-> c.authorized_pnc,
                flag_transaction_active |-> c.flag_transaction_active,
                session_active |-> c.session_active,
                flag_externally_cancelled |-> c.flag_externally_cancelled,
                flag_paused_by_evse |-> c.flag_paused_by_evse,
                flag_ev_plugged_in |-> c.flag_ev_plugged_in,
                iec_allow_close_contactor |-> c.iec_allow_close_contactor,
                hlc_allow_close_contactor |-> c.hlc_allow_close_contactor,
                contactor_open |-> c.contactor_open,
                hlc_charging_active |-> c.hlc_charging_active,
                hlc_charging_terminate_pause |-> c.hlc_charging_terminate_pause,
                hlc_dc_renegotiation |-> c.hlc_dc_renegotiation,
                hlc_session_paused_by_evse |-> c.hlc_session_paused_by_evse,
                hlc_session_restarted_by_ev |-> c.hlc_session_restarted_by_ev,
                legacy_wakeup_done |-> c.legacy_wakeup_done,
                hlc_d20_active |-> c.hlc_d20_active,
                hlc_d20_dynamic_mode |-> c.hlc_d20_dynamic_mode,
                d20_pause_requested |-> c.d20_pause_requested,
                d20_pause_confirmed |-> c.d20_pause_confirmed,
                d20_pause_ramp |-> c.d20_pause_ramp,
                d20_pause_notified |-> c.d20_pause_notified,
                stopping_for_evse_pause |-> c.stopping_for_evse_pause,
                dc_current |-> c.dc_current, pwm_running |-> c.pwm_running,
                last_duty_cycle |-> c.last_duty_cycle,
                cp_state_F_active |-> c.cp_state_F_active,
                hlc_use_5percent |-> c.hlc_use_5percent,
                ac_hlc_current_session |-> c.ac_hlc_current_session,
                hlc_failed |-> c.hlc_failed, slac_retries |-> c.slac_retries,
                slac_retries_exhausted |-> c.slac_retries_exhausted,
                matching_started |-> c.matching_started,
                slac_matched |-> c.slac_matched,
                dlink_established |-> c.dlink_established,
                t_step_EF_return_state |-> c.t_step_EF_return_state,
                t_step_EF_return_pwm |-> c.t_step_EF_return_pwm,
                t_step_ef_x1_pause |-> c.t_step_ef_x1_pause,
                t_step_X1_until_unmatched |-> c.t_step_X1_until_unmatched,
                switch_phases_ongoing |-> c.switch_phases_ongoing,
                reinit_requested |-> c.reinit_requested,
                reinit_running |-> c.reinit_running,
                cable_known |-> c.cable_known,
                max_current_ok |-> c.max_current_ok,
                bcb_count |-> c.bcb_count,
                bcb_sequence_started |-> c.bcb_sequence_started,
                age |-> c.age, timer |-> c.timer, output |-> c.output,
                allow_power_on |-> c.allow_power_on, heard |-> c.heard]
<1>1. r \in ContextType  BY DEF ContextType, IsCtx, Members
<1>2. DOMAIN r = Fields  BY DEF Fields
<1>3. r = [f \in Fields |-> r[f]]  BY <1>2
<1>4. \A f \in Fields : r[f] = c[f]  BY DEF Fields
<1> HIDE DEF r
<1>5. r = c  BY <1>3, <1>4 DEF IsCtx
<1> QED  BY <1>1, <1>5

-----------------------------------------------------------------------------
\* The members the argument is about.  Most operators leave them alone.
Same(c, d) ==
    /\ d.current_state = c.current_state
    /\ d.last_state_detect_state_change = c.last_state_detect_state_change
    /\ d.shutdown_type = c.shutdown_type
    /\ d.last_shutdown_type = c.last_shutdown_type
    /\ d.allow_power_on = c.allow_power_on
    /\ d.flag_transaction_active = c.flag_transaction_active
    /\ d.heard = c.heard
    /\ d.t_step_EF_return_state = c.t_step_EF_return_state
    /\ d.t_step_X1_until_unmatched = c.t_step_X1_until_unmatched

\* ... and those a new session must find clean.
SameSession(c, d) ==
    /\ d.hlc_charging_terminate_pause = c.hlc_charging_terminate_pause
    /\ d.timer["retain"] = c.timer["retain"]
    /\ d.hlc_failed = c.hlc_failed
    /\ d.slac_retries = c.slac_retries

Keeps(c, d) == IsCtx(d) /\ Same(c, d) /\ SameSession(c, d)

\* Two steps that keep the session keep it together.
LEMMA KeepsTrans ==
    ASSUME NEW c, NEW d, NEW e, Keeps(c, d), Keeps(d, e)
    PROVE  Keeps(c, e)
BY DEF Keeps, Same, SameSession

\* Doing nothing keeps it.
LEMMA KeepsRefl ==
    ASSUME NEW c, IsCtx(c)
    PROVE  Keeps(c, c)
BY DEF Keeps, Same, SameSession

\* note_pwm_switched_off arms the timer of the minimum time in X1.
LEMMA NoteKeeps ==
    ASSUME NEW c, IsCtx(c)
    PROVE  Keeps(c, Note(c))
<1> DEFINE d == [c EXCEPT !.timer["x1"] = "armed"]
<1>1. Keeps(c, d)
  <2>1. IsCtx(d)
    <3>1. d = [f \in Fields |-> d[f]]  BY DEF IsCtx
    <3>2. Members(d)  BY DEF IsCtx, Members, Fields
    <3>3. d.timer \in [Deadlines -> TimerState]
      BY DEF IsCtx, Fields, TimerState
    <3> QED  BY <3>1, <3>2, <3>3 DEF IsCtx
  <2>2. Same(c, d)  BY DEF Same, IsCtx, Fields
  <2>3. SameSession(c, d)  BY DEF SameSession, IsCtx, Fields
  <2> QED  BY <2>1, <2>2, <2>3 DEF Keeps
<1> QED  BY <1>1, KeepsRefl DEF Note

\* set_state changes the state only.
LEMMA GoFields ==
    ASSUME NEW c, IsCtx(c), NEW s \in EvseState
    PROVE  /\ IsCtx(Go(c, s))
           /\ Go(c, s).current_state = s
           /\ Go(c, s).last_state_detect_state_change
                = c.last_state_detect_state_change
           /\ Go(c, s).shutdown_type = c.shutdown_type
           /\ Go(c, s).last_shutdown_type = c.last_shutdown_type
           /\ Go(c, s).allow_power_on = c.allow_power_on
           /\ Go(c, s).flag_transaction_active = c.flag_transaction_active
           /\ Go(c, s).heard = c.heard
           /\ Go(c, s).t_step_EF_return_state = c.t_step_EF_return_state
           /\ Go(c, s).t_step_X1_until_unmatched = c.t_step_X1_until_unmatched
           /\ SameSession(c, Go(c, s))
<1> DEFINE d == [c EXCEPT !.current_state = s]
<1>1. Go(c, s) = d  BY DEF Go
<1>2. IsCtx(d)
  <2>1. d = [f \in Fields |-> d[f]]  BY DEF IsCtx
  <2>2. Members(d)  BY DEF IsCtx, Members, Fields
  <2>3. d.timer \in [Deadlines -> TimerState]
    BY DEF IsCtx, Fields, TimerState
  <2> QED  BY <2>1, <2>2, <2>3 DEF IsCtx
<1>3. /\ d.current_state = s
      /\ d.last_state_detect_state_change = c.last_state_detect_state_change
      /\ d.shutdown_type = c.shutdown_type
      /\ d.last_shutdown_type = c.last_shutdown_type
      /\ d.allow_power_on = c.allow_power_on
      /\ d.flag_transaction_active = c.flag_transaction_active
      /\ d.heard = c.heard
      /\ d.t_step_EF_return_state = c.t_step_EF_return_state
      /\ d.t_step_X1_until_unmatched = c.t_step_X1_until_unmatched
      /\ SameSession(c, d)
  BY DEF IsCtx, Fields, SameSession
<1> QED  BY <1>1, <1>2, <1>3

\* cp_state_X1, cp_state_F and cp_state_E touch the pilot only.
LEMMA PilotOffKeeps ==
    ASSUME NEW c, IsCtx(c), NEW o \in {"X1", "E", "F"}
    PROVE  Keeps(c, PilotOff(c, o))
<1> DEFINE n == Note(c)
           out == IF o = "E" /\ ~SupportsE THEN "X1" ELSE o
           duty == IF out = "X1" THEN "X1" ELSE "zero"
           isF == out = "F"
           d == [n EXCEPT !.pwm_running = FALSE, !.last_duty_cycle = duty,
                          !.cp_state_F_active = isF, !.output = out]
<1>1. PilotOff(c, o) = d  BY DEF PilotOff
<1>2. Keeps(c, n)  BY NoteKeeps
<1>3. out \in Output /\ duty \in DutyCycle /\ isF \in BOOLEAN
  BY DEF Output, DutyCycle
<1> HIDE DEF n, out, duty, isF
<1>4. IsCtx(n)  BY <1>2 DEF Keeps
<1>5. Keeps(n, d)
  <2>1. IsCtx(d)
    <3>1. d = [f \in Fields |-> d[f]]  BY <1>3, <1>4 DEF IsCtx
    <3>2. Members(d)  BY <1>3, <1>4 DEF IsCtx, Members, Fields
    <3>3. d.timer \in [Deadlines -> TimerState]
      BY <1>3, <1>4 DEF IsCtx, Fields, TimerState
    <3> QED  BY <3>1, <3>2, <3>3 DEF IsCtx
  <2>2. Same(n, d)  BY <1>3, <1>4 DEF Same, IsCtx, Fields
  <2>3. SameSession(n, d)  BY <1>3, <1>4 DEF SameSession, IsCtx, Fields
  <2> QED  BY <2>1, <2>2, <2>3 DEF Keeps
<1> QED  BY <1>1, <1>2, <1>5, KeepsTrans

\* update_pwm_now, and update_pwm_now_if_changed.
LEMMA UpdatePwmKeeps ==
    ASSUME NEW c, IsCtx(c), NEW duty \in DutyCycle
    PROVE  Keeps(c, UpdatePwm(c, duty)) /\ Keeps(c, UpdatePwmIfChanged(c, duty))
<1>1. Keeps(c, UpdatePwm(c, duty))
  <2>1. CASE duty = "X1"  BY <2>1, PilotOffKeeps DEF UpdatePwm
  <2>2. CASE duty = "zero"  BY <2>2, PilotOffKeeps DEF UpdatePwm
  <2>3. CASE duty \notin {"X1", "zero"}
    <3> DEFINE d == [c EXCEPT !.pwm_running = TRUE, !.last_duty_cycle = duty,
                              !.cp_state_F_active = FALSE, !.output = "PWM"]
    <3>1. UpdatePwm(c, duty) = d  BY <2>3 DEF UpdatePwm
    <3>2. Keeps(c, d)
      <4>1. IsCtx(d)
        <5>1. d = [f \in Fields |-> d[f]]  BY DEF IsCtx
        <5>2. Members(d)  BY DEF IsCtx, Members, Fields, Output
        <5>3. d.timer \in [Deadlines -> TimerState]
          BY DEF IsCtx, Fields, TimerState
        <5> QED  BY <5>1, <5>2, <5>3 DEF IsCtx
      <4>2. Same(c, d)  BY DEF Same, IsCtx, Fields
      <4>3. SameSession(c, d)  BY DEF SameSession, IsCtx, Fields
      <4> QED  BY <4>1, <4>2, <4>3 DEF Keeps
    <3> QED  BY <3>1, <3>2
  <2> QED  BY <2>1, <2>2, <2>3
<1> QED  BY <1>1, KeepsRefl DEF UpdatePwmIfChanged

\* The nominal duty cycle is one.
LEMMA NominalType == ASSUME NEW c PROVE NominalDuty(c) \in DutyCycle
BY DEF NominalDuty, DutyCycle

\* The BCB toggle detector.
LEMMA BcbKeeps ==
    ASSUME NEW c, IsCtx(c), NEW valid \in BOOLEAN
    PROVE  /\ Keeps(c, BcbReset(c))
           /\ Keeps(c, BcbStartPulse(c))
           /\ Keeps(c, BcbStopPulse(c, valid))
<1>1. Keeps(c, BcbReset(c))
  <2> DEFINE d == [c EXCEPT !.bcb_count = 0, !.bcb_sequence_started = FALSE]
  <2>1. Keeps(c, d)
    <3>1. IsCtx(d)
      <4>1. d = [f \in Fields |-> d[f]]  BY DEF IsCtx
      <4>2. Members(d)  BY DEF IsCtx, Members, Fields, BCB_PULSES
      <4>3. d.timer \in [Deadlines -> TimerState]
        BY DEF IsCtx, Fields, TimerState
      <4> QED  BY <4>1, <4>2, <4>3 DEF IsCtx
    <3>2. Same(c, d)  BY DEF Same, IsCtx, Fields
    <3>3. SameSession(c, d)  BY DEF SameSession, IsCtx, Fields
    <3> QED  BY <3>1, <3>2, <3>3 DEF Keeps
  <2> QED  BY <2>1 DEF BcbReset
<1>2. Keeps(c, BcbStartPulse(c))
  <2> DEFINE d == [c EXCEPT !.bcb_sequence_started = TRUE,
                            !.timer["bcb"] = "armed"]
  <2>1. Keeps(c, d)
    <3>1. IsCtx(d)
      <4>1. d = [f \in Fields |-> d[f]]  BY DEF IsCtx
      <4>2. Members(d)  BY DEF IsCtx, Members, Fields
      <4>3. d.timer \in [Deadlines -> TimerState]
        BY DEF IsCtx, Fields, TimerState
      <4> QED  BY <4>1, <4>2, <4>3 DEF IsCtx
    <3>2. Same(c, d)  BY DEF Same, IsCtx, Fields
    <3>3. SameSession(c, d)  BY DEF SameSession, IsCtx, Fields
    <3> QED  BY <3>1, <3>2, <3>3 DEF Keeps
  <2> QED  BY <2>1, KeepsRefl DEF BcbStartPulse
<1>3. Keeps(c, BcbStopPulse(c, valid))
  <2> DEFINE n == IF ~valid THEN 0 ELSE IF c.bcb_count = BCB_PULSES
                                        THEN c.bcb_count ELSE c.bcb_count + 1
             d == [c EXCEPT !.bcb_count = n]
  <2>1. c.bcb_count \in 0..BCB_PULSES  BY DEF IsCtx, Members
  <2>2. n \in 0..BCB_PULSES  BY <2>1 DEF BCB_PULSES
  <2>3. BcbStopPulse(c, valid) = IF ~c.bcb_sequence_started THEN c ELSE d
    BY DEF BcbStopPulse
  <2> HIDE DEF n
  <2>4. Keeps(c, d)
    <3>1. IsCtx(d)
      <4>1. d = [f \in Fields |-> d[f]]  BY <2>2 DEF IsCtx
      <4>2. Members(d)  BY <2>2 DEF IsCtx, Members, Fields
      <4>3. d.timer \in [Deadlines -> TimerState]
        BY <2>2 DEF IsCtx, Fields, TimerState
      <4> QED  BY <4>1, <4>2, <4>3 DEF IsCtx
    <3>2. Same(c, d)  BY <2>2 DEF Same, IsCtx, Fields
    <3>3. SameSession(c, d)  BY <2>2 DEF SameSession, IsCtx, Fields
    <3> QED  BY <3>1, <3>2, <3>3 DEF Keeps
  <2> QED  BY <2>3, <2>4, KeepsRefl
<1> QED  BY <1>1, <1>2, <1>3

-----------------------------------------------------------------------------
\* The invariant of the context.

\* The permission needs a transaction and a shutdown that is over.
Permitted(c) ==
    c.allow_power_on => /\ c.flag_transaction_active
                        /\ c.last_shutdown_type = "None"

AtRest(c) == ~c.allow_power_on /\ ~c.flag_transaction_active

\* A sequence on the pilot comes back to a state of the session.
ReturnStates == {"WaitingForAuthentication", "PrepareCharging"}
Returns(c) ==
    \/ c.current_state = "T_step_EF"
    \/ c.current_state = "T_step_X1" /\ c.t_step_X1_until_unmatched
    => c.t_step_EF_return_state \in ReturnStates

\* A listener knows of every transaction.  Only deauthorize() can take the
\* session away from under it.
Unavoidable == {"deauthorized during its transaction"}
Listener(c) ==
    /\ c.heard.transaction = c.flag_transaction_active
    /\ c.heard.odd \subseteq Unavoidable

Base(c) ==
    /\ IsCtx(c)
    /\ Permitted(c)
    /\ c.current_state \in {"Idle", "Disabled"} => AtRest(c)
    /\ Returns(c)
    /\ Listener(c)

\* What a new session finds.
Clean(c) ==
    /\ c.hlc_charging_terminate_pause \in {"Unknown"} \cup Leftover
    /\ c.timer["retain"] = "off"
    /\ ~c.hlc_failed
    /\ c.slac_retries = 0

\* Finished and Idle have done their initialization when they are entered
\* states no more.
Good(c) ==
    /\ Base(c)
    /\ /\ c.current_state = "Finished"
       /\ c.last_state_detect_state_change = "Finished"
       => AtRest(c)
    /\ /\ c.current_state = "Idle"
       /\ c.last_state_detect_state_change = "Idle"
       => Clean(c)

\* d may follow c within an iteration: the invariant holds, and the permission
\* is given only when no error is present.
Ok(c, d) ==
    /\ Base(d)
    /\ d.last_state_detect_state_change = c.last_state_detect_state_change
    /\ d.shutdown_type = c.shutdown_type
    /\ d.allow_power_on => c.allow_power_on \/ c.shutdown_type = "None"

\* Two parts of a pass, one after the other.
LEMMA OkTrans ==
    ASSUME NEW c, NEW d, NEW e, Ok(c, d), Ok(d, e)
    PROVE  Ok(c, e)
BY DEF Ok

\* A part of a pass that does nothing.
LEMMA OkRefl ==
    ASSUME NEW c, Base(c)
    PROVE  Ok(c, c)
BY DEF Ok

\* An assignment to other members than those of Same.
LEMMA SameOk ==
    ASSUME NEW c, NEW d, Base(c), IsCtx(d), Same(c, d)
    PROVE  Ok(c, d)
BY DEF Ok, Base, Same, Permitted, AtRest, Returns, Listener

\* What leaves the session alone may happen in a pass.
LEMMA KeepsOk ==
    ASSUME NEW c, NEW d, Base(c), Keeps(c, d)
    PROVE  Ok(c, d)
BY SameOk DEF Keeps

\* Entering a state that asks nothing of the context.
LEMMA GoOk ==
    ASSUME NEW c, Base(c),
           NEW s \in EvseState \ {"Idle", "Disabled", "T_step_EF", "T_step_X1"}
    PROVE  Ok(c, Go(c, s))
<1>1. IsCtx(c)  BY DEF Base
<1> QED  BY <1>1, GoFields
         DEF Ok, Base, Permitted, AtRest, Returns, Listener

-----------------------------------------------------------------------------
\* Sessions, transactions and errors.

\* A listener that hears of something odd.
LEMMA HearsFields ==
    ASSUME NEW c, IsCtx(c), NEW t \in BOOLEAN, NEW odd, odd \subseteq Oddity
    PROVE  /\ IsCtx(Hears(c, t, odd))
           /\ SameSession(c, Hears(c, t, odd))
           /\ Hears(c, t, odd).heard.transaction = t
           /\ Hears(c, t, odd).heard.odd = c.heard.odd \cup odd
<1> DEFINE h == [transaction |-> t, odd |-> c.heard.odd \cup odd]
           d == [c EXCEPT !.heard = h]
<1>1. Hears(c, t, odd) = d  BY DEF Hears
<1>2. c.heard \in [transaction : BOOLEAN, odd : SUBSET Oddity]
  BY DEF IsCtx, Members
<1>3. h \in [transaction : BOOLEAN, odd : SUBSET Oddity]  BY <1>2
<1>4. h.transaction = t /\ h.odd = c.heard.odd \cup odd  OBVIOUS
<1> HIDE DEF h
<1>5. IsCtx(d)
  <2>1. d = [f \in Fields |-> d[f]]  BY <1>3 DEF IsCtx
  <2>2. Members(d)  BY <1>3 DEF IsCtx, Members, Fields
  <2>3. d.timer \in [Deadlines -> TimerState]
    BY <1>3 DEF IsCtx, Fields, TimerState
  <2> QED  BY <2>1, <2>2, <2>3 DEF IsCtx
<1>6. d.heard = h /\ SameSession(c, d)  BY DEF IsCtx, Fields, SameSession
<1> QED  BY <1>1, <1>4, <1>5, <1>6

\* The members of Same but for the listener and the transaction.
SameButHeard(c, d) ==
    /\ d.current_state = c.current_state
    /\ d.last_state_detect_state_change = c.last_state_detect_state_change
    /\ d.shutdown_type = c.shutdown_type
    /\ d.last_shutdown_type = c.last_shutdown_type
    /\ d.allow_power_on = c.allow_power_on
    /\ d.t_step_EF_return_state = c.t_step_EF_return_state
    /\ d.t_step_X1_until_unmatched = c.t_step_X1_until_unmatched

\* A session event changes what was heard and nothing else.
LEMMA HearsSame ==
    ASSUME NEW c, IsCtx(c), NEW t \in BOOLEAN, NEW odd, odd \subseteq Oddity
    PROVE  /\ SameButHeard(c, Hears(c, t, odd))
           /\ Hears(c, t, odd).flag_transaction_active = c.flag_transaction_active
BY DEF Hears, IsCtx, Fields, SameButHeard

\* start_session: nothing of the transaction and the permission moves.
LEMMA StartSessionKeeps ==
    ASSUME NEW c, IsCtx(c)
    PROVE  Keeps(c, StartSession(c))
<1> DEFINE d == [c EXCEPT !.session_active = TRUE, !.dlink_established = FALSE,
                          !.flag_authorized = FALSE, !.authorized_pnc = FALSE,
                          !.flag_externally_cancelled = FALSE]
<1>1. Keeps(c, d)
  <2>1. IsCtx(d)
    <3>1. d = [f \in Fields |-> d[f]]  BY DEF IsCtx
    <3>2. Members(d)  BY DEF IsCtx, Members, Fields
    <3>3. d.timer \in [Deadlines -> TimerState]
      BY DEF IsCtx, Fields, TimerState
    <3> QED  BY <3>1, <3>2, <3>3 DEF IsCtx
  <2>2. Same(c, d)  BY DEF Same, IsCtx, Fields
  <2>3. SameSession(c, d)  BY DEF SameSession, IsCtx, Fields
  <2> QED  BY <2>1, <2>2, <2>3 DEF Keeps
<1> QED  BY <1>1 DEF StartSession

\* The end of a session while no transaction runs is heard as nothing odd.
LEMMA EndSessionFields ==
    ASSUME NEW c, NEW d, IsCtx(c), NEW oddity \in Oddity,
           d = EndSession(c, oddity)
    PROVE  /\ IsCtx(d)
           /\ SameButHeard(c, d)
           /\ SameSession(c, d)
           /\ d.flag_transaction_active = c.flag_transaction_active
           /\ d.heard.transaction = c.heard.transaction
           /\ d.heard.odd \subseteq c.heard.odd \cup {oddity}
           /\ ~c.heard.transaction => d.heard.odd = c.heard.odd
<1> DEFINE odd == If(c.heard.transaction, oddity)
           h == Hears(c, c.heard.transaction, odd)
           e == [h EXCEPT !.session_active = FALSE, !.flag_authorized = FALSE,
                          !.authorized_pnc = FALSE,
                          !.flag_externally_cancelled = FALSE,
                          !.flag_paused_by_evse = FALSE]
<1>1. d = e  BY DEF EndSession
<1>2. odd \subseteq Oddity  BY DEF If
<1>3. c.heard.transaction \in BOOLEAN  BY DEF IsCtx, Members
<1>9. /\ odd \subseteq {oddity}
      /\ ~c.heard.transaction => odd = {}
  BY DEF If
<1> HIDE DEF odd
<1>4. /\ IsCtx(h)
      /\ SameSession(c, h)
      /\ h.heard.transaction = c.heard.transaction
      /\ h.heard.odd = c.heard.odd \cup odd
  BY <1>2, <1>3, HearsFields
<1>5. /\ SameButHeard(c, h)
      /\ h.flag_transaction_active = c.flag_transaction_active
  BY <1>2, <1>3, HearsSame
<1> HIDE DEF h
<1>6. Keeps(h, e)
  <2>1. IsCtx(e)
    <3>1. e = [f \in Fields |-> e[f]]  BY <1>4 DEF IsCtx
    <3>2. Members(e)  BY <1>4 DEF IsCtx, Members, Fields
    <3>3. e.timer \in [Deadlines -> TimerState]
      BY <1>4 DEF IsCtx, Fields, TimerState
    <3> QED  BY <3>1, <3>2, <3>3 DEF IsCtx
  <2>2. Same(h, e)  BY <1>4 DEF Same, IsCtx, Fields
  <2>3. SameSession(h, e)  BY <1>4 DEF SameSession, IsCtx, Fields
  <2> QED  BY <2>1, <2>2, <2>3 DEF Keeps
<1> HIDE DEF e
<1>7. SameButHeard(c, e) /\ SameSession(c, e)
  BY <1>4, <1>5, <1>6 DEF Keeps, Same, SameButHeard, SameSession
<1>8. IsCtx(e) /\ e.heard = h.heard
      /\ e.flag_transaction_active = h.flag_transaction_active
  BY <1>6 DEF Keeps, Same
<1> QED  BY <1>1, <1>4, <1>5, <1>7, <1>8, <1>9

\* What start_transaction and stop_transaction share.
Booked(c, t, odd) == [Hears(c, t, odd) EXCEPT !.flag_transaction_active = t]

\* start_transaction and stop_transaction keep a listener informed.
LEMMA TransactionFields ==
    ASSUME NEW c, IsCtx(c), NEW t \in BOOLEAN, NEW odd, odd \subseteq Oddity,
           NEW d, d = Booked(c, t, odd)
    PROVE  /\ IsCtx(d)
           /\ SameButHeard(c, d)
           /\ SameSession(c, d)
           /\ d.flag_transaction_active = t
           /\ d.heard.transaction = t
           /\ d.heard.odd = c.heard.odd \cup odd
<1> DEFINE h == Hears(c, t, odd)
           e == [h EXCEPT !.flag_transaction_active = t]
<1>1. /\ IsCtx(h)
      /\ SameSession(c, h)
      /\ h.heard.transaction = t
      /\ h.heard.odd = c.heard.odd \cup odd
  BY HearsFields
<1>2. SameButHeard(c, h)  BY HearsSame
<1>9. d = e  BY DEF Booked
<1> HIDE DEF h
<1>3. IsCtx(e)
  <2>1. e = [f \in Fields |-> e[f]]  BY <1>1 DEF IsCtx
  <2>2. Members(e)  BY <1>1 DEF IsCtx, Members, Fields
  <2>3. e.timer \in [Deadlines -> TimerState]
    BY <1>1 DEF IsCtx, Fields, TimerState
  <2> QED  BY <2>1, <2>2, <2>3 DEF IsCtx
<1>4. SameButHeard(h, e) /\ SameSession(h, e)
  BY <1>1 DEF SameButHeard, SameSession, IsCtx, Fields
<1>5. e.flag_transaction_active = t /\ e.heard = h.heard
  BY <1>1 DEF IsCtx, Fields
<1> HIDE DEF e
<1>6. SameButHeard(c, e) /\ SameSession(c, e)
  BY <1>1, <1>2, <1>4 DEF SameButHeard, SameSession
<1> QED  BY <1>1, <1>3, <1>5, <1>6, <1>9

\* start_transaction: the flag and the event, nothing else of the session.
LEMMA StartTransactionFields ==
    ASSUME NEW c, IsCtx(c), NEW d, d = StartTransaction(c)
    PROVE  /\ IsCtx(d)
           /\ SameButHeard(c, d)
           /\ SameSession(c, d)
           /\ d.flag_transaction_active
           /\ d.heard.transaction
           /\ ~c.heard.transaction => d.heard.odd = c.heard.odd
<1> DEFINE odd == If(c.heard.transaction, "TransactionStarted twice")
<1>1. odd \subseteq Oddity /\ (~c.heard.transaction => odd = {})
  BY DEF If, Oddity
<1>2. PICK t \in BOOLEAN : t = TRUE  OBVIOUS
<1>3. d = Booked(c, t, odd)  BY <1>2 DEF Booked, StartTransaction
<1> HIDE DEF odd
<1>4. /\ IsCtx(d) /\ SameButHeard(c, d) /\ SameSession(c, d)
      /\ d.flag_transaction_active = t
      /\ d.heard.transaction = t
      /\ d.heard.odd = c.heard.odd \cup odd
  BY <1>1, <1>3, TransactionFields
<1> QED  BY <1>1, <1>2, <1>4

\* stop_transaction: the same when it ends.
LEMMA StopTransactionFields ==
    ASSUME NEW c, IsCtx(c), NEW d, d = StopTransaction(c)
    PROVE  /\ IsCtx(d)
           /\ SameButHeard(c, d)
           /\ SameSession(c, d)
           /\ ~d.flag_transaction_active
           /\ ~d.heard.transaction
           /\ c.heard.transaction => d.heard.odd = c.heard.odd
<1> DEFINE odd == If(~c.heard.transaction, "TransactionFinished twice")
<1>1. odd \subseteq Oddity /\ (c.heard.transaction => odd = {})
  BY DEF If, Oddity
<1>2. PICK t \in BOOLEAN : t = FALSE  OBVIOUS
<1>3. d = Booked(c, t, odd)  BY <1>2 DEF Booked, StopTransaction
<1> HIDE DEF odd
<1>4. /\ IsCtx(d) /\ SameButHeard(c, d) /\ SameSession(c, d)
      /\ d.flag_transaction_active = t
      /\ d.heard.transaction = t
      /\ d.heard.odd = c.heard.odd \cup odd
  BY <1>1, <1>3, TransactionFields
<1> QED  BY <1>1, <1>2, <1>4

\* The end of a session: odd for a listener that knows of a transaction, and
\* then only deauthorize() may do it.
LEMMA EndSessionOk ==
    ASSUME NEW c, Base(c), NEW oddity \in Oddity,
           ~c.heard.transaction \/ oddity \in Unavoidable
    PROVE  /\ Ok(c, EndSession(c, oddity))
           /\ SameButHeard(c, EndSession(c, oddity))
           /\ SameSession(c, EndSession(c, oddity))
           /\ EndSession(c, oddity).flag_transaction_active
                = c.flag_transaction_active
<1> DEFINE d == EndSession(c, oddity)
<1>1. IsCtx(c)  BY DEF Base
<1>2. /\ IsCtx(d)
      /\ SameButHeard(c, d)
      /\ SameSession(c, d)
      /\ d.flag_transaction_active = c.flag_transaction_active
      /\ d.heard.transaction = c.heard.transaction
      /\ d.heard.odd \subseteq c.heard.odd \cup {oddity}
      /\ ~c.heard.transaction => d.heard.odd = c.heard.odd
  BY <1>1, EndSessionFields
<1> HIDE DEF d
<1>3. d.heard.odd \subseteq Unavoidable
  BY <1>2 DEF Base, Listener
<1>4. Base(d)
  BY <1>2, <1>3 DEF SameButHeard, Base, Permitted, AtRest, Returns, Listener
<1>5. Ok(c, d)  BY <1>2, <1>4 DEF SameButHeard, Ok
<1> QED  BY <1>2, <1>5 DEF d

\* stop_session, when a listener knows of no transaction.
LEMMA StopSessionOk ==
    ASSUME NEW c, Base(c), ~c.heard.transaction
    PROVE  /\ Ok(c, StopSession(c))
           /\ SameButHeard(c, StopSession(c))
           /\ SameSession(c, StopSession(c))
           /\ StopSession(c).flag_transaction_active
                = c.flag_transaction_active
<1>1. "session ended before its transaction" \in Oddity  BY DEF Oddity
<1> QED  BY <1>1, EndSessionOk DEF StopSession

\* deauthorize_internal
LEMMA DeauthorizeOk ==
    ASSUME NEW c, Base(c)
    PROVE  /\ Ok(c, DeauthorizeInternal(c))
           /\ SameButHeard(c, DeauthorizeInternal(c))
           /\ SameSession(c, DeauthorizeInternal(c))
           /\ DeauthorizeInternal(c).flag_transaction_active
                = c.flag_transaction_active
<1> DEFINE oddity == "deauthorized during its transaction"
<1>1. Ok(c, c) /\ SameButHeard(c, c) /\ SameSession(c, c)
  BY OkRefl DEF SameButHeard, SameSession
<1>2. oddity \in Oddity /\ oddity \in Unavoidable  BY DEF Oddity, Unavoidable
<1>3. DeauthorizeInternal(c) \in {c, EndSession(c, oddity)}
  BY DEF DeauthorizeInternal
<1> HIDE DEF oddity
<1>4. /\ Ok(c, EndSession(c, oddity))
      /\ SameButHeard(c, EndSession(c, oddity))
      /\ SameSession(c, EndSession(c, oddity))
      /\ EndSession(c, oddity).flag_transaction_active
           = c.flag_transaction_active
  BY <1>2, EndSessionOk
<1> QED  BY <1>1, <1>3, <1>4

\* allow_power_on as a member of its own.
Allow(c, on) == [c EXCEPT !.allow_power_on = on]

\* The other members of Same.
SameButPower(c, d) ==
    /\ d.current_state = c.current_state
    /\ d.last_state_detect_state_change = c.last_state_detect_state_change
    /\ d.shutdown_type = c.shutdown_type
    /\ d.flag_transaction_active = c.flag_transaction_active
    /\ d.heard = c.heard
    /\ d.t_step_EF_return_state = c.t_step_EF_return_state
    /\ d.t_step_X1_until_unmatched = c.t_step_X1_until_unmatched

\* allow_power_on: what the IEC state machine was last told.
LEMMA AllowFields ==
    ASSUME NEW c, IsCtx(c), NEW on \in BOOLEAN
    PROVE  /\ IsCtx(Allow(c, on))
           /\ Allow(c, on).allow_power_on = on
           /\ Allow(c, on).last_shutdown_type = c.last_shutdown_type
           /\ SameButPower(c, Allow(c, on))
           /\ SameSession(c, Allow(c, on))
<1> DEFINE d == [c EXCEPT !.allow_power_on = on]
<1>1. IsCtx(d)
  <2>1. d = [f \in Fields |-> d[f]]  BY DEF IsCtx
  <2>2. Members(d)  BY DEF IsCtx, Members, Fields
  <2>3. d.timer \in [Deadlines -> TimerState]
    BY DEF IsCtx, Fields, TimerState
  <2> QED  BY <2>1, <2>2, <2>3 DEF IsCtx
<1>2. /\ d.allow_power_on = on
      /\ d.last_shutdown_type = c.last_shutdown_type
      /\ SameButPower(c, d) /\ SameSession(c, d)
  BY DEF SameButPower, SameSession, IsCtx, Fields
<1> QED  BY <1>1, <1>2 DEF Allow

\* The permission is withdrawn ...
LEMMA PowerOffOk ==
    ASSUME NEW c, Base(c)
    PROVE  /\ Ok(c, Allow(c, FALSE))
           /\ SameButPower(c, Allow(c, FALSE))
           /\ SameSession(c, Allow(c, FALSE))
           /\ ~Allow(c, FALSE).allow_power_on
           /\ Allow(c, FALSE).last_shutdown_type = c.last_shutdown_type
<1> DEFINE d == Allow(c, FALSE)
<1>1. IsCtx(c)  BY DEF Base
<1>2. PICK on \in BOOLEAN : on = FALSE  OBVIOUS
<1>3. d = Allow(c, on)  BY <1>2
<1>4. /\ IsCtx(d) /\ d.allow_power_on = on
      /\ d.last_shutdown_type = c.last_shutdown_type
      /\ SameButPower(c, d) /\ SameSession(c, d)
  BY <1>1, <1>3, AllowFields
<1> HIDE DEF d
<1>5. Base(d)
  BY <1>2, <1>4 DEF SameButPower, Base, Permitted, AtRest, Returns, Listener
<1>6. Ok(c, d)  BY <1>2, <1>4, <1>5 DEF Ok, SameButPower
<1> QED  BY <1>2, <1>4, <1>6 DEF d

\* ... or given, when no shutdown is noted and a transaction runs.
LEMMA PowerOnOk ==
    ASSUME NEW c, Base(c), c.shutdown_type = "None",
           c.last_shutdown_type = "None", c.flag_transaction_active,
           c.current_state \notin {"Idle", "Disabled"}
    PROVE  /\ Ok(c, Allow(c, TRUE))
           /\ SameButPower(c, Allow(c, TRUE))
<1> DEFINE d == Allow(c, TRUE)
<1>1. IsCtx(c)  BY DEF Base
<1>2. PICK on \in BOOLEAN : on = TRUE  OBVIOUS
<1>3. d = Allow(c, on)  BY <1>2
<1>4. /\ IsCtx(d) /\ d.allow_power_on = on
      /\ d.last_shutdown_type = c.last_shutdown_type
      /\ SameButPower(c, d)
  BY <1>1, <1>3, AllowFields
<1> HIDE DEF d
<1>5. Base(d)
  BY <1>2, <1>4 DEF SameButPower, Base, Permitted, AtRest, Returns, Listener
<1>6. Ok(c, d)  BY <1>2, <1>4, <1>5 DEF Ok, SameButPower
<1> QED  BY <1>4, <1>6 DEF d

\* emergency_shutdown and error_shutdown
LEMMA ShutDownOk ==
    ASSUME NEW c, Base(c)
    PROVE  /\ Ok(c, ShutDown(c))
           /\ SameButPower(c, ShutDown(c))
           /\ SameSession(c, ShutDown(c))
           /\ ~ShutDown(c).allow_power_on
           /\ ShutDown(c).last_shutdown_type = c.last_shutdown_type
<1> DEFINE p == IF c.shutdown_type = "EmergencyShutdown" /\ c.pwm_running
                THEN PilotOff(c, "X1") ELSE c
<1>1. ShutDown(c) = Allow(p, FALSE)  BY DEF ShutDown, Allow
<1>2. IsCtx(c)  BY DEF Base
<1>3. Keeps(c, p)  BY <1>2, PilotOffKeeps, KeepsRefl
<1> HIDE DEF p
<1>4. Ok(c, p)  BY <1>3, KeepsOk
<1>5. Base(p)  BY <1>4 DEF Ok
<1> DEFINE d == Allow(p, FALSE)
<1>6. /\ Ok(p, d) /\ SameButPower(p, d) /\ SameSession(p, d)
      /\ ~d.allow_power_on /\ d.last_shutdown_type = p.last_shutdown_type
  BY <1>5, PowerOffOk
<1> HIDE DEF d
<1>7. Ok(c, d)  BY <1>4, <1>6, OkTrans
<1>8. /\ SameButPower(c, d) /\ SameSession(c, d)
      /\ d.last_shutdown_type = c.last_shutdown_type
  BY <1>3, <1>6 DEF Keeps, Same, SameSession, SameButPower
<1> QED  BY <1>1, <1>6, <1>7, <1>8 DEF d

\* stop_charging_on_fatal_error: afterwards the shutdown is noted, and an
\* error leaves no permission behind.
LEMMA StopOnFatalErrorOk ==
    ASSUME NEW c, Base(c)
    PROVE  /\ Ok(c, StopOnFatalError(c))
           /\ SameButPower(c, StopOnFatalError(c))
           /\ SameSession(c, StopOnFatalError(c))
           /\ StopOnFatalError(c).last_shutdown_type = c.shutdown_type
           /\ StopOnFatalError(c).allow_power_on => c.allow_power_on
<1> DEFINE entered == FatalError(c) /\ c.last_shutdown_type # c.shutdown_type
           s == ShutDown(c)
           a == [s EXCEPT !.timer["fault"] = "armed"]
           b == IF entered THEN a ELSE c
           t == IF FatalError(c) THEN b.timer["fault"] ELSE "off"
           d == [b EXCEPT !.last_shutdown_type = c.shutdown_type,
                          !.timer["fault"] = t]
<1>1. StopOnFatalError(c) = d  BY DEF StopOnFatalError
<1>2. /\ Ok(c, s) /\ SameButPower(c, s) /\ SameSession(c, s)
      /\ ~s.allow_power_on /\ s.last_shutdown_type = c.last_shutdown_type
  BY ShutDownOk
<1>3. IsCtx(c) /\ IsCtx(s)  BY <1>2 DEF Base, Ok
<1> HIDE DEF s
<1>4. Keeps(s, a)
  <2>1. IsCtx(a)
    <3>1. a = [f \in Fields |-> a[f]]  BY <1>3 DEF IsCtx
    <3>2. Members(a)  BY <1>3 DEF IsCtx, Members, Fields
    <3>3. a.timer \in [Deadlines -> TimerState]
      BY <1>3 DEF IsCtx, Fields, TimerState
    <3> QED  BY <3>1, <3>2, <3>3 DEF IsCtx
  <2>2. Same(s, a)  BY <1>3 DEF Same, IsCtx, Fields
  <2>3. SameSession(s, a)  BY <1>3 DEF SameSession, IsCtx, Fields
  <2> QED  BY <2>1, <2>2, <2>3 DEF Keeps
<1> HIDE DEF a
<1>5. /\ IsCtx(b) /\ SameButPower(c, b) /\ SameSession(c, b)
      /\ b.allow_power_on => c.allow_power_on /\ ~entered
  <2>1. CASE entered
    BY <1>2, <1>4, <2>1 DEF Keeps, Same, SameSession, SameButPower
  <2>2. CASE ~entered  BY <1>3, <2>2 DEF SameSession, SameButPower
  <2> QED  BY <2>1, <2>2
<1> HIDE DEF b
<1>6. t \in TimerState /\ c.shutdown_type \in ShutdownType
  <2>1. b.timer["fault"] \in TimerState  BY <1>5 DEF IsCtx, Deadlines
  <2> QED  BY <2>1, <1>3 DEF TimerState, IsCtx, Members
<1> HIDE DEF t
<1>7. IsCtx(d)
  <2>1. d = [f \in Fields |-> d[f]]  BY <1>5, <1>6 DEF IsCtx
  <2>2. Members(d)  BY <1>5, <1>6 DEF IsCtx, Members, Fields
  <2>3. d.timer \in [Deadlines -> TimerState]
    BY <1>5, <1>6 DEF IsCtx, Fields, TimerState
  <2> QED  BY <2>1, <2>2, <2>3 DEF IsCtx
<1>8. /\ d.last_shutdown_type = c.shutdown_type
      /\ d.allow_power_on = b.allow_power_on
      /\ SameButPower(b, d)
      /\ SameSession(b, d)
  BY <1>5, <1>6 DEF SameButPower, SameSession, IsCtx, Fields
<1> HIDE DEF d
<1>9. SameButPower(c, d) /\ SameSession(c, d)
  BY <1>5, <1>8 DEF SameButPower, SameSession
<1>10. d.allow_power_on => c.allow_power_on /\ d.last_shutdown_type = "None"
  BY <1>5, <1>8 DEF FatalError, Base, Permitted
<1>11. Base(d)
  BY <1>7, <1>9, <1>10
     DEF SameButPower, Base, Permitted, AtRest, Returns, Listener
<1>12. Ok(c, d)  BY <1>9, <1>10, <1>11 DEF Ok, SameButPower
<1> QED  BY <1>1, <1>8, <1>9, <1>10, <1>12

\* Entering the states that ask something of the context.
LEMMA GoRestOk ==
    ASSUME NEW c, Base(c), AtRest(c), NEW s \in {"Idle", "Disabled"}
    PROVE  Ok(c, Go(c, s))
<1>1. IsCtx(c) /\ s \in EvseState  BY DEF Base, EvseState
<1> QED  BY <1>1, GoFields
         DEF Ok, Base, Permitted, AtRest, Returns, Listener

\* set_state to a sequence on the pilot: the state it returns to has been set.
LEMMA GoStepOk ==
    ASSUME NEW c, Base(c), NEW s \in {"T_step_EF", "T_step_X1"},
           \/ c.t_step_EF_return_state \in ReturnStates
           \/ s = "T_step_X1" /\ ~c.t_step_X1_until_unmatched
    PROVE  Ok(c, Go(c, s))
<1>1. IsCtx(c) /\ s \in EvseState  BY DEF Base, EvseState
<1> QED  BY <1>1, GoFields
         DEF Ok, Base, Permitted, AtRest, Returns, Listener

\* The way back from a sequence on the pilot.
LEMMA GoBackOk ==
    ASSUME NEW c, Base(c), NEW s \in ReturnStates
    PROVE  Ok(c, Go(c, s))
<1>1. s \in EvseState \ {"Idle", "Disabled", "T_step_EF", "T_step_X1"}
  BY DEF EvseState, ReturnStates
<1> QED  BY <1>1, GoOk

\* resume_evse_pause_marker
LEMMA ResumeMarkerOk ==
    ASSUME NEW c, Base(c)
    PROVE  Ok(c, ResumeEvsePauseMarker(c))
<1> DEFINE d == [c EXCEPT !.hlc_charging_terminate_pause = "Unknown",
                          !.timer["retain"] = "off"]
<1>1. Ok(c, d) /\ Same(c, d)
  <2>0. IsCtx(c)  BY DEF Base, Ok
  <2>1. IsCtx(d)
    <3>1. d = [f \in Fields |-> d[f]]  BY <2>0 DEF IsCtx
    <3>2. Members(d)  BY <2>0 DEF IsCtx, Members, Fields, HlcTerminatePause
    <3>3. d.timer \in [Deadlines -> TimerState]
      BY <2>0 DEF IsCtx, Fields, TimerState
    <3> QED  BY <3>1, <3>2, <3>3 DEF IsCtx
  <2>2. Same(c, d)  BY <2>0 DEF Same, IsCtx, Fields
  <2>3. Base(c)  BY DEF Ok
  <2> QED  BY <2>1, <2>2, <2>3, SameOk
<1> QED  BY <1>1 DEF ResumeEvsePauseMarker

\* request_error_sequence_internal
LEMMA ErrorSequenceOk ==
    ASSUME NEW c, Base(c)
    PROVE  /\ Ok(c, ErrorSequence(c))
           /\ ErrorSequence(c).allow_power_on = c.allow_power_on
           /\ \/ Keeps(c, ErrorSequence(c))
              \/ ErrorSequence(c).current_state \in {"T_step_EF", "T_step_X1"}
<1> DEFINE exhausted == RetriesExhausted(c)
           limit == LimitRetries /\ ChargeMode = "AC"
           pwm == IF c.hlc_use_5percent /\ ~exhausted THEN "5percent" ELSE "zero"
           ex == c.slac_retries_exhausted \/ exhausted
           five == c.hlc_use_5percent /\ ~exhausted
           retries == IF limit /\ c.hlc_use_5percent /\ ~exhausted
                      THEN c.slac_retries + 1 ELSE c.slac_retries
           until == c.t_step_X1_until_unmatched \/ c.dlink_established
           state == IF c.dlink_established THEN "T_step_X1" ELSE "T_step_EF"
           a == [c EXCEPT !.t_step_EF_return_state = c.current_state,
                          !.t_step_EF_return_pwm = pwm,
                          !.slac_retries_exhausted = ex,
                          !.hlc_use_5percent = five,
                          !.slac_retries = retries,
                          !.t_step_X1_until_unmatched = until,
                          !.current_state = state]
           b == IF c.current_state \notin ReturnStates
                     \/ (limit /\ ~c.hlc_use_5percent) THEN c ELSE a
           d == [b EXCEPT !.dlink_established = FALSE]
<1>1. ErrorSequence(c) = d  BY DEF ErrorSequence, ReturnStates
<1>2. IsCtx(c)  BY DEF Base
<1>3. /\ c.current_state \in EvseState /\ c.slac_retries \in 0..C_SEQU_RETRY
      /\ c.slac_retries_exhausted \in BOOLEAN /\ c.hlc_use_5percent \in BOOLEAN
      /\ c.t_step_X1_until_unmatched \in BOOLEAN
      /\ c.dlink_established \in BOOLEAN
  BY <1>2 DEF IsCtx, Members
<1>4. /\ pwm \in DutyCycle /\ ex \in BOOLEAN /\ five \in BOOLEAN
      /\ until \in BOOLEAN /\ state \in EvseState
  BY <1>3 DEF DutyCycle, EvseState
<1>5. retries \in 0..C_SEQU_RETRY
  BY <1>3 DEF RetriesExhausted, C_SEQU_RETRY
<1>6. state \in {"T_step_EF", "T_step_X1"}  OBVIOUS
<1> HIDE DEF pwm, ex, five, retries, until, state
<1>7. IsCtx(a)
  <2>1. a = [f \in Fields |-> a[f]]  BY <1>2, <1>3, <1>4, <1>5 DEF IsCtx
  <2>2. Members(a)  BY <1>2, <1>3, <1>4, <1>5 DEF IsCtx, Members, Fields
  <2>3. a.timer \in [Deadlines -> TimerState]
    BY <1>2, <1>3, <1>4, <1>5 DEF IsCtx, Fields, TimerState
  <2> QED  BY <2>1, <2>2, <2>3 DEF IsCtx
<1>8. /\ a.t_step_EF_return_state = c.current_state
      /\ a.current_state = state
      /\ a.last_state_detect_state_change = c.last_state_detect_state_change
      /\ a.shutdown_type = c.shutdown_type
      /\ a.last_shutdown_type = c.last_shutdown_type
      /\ a.allow_power_on = c.allow_power_on
      /\ a.flag_transaction_active = c.flag_transaction_active
      /\ a.heard = c.heard
  BY <1>2 DEF IsCtx, Fields
<1> HIDE DEF a
<1>9. /\ Ok(c, b) /\ b.allow_power_on = c.allow_power_on
      /\ b = c \/ b.current_state \in {"T_step_EF", "T_step_X1"}
  <2>1. CASE b = c  BY <2>1, OkRefl
  <2>2. CASE b = a /\ c.current_state \in ReturnStates
    <3>1. Base(a)
      BY <1>6, <1>7, <1>8, <2>2
         DEF Base, Permitted, AtRest, Returns, Listener
    <3> QED  BY <1>6, <1>8, <2>2, <3>1 DEF Ok
  <2> QED  BY <2>1, <2>2
<1> HIDE DEF b
<1>10. Base(b) /\ IsCtx(b)  BY <1>9 DEF Ok, Base
<1>11. Keeps(b, d)
  <2>1. IsCtx(d)
    <3>1. d = [f \in Fields |-> d[f]]  BY <1>10 DEF IsCtx
    <3>2. Members(d)  BY <1>10 DEF IsCtx, Members, Fields
    <3>3. d.timer \in [Deadlines -> TimerState]
      BY <1>10 DEF IsCtx, Fields, TimerState
    <3> QED  BY <3>1, <3>2, <3>3 DEF IsCtx
  <2>2. Same(b, d)  BY <1>10 DEF Same, IsCtx, Fields
  <2>3. SameSession(b, d)  BY <1>10 DEF SameSession, IsCtx, Fields
  <2> QED  BY <2>1, <2>2, <2>3 DEF Keeps
<1> HIDE DEF d
<1>12. Ok(b, d)  BY <1>10, <1>11, KeepsOk
<1>13. /\ d.allow_power_on = c.allow_power_on
       /\ Keeps(c, d) \/ d.current_state \in {"T_step_EF", "T_step_X1"}
  BY <1>9, <1>11 DEF Keeps, Same
<1> QED  BY <1>1, <1>9, <1>12, <1>13, OkTrans

-----------------------------------------------------------------------------
\* One iteration of the loop, state by state.

\* The pass in Disabled.
LEMMA PassDisabledOk ==
    ASSUME NEW c, Base(c), c.current_state = "Disabled", NEW init \in BOOLEAN
    PROVE  Ok(c, PassDisabled(c, init))
<1> DEFINE a == IF init THEN PilotOff(c, "F") ELSE c
<1>1. IsCtx(c) /\ AtRest(c)  BY DEF Base
<1>2. Keeps(c, a)  BY <1>1, PilotOffKeeps, KeepsRefl
<1>3. PassDisabled(c, init)
        = IF c.flag_disable_requested THEN a ELSE Go(a, "Idle")
  BY DEF PassDisabled
<1> HIDE DEF a
<1>4. Ok(c, a) /\ AtRest(a)  BY <1>1, <1>2, KeepsOk DEF Keeps, Same, AtRest
<1>5. Ok(a, Go(a, "Idle"))  BY <1>4, GoRestOk DEF Ok
<1> QED  BY <1>3, <1>4, <1>5, OkTrans

\* The initialization of Idle leaves nothing of the last session behind.
LEMMA ResetSessionOk ==
    ASSUME NEW c, Base(c), c.current_state = "Idle"
    PROVE  /\ Ok(c, ResetSession(c))
           /\ ResetSession(c).current_state = "Idle"
           /\ AtRest(ResetSession(c))
           /\ Clean(ResetSession(c))
<1> DEFINE dc == ChargeMode = "DC"
           r == BcbReset(c)
           c1 == [r EXCEPT
                 !.iec_allow_close_contactor = FALSE,
                 !.hlc_charging_active = dc,
                 !.hlc_allow_close_contactor = FALSE,
                 !.cable_known = FALSE,
                 !.hlc_charging_terminate_pause = "Unknown",
                 !.hlc_dc_renegotiation = FALSE,
                 !.timer["retain"] = "off",
                 !.hlc_session_paused_by_evse = FALSE,
                 !.hlc_session_restarted_by_ev = FALSE,
                 !.legacy_wakeup_done = FALSE,
                 !.hlc_d20_active = FALSE, !.hlc_d20_dynamic_mode = FALSE,
                 !.d20_pause_requested = FALSE, !.d20_pause_confirmed = FALSE]
           p == PilotOff(c1, "X1")
           c2 == [p EXCEPT !.timer["x1"] = "off"]
           c3 == DeauthorizeInternal(c2)
           d == [c3 EXCEPT
                 !.flag_transaction_active = FALSE,
                 !.last_shutdown_type = "None",
                 !.slac_retries = 0, !.slac_retries_exhausted = FALSE,
                 !.timer["wakeup"] = "off", !.hlc_failed = FALSE]
<1>1. ResetSession(c) = d  BY DEF ResetSession
<1>2. IsCtx(c) /\ AtRest(c)  BY DEF Base
<1>3. Keeps(c, r)  BY <1>2, BcbKeeps
<1>4. dc \in BOOLEAN  OBVIOUS
<1> HIDE DEF r, dc
<1>5. Ok(c, r) /\ IsCtx(r) /\ Same(c, r)  BY <1>3, KeepsOk DEF Keeps
<1>6. Ok(r, c1) /\ Same(r, c1)
  <2>0. IsCtx(r)  BY <1>4, <1>5 DEF Base, Ok
  <2>1. IsCtx(c1)
    <3>1. c1 = [f \in Fields |-> c1[f]]  BY <1>4, <1>5, <2>0 DEF IsCtx
    <3>2. Members(c1)
      BY <1>4, <1>5, <2>0 DEF IsCtx, Members, Fields, HlcTerminatePause
    <3>3. c1.timer \in [Deadlines -> TimerState]
      BY <1>4, <1>5, <2>0 DEF IsCtx, Fields, TimerState
    <3> QED  BY <3>1, <3>2, <3>3 DEF IsCtx
  <2>2. Same(r, c1)  BY <1>4, <1>5, <2>0 DEF Same, IsCtx, Fields
  <2>3. Base(r)  BY <1>4, <1>5 DEF Ok
  <2> QED  BY <2>1, <2>2, <2>3, SameOk
<1>7. c1.hlc_charging_terminate_pause = "Unknown" /\ c1.timer["retain"] = "off"
  BY <1>5 DEF IsCtx, Fields, Deadlines
<1> HIDE DEF c1
<1>8. IsCtx(c1)  BY <1>6 DEF Ok, Base
<1>9. Keeps(c1, p)  BY <1>8, PilotOffKeeps
<1> HIDE DEF p
<1>10. IsCtx(p)  BY <1>9 DEF Keeps
<1>11. Keeps(p, c2)
  <2>1. IsCtx(c2)
    <3>1. c2 = [f \in Fields |-> c2[f]]  BY <1>10 DEF IsCtx
    <3>2. Members(c2)  BY <1>10 DEF IsCtx, Members, Fields
    <3>3. c2.timer \in [Deadlines -> TimerState]
      BY <1>10 DEF IsCtx, Fields, TimerState
    <3> QED  BY <3>1, <3>2, <3>3 DEF IsCtx
  <2>2. Same(p, c2)  BY <1>10 DEF Same, IsCtx, Fields
  <2>3. SameSession(p, c2)  BY <1>10 DEF SameSession, IsCtx, Fields
  <2> QED  BY <2>1, <2>2, <2>3 DEF Keeps
<1> HIDE DEF c2
<1>12. Keeps(c1, c2)  BY <1>9, <1>11, KeepsTrans
<1>13. Ok(c1, c2)  BY <1>6, <1>12, KeepsOk DEF Ok
<1>14. Ok(c, c2)  BY <1>5, <1>6, <1>13, OkTrans
<1>15. AtRest(c2) /\ c2.current_state = "Idle"
  BY <1>2, <1>5, <1>6, <1>12 DEF Keeps, Same, AtRest
<1>16. Base(c2) /\ ~c2.heard.transaction
  BY <1>14, <1>15 DEF Ok, Base, Listener, AtRest
<1>17. Ok(c2, c3) /\ SameButHeard(c2, c3) /\ SameSession(c2, c3)
       /\ c3.flag_transaction_active = c2.flag_transaction_active
  BY <1>16, DeauthorizeOk
<1> HIDE DEF c3
<1>18. Ok(c, c3) /\ IsCtx(c3)  BY <1>14, <1>17, OkTrans DEF Ok, Base
<1>19. /\ AtRest(c3) /\ c3.current_state = "Idle"
       /\ c3.hlc_charging_terminate_pause = "Unknown"
       /\ c3.timer["retain"] = "off"
  BY <1>7, <1>12, <1>15, <1>17 DEF AtRest, SameButHeard, SameSession, Keeps
<1>20. IsCtx(d)
  <2>1. d = [f \in Fields |-> d[f]]  BY <1>18 DEF IsCtx
  <2>2. Members(d)
    BY <1>18 DEF IsCtx, Members, Fields, ShutdownType, C_SEQU_RETRY
  <2>3. d.timer \in [Deadlines -> TimerState]
    BY <1>18 DEF IsCtx, Fields, TimerState
  <2> QED  BY <2>1, <2>2, <2>3 DEF IsCtx
<1>21. /\ ~d.flag_transaction_active /\ d.last_shutdown_type = "None"
       /\ d.slac_retries = 0 /\ ~d.hlc_failed
       /\ d.hlc_charging_terminate_pause = c3.hlc_charging_terminate_pause
       /\ d.timer["retain"] = c3.timer["retain"]
       /\ d.current_state = c3.current_state
       /\ d.last_state_detect_state_change = c3.last_state_detect_state_change
       /\ d.shutdown_type = c3.shutdown_type
       /\ d.allow_power_on = c3.allow_power_on
       /\ d.heard = c3.heard
       /\ d.t_step_EF_return_state = c3.t_step_EF_return_state
       /\ d.t_step_X1_until_unmatched = c3.t_step_X1_until_unmatched
  BY <1>18 DEF IsCtx, Fields, Deadlines
<1> HIDE DEF d
<1>22. Base(c3)  BY <1>18 DEF Ok
<1>23. AtRest(d) /\ Clean(d) /\ d.current_state = "Idle"
  BY <1>19, <1>21 DEF AtRest, Clean
<1>26. d.flag_transaction_active = c3.flag_transaction_active
  BY <1>18, <1>19, <1>20, <1>21 DEF AtRest, IsCtx, Members
<1>24. Base(d)
  BY <1>19, <1>20, <1>21, <1>22, <1>23, <1>26
     DEF Base, Permitted, AtRest, Returns, Listener
<1>25. Ok(c3, d)  BY <1>21, <1>24 DEF Ok
<1> QED  BY <1>1, <1>18, <1>23, <1>25, OkTrans

\* The pass in Idle.
LEMMA PassIdleOk ==
    ASSUME NEW c, Base(c), c.current_state = "Idle", NEW init \in BOOLEAN,
           ~init => Clean(c)
    PROVE  /\ Ok(c, PassIdle(c, init))
           /\ PassIdle(c, init).current_state = "Idle"
                => Clean(PassIdle(c, init))
<1> DEFINE a == IF init THEN ResetSession(c) ELSE c
<1>1. /\ Ok(c, a) /\ a.current_state = "Idle" /\ AtRest(a) /\ Clean(a)
  <2>1. CASE init  BY <2>1, ResetSessionOk
  <2>2. CASE ~init  BY <2>2, OkRefl DEF Base
  <2> QED  BY <2>1, <2>2
<1>2. \/ PassIdle(c, init) = Go(a, "Disabled")
      \/ PassIdle(c, init) = PilotOff(a, "F")
      \/ PassIdle(c, init) = PilotOff(a, "X1")
      \/ PassIdle(c, init) = a
  BY DEF PassIdle
<1> HIDE DEF a
<1>3. Base(a) /\ IsCtx(a)  BY <1>1 DEF Ok, Base
<1>4. CASE PassIdle(c, init) = Go(a, "Disabled")
  <2>1. Ok(a, Go(a, "Disabled"))  BY <1>1, <1>3, GoRestOk
  <2>2. Go(a, "Disabled").current_state = "Disabled"
    BY <1>3, GoFields DEF EvseState
  <2> QED  BY <1>1, <1>4, <2>1, <2>2, OkTrans
<1>5. ASSUME NEW o \in {"F", "X1"}, PassIdle(c, init) = PilotOff(a, o)
      PROVE  Ok(c, PassIdle(c, init)) /\ Clean(PassIdle(c, init))
  <2>1. Keeps(a, PilotOff(a, o))  BY <1>3, PilotOffKeeps
  <2>2. Ok(a, PilotOff(a, o))  BY <1>3, <2>1, KeepsOk
  <2>3. Clean(PilotOff(a, o))  BY <1>1, <2>1 DEF Keeps, SameSession, Clean
  <2> QED  BY <1>1, <1>5, <2>2, <2>3, OkTrans
<1> QED  BY <1>1, <1>2, <1>4, <1>5

\* Whatever leaves the members of the argument alone but for the permission.
LEMMA PowerlessOk ==
    ASSUME NEW c, NEW d, Base(c), IsCtx(d), SameButPower(c, d),
           d.last_shutdown_type = c.last_shutdown_type, ~d.allow_power_on
    PROVE  Ok(c, d)
BY DEF Ok, SameButPower, Base, Permitted, AtRest, Returns, Listener

\* WaitingForAuthentication as it is entered: the session begins.
LEMMA EnterWaitingOk ==
    ASSUME NEW c, Base(c)
    PROVE  Ok(c, EnterWaiting(c)) /\ EnterWaiting(c).current_state = c.current_state
<1> DEFINE c1 == [c EXCEPT !.allow_power_on = FALSE, !.timer["fallback"] = "off"]
           c2 == IF c.session_active THEN c1 ELSE StartSession(c1)
           ishlc == IF ChargeMode = "AC" THEN AcHlc /\ ~c.hlc_failed
                                       ELSE c.ac_hlc_current_session
           five == Use5PercentFor(c, ishlc)
           c3 == [c2 EXCEPT !.ac_hlc_current_session = ishlc,
                            !.hlc_use_5percent = five]
           c4 == [c3 EXCEPT !.hlc_use_5percent = FALSE]
           c5 == UpdatePwm(c3, "5percent")
<1>1. EnterWaiting(c) \in {c3, c4, c5}  BY DEF EnterWaiting
<1>2. IsCtx(c)  BY DEF Base
<1>3. ishlc \in BOOLEAN
  BY <1>2, ChargerConfigAssumption DEF IsCtx, Members
<1>4. five \in BOOLEAN
  BY <1>2, <1>3, ChargerConfigAssumption DEF IsCtx, Members, Use5PercentFor
<1> HIDE DEF ishlc, five
<1>5. IsCtx(c1)
  <2>1. c1 = [f \in Fields |-> c1[f]]  BY <1>2 DEF IsCtx
  <2>2. Members(c1)  BY <1>2 DEF IsCtx, Members, Fields
  <2>3. c1.timer \in [Deadlines -> TimerState]
    BY <1>2 DEF IsCtx, Fields, TimerState
  <2> QED  BY <2>1, <2>2, <2>3 DEF IsCtx
<1>6. /\ SameButPower(c, c1) /\ ~c1.allow_power_on
      /\ c1.last_shutdown_type = c.last_shutdown_type
  BY <1>2 DEF SameButPower, IsCtx, Fields
<1> HIDE DEF c1
<1>7. Ok(c, c1)  BY <1>5, <1>6, PowerlessOk
<1>8. Keeps(c1, c2)  BY <1>5, StartSessionKeeps, KeepsRefl
<1> HIDE DEF c2
<1>9. IsCtx(c2)  BY <1>8 DEF Keeps
<1>10. Keeps(c2, c3)
  <2>1. IsCtx(c3)
    <3>1. c3 = [f \in Fields |-> c3[f]]  BY <1>3, <1>4, <1>9 DEF IsCtx
    <3>2. Members(c3)  BY <1>3, <1>4, <1>9 DEF IsCtx, Members, Fields
    <3>3. c3.timer \in [Deadlines -> TimerState]
      BY <1>3, <1>4, <1>9 DEF IsCtx, Fields, TimerState
    <3> QED  BY <3>1, <3>2, <3>3 DEF IsCtx
  <2>2. Same(c2, c3)  BY <1>3, <1>4, <1>9 DEF Same, IsCtx, Fields
  <2>3. SameSession(c2, c3)
    BY <1>3, <1>4, <1>9 DEF SameSession, IsCtx, Fields
  <2> QED  BY <2>1, <2>2, <2>3 DEF Keeps
<1> HIDE DEF c3
<1>11. IsCtx(c3)  BY <1>10 DEF Keeps
<1>12. Keeps(c3, c4)
  <2>1. IsCtx(c4)
    <3>1. c4 = [f \in Fields |-> c4[f]]  BY <1>11 DEF IsCtx
    <3>2. Members(c4)  BY <1>11 DEF IsCtx, Members, Fields
    <3>3. c4.timer \in [Deadlines -> TimerState]
      BY <1>11 DEF IsCtx, Fields, TimerState
    <3> QED  BY <3>1, <3>2, <3>3 DEF IsCtx
  <2>2. Same(c3, c4)  BY <1>11 DEF Same, IsCtx, Fields
  <2>3. SameSession(c3, c4)  BY <1>11 DEF SameSession, IsCtx, Fields
  <2> QED  BY <2>1, <2>2, <2>3 DEF Keeps
<1>13. Keeps(c3, c5)  BY <1>11, UpdatePwmKeeps DEF DutyCycle
<1> HIDE DEF c4, c5
<1>14. Keeps(c1, c3)  BY <1>8, <1>10, KeepsTrans
<1>15. ASSUME NEW e, Keeps(c1, e)
       PROVE  Ok(c, e) /\ e.current_state = c.current_state
  <2>1. Ok(c1, e)  BY <1>7, <1>15, KeepsOk DEF Ok
  <2> QED  BY <1>6, <1>7, <1>15, <2>1, OkTrans DEF Keeps, Same, SameButPower
<1>16. Keeps(c1, c4) /\ Keeps(c1, c5)  BY <1>12, <1>13, <1>14, KeepsTrans
<1> QED  BY <1>1, <1>14, <1>15, <1>16

\* The ways to PrepareCharging of an authorized session.
LEMMA AuthorizedEimOk ==
    ASSUME NEW c, Base(c)
    PROVE  Ok(c, AuthorizedEim(c))
<1> DEFINE a == [c EXCEPT !.hlc_use_5percent = TRUE]
           b == [c EXCEPT !.t_step_EF_return_state = "PrepareCharging",
                          !.t_step_EF_return_pwm = "zero",
                          !.hlc_use_5percent = FALSE]
           e == [c EXCEPT !.t_step_X1_until_unmatched = FALSE,
                          !.hlc_use_5percent = FALSE]
           g == [c EXCEPT !.timer["fallback"] = "armed"]
<1>1. AuthorizedEim(c) \in {Go(a, "PrepareCharging"), Go(c, "PrepareCharging"),
                            Go(b, "T_step_EF"), Go(e, "T_step_X1"), g}
  BY DEF AuthorizedEim
<1>2. IsCtx(c)  BY DEF Base
<1>3. Ok(c, a) /\ Same(c, a)
  <2>0. IsCtx(c)  BY DEF Base, Ok
  <2>1. IsCtx(a)
    <3>1. a = [f \in Fields |-> a[f]]  BY <2>0 DEF IsCtx
    <3>2. Members(a)  BY <2>0 DEF IsCtx, Members, Fields
    <3>3. a.timer \in [Deadlines -> TimerState]
      BY <2>0 DEF IsCtx, Fields, TimerState
    <3> QED  BY <3>1, <3>2, <3>3 DEF IsCtx
  <2>2. Same(c, a)  BY <2>0 DEF Same, IsCtx, Fields
  <2>3. Base(c)  BY DEF Ok
  <2> QED  BY <2>1, <2>2, <2>3, SameOk
<1>4. Ok(c, g) /\ Same(c, g)
  <2>0. IsCtx(c)  BY DEF Base, Ok
  <2>1. IsCtx(g)
    <3>1. g = [f \in Fields |-> g[f]]  BY <2>0 DEF IsCtx
    <3>2. Members(g)  BY <2>0 DEF IsCtx, Members, Fields
    <3>3. g.timer \in [Deadlines -> TimerState]
      BY <2>0 DEF IsCtx, Fields, TimerState
    <3> QED  BY <3>1, <3>2, <3>3 DEF IsCtx
  <2>2. Same(c, g)  BY <2>0 DEF Same, IsCtx, Fields
  <2>3. Base(c)  BY DEF Ok
  <2> QED  BY <2>1, <2>2, <2>3, SameOk
<1>5. IsCtx(b)
  <2>1. b = [f \in Fields |-> b[f]]  BY <1>2 DEF IsCtx
  <2>2. Members(b)  BY <1>2 DEF IsCtx, Members, Fields, DutyCycle, EvseState
  <2>3. b.timer \in [Deadlines -> TimerState]
    BY <1>2 DEF IsCtx, Fields, TimerState
  <2> QED  BY <2>1, <2>2, <2>3 DEF IsCtx
<1>6. IsCtx(e)
  <2>1. e = [f \in Fields |-> e[f]]  BY <1>2 DEF IsCtx
  <2>2. Members(e)  BY <1>2 DEF IsCtx, Members, Fields
  <2>3. e.timer \in [Deadlines -> TimerState]
    BY <1>2 DEF IsCtx, Fields, TimerState
  <2> QED  BY <2>1, <2>2, <2>3 DEF IsCtx
<1>7. /\ b.t_step_EF_return_state = "PrepareCharging"
      /\ b.current_state = c.current_state
      /\ b.last_state_detect_state_change = c.last_state_detect_state_change
      /\ b.shutdown_type = c.shutdown_type
      /\ b.last_shutdown_type = c.last_shutdown_type
      /\ b.allow_power_on = c.allow_power_on
      /\ b.flag_transaction_active = c.flag_transaction_active
      /\ b.heard = c.heard
  BY <1>2 DEF IsCtx, Fields
<1>8. /\ e.t_step_EF_return_state = c.t_step_EF_return_state
      /\ ~e.t_step_X1_until_unmatched
      /\ e.current_state = c.current_state
      /\ e.last_state_detect_state_change = c.last_state_detect_state_change
      /\ e.shutdown_type = c.shutdown_type
      /\ e.last_shutdown_type = c.last_shutdown_type
      /\ e.allow_power_on = c.allow_power_on
      /\ e.flag_transaction_active = c.flag_transaction_active
      /\ e.heard = c.heard
  BY <1>2 DEF IsCtx, Fields
<1> HIDE DEF a, b, e, g
<1>9. Base(b) /\ Base(e) /\ "PrepareCharging" \in ReturnStates
  BY <1>5, <1>6, <1>7, <1>8
     DEF Base, Permitted, AtRest, Returns, Listener, ReturnStates
<1>10. Ok(c, b) /\ Ok(c, e)  BY <1>7, <1>8, <1>9 DEF Ok
<1>11. /\ Ok(b, Go(b, "T_step_EF")) /\ Ok(e, Go(e, "T_step_X1"))
  BY <1>7, <1>8, <1>9, GoStepOk
<1>12. Ok(a, Go(a, "PrepareCharging")) /\ Ok(c, Go(c, "PrepareCharging"))
  BY <1>3, GoOk DEF EvseState, Ok
<1>13. Ok(c, Go(b, "T_step_EF")) /\ Ok(c, Go(e, "T_step_X1"))
       /\ Ok(c, Go(a, "PrepareCharging"))
  BY <1>3, <1>10, <1>11, <1>12, OkTrans
<1> QED  BY <1>1, <1>4, <1>12, <1>13

\* WaitingForAuthentication, authorized by the contract of the EV.
LEMMA AuthorizedPncOk ==
    ASSUME NEW c, Base(c)
    PROVE  Ok(c, AuthorizedPnc(c))
<1> DEFINE a == [c EXCEPT !.hlc_use_5percent = TRUE]
<1>1. AuthorizedPnc(c) \in {Go(a, "PrepareCharging"), Go(c, "PrepareCharging"),
                            c}
  BY DEF AuthorizedPnc
<1>2. IsCtx(c)  BY DEF Base
<1>3. Ok(c, a) /\ Same(c, a)
  <2>0. IsCtx(c)  BY DEF Base, Ok
  <2>1. IsCtx(a)
    <3>1. a = [f \in Fields |-> a[f]]  BY <2>0 DEF IsCtx
    <3>2. Members(a)  BY <2>0 DEF IsCtx, Members, Fields
    <3>3. a.timer \in [Deadlines -> TimerState]
      BY <2>0 DEF IsCtx, Fields, TimerState
    <3> QED  BY <3>1, <3>2, <3>3 DEF IsCtx
  <2>2. Same(c, a)  BY <2>0 DEF Same, IsCtx, Fields
  <2>3. Base(c)  BY DEF Ok
  <2> QED  BY <2>1, <2>2, <2>3, SameOk
<1> HIDE DEF a
<1>4. Ok(a, Go(a, "PrepareCharging")) /\ Ok(c, Go(c, "PrepareCharging"))
  BY <1>3, GoOk DEF EvseState, Ok
<1> QED  BY <1>1, <1>3, <1>4, OkTrans, OkRefl

\* A transaction begins where the state allows one.
LEMMA StartTransactionOk ==
    ASSUME NEW c, Base(c), ~c.flag_transaction_active,
           c.current_state \notin {"Idle", "Disabled"}
    PROVE  Ok(c, StartTransaction(c))
<1> DEFINE d == StartTransaction(c)
<1>1. IsCtx(c) /\ ~c.heard.transaction  BY DEF Base, Listener
<1>2. /\ IsCtx(d) /\ SameButHeard(c, d)
      /\ d.flag_transaction_active /\ d.heard.transaction
      /\ d.heard.odd = c.heard.odd
  BY <1>1, StartTransactionFields
<1> HIDE DEF d
<1>3. d.heard.transaction = d.flag_transaction_active
  BY <1>2 DEF IsCtx, Members
<1>4. ~d.allow_power_on  BY <1>2 DEF SameButHeard, Base, Permitted
<1>5. Base(d)
  BY <1>2, <1>3, <1>4 DEF SameButHeard, Base, Permitted, Returns, Listener
<1>6. Ok(c, d)  BY <1>2, <1>4, <1>5 DEF SameButHeard, Ok
<1> QED  BY <1>6 DEF d

\* The pass in WaitingForAuthentication.
LEMMA PassWaitingOk ==
    ASSUME NEW c, Base(c), c.current_state = "WaitingForAuthentication",
           NEW init \in BOOLEAN, NEW env
    PROVE  Ok(c, PassWaiting(c, init, env))
<1> DEFINE a == IF init THEN EnterWaiting(c) ELSE c
           c1 == StopOnFatalError(a)
           known == c1.cable_known \/ (Socket /\ env.pp)
           c2 == [c1 EXCEPT !.cable_known = known]
           c3 == IF c2.flag_transaction_active THEN c2 ELSE StartTransaction(c2)
<1>1. Ok(c, a) /\ a.current_state = c.current_state
  BY EnterWaitingOk, OkRefl
<1>2. PassWaiting(c, init, env)
        \in {Go(c1, "Finished"), c2, Go(c3, "PrepareCharging"),
             AuthorizedPnc(c3), AuthorizedEim(c3)}
  BY DEF PassWaiting, Authorized
<1> HIDE DEF a
<1>3. Ok(a, c1) /\ SameButPower(a, c1)  BY <1>1, StopOnFatalErrorOk DEF Ok
<1> HIDE DEF c1
<1>4. Ok(c, c1) /\ Base(c1)  BY <1>1, <1>3, OkTrans DEF Ok
<1>5. known \in BOOLEAN
  <2>1. c1.cable_known \in BOOLEAN  BY <1>4 DEF Base, IsCtx, Members
  <2> QED  BY <2>1
<1> HIDE DEF known
<1>6. Ok(c1, c2) /\ Same(c1, c2)
  <2>0. IsCtx(c1)  BY <1>4, <1>5 DEF Base, Ok
  <2>1. IsCtx(c2)
    <3>1. c2 = [f \in Fields |-> c2[f]]  BY <1>4, <1>5, <2>0 DEF IsCtx
    <3>2. Members(c2)  BY <1>4, <1>5, <2>0 DEF IsCtx, Members, Fields
    <3>3. c2.timer \in [Deadlines -> TimerState]
      BY <1>4, <1>5, <2>0 DEF IsCtx, Fields, TimerState
    <3> QED  BY <3>1, <3>2, <3>3 DEF IsCtx
  <2>2. Same(c1, c2)  BY <1>4, <1>5, <2>0 DEF Same, IsCtx, Fields
  <2>3. Base(c1)  BY <1>4, <1>5 DEF Ok
  <2> QED  BY <2>1, <2>2, <2>3, SameOk
<1> HIDE DEF c2
<1>7. Ok(c, c2) /\ Base(c2)  BY <1>4, <1>6, OkTrans DEF Ok
<1>8. c2.current_state = "WaitingForAuthentication"
  BY <1>1, <1>3, <1>6 DEF SameButPower, Same
<1>9. Ok(c2, c3)
  BY <1>7, <1>8, StartTransactionOk, OkRefl
<1> HIDE DEF c3
<1>10. Ok(c, c3) /\ Base(c3)  BY <1>7, <1>9, OkTrans DEF Ok
<1>11. /\ Ok(c1, Go(c1, "Finished")) /\ Ok(c3, Go(c3, "PrepareCharging"))
  BY <1>4, <1>10, GoOk DEF EvseState
<1>12. Ok(c3, AuthorizedPnc(c3)) /\ Ok(c3, AuthorizedEim(c3))
  BY <1>10, AuthorizedPncOk, AuthorizedEimOk
<1> QED  BY <1>2, <1>4, <1>7, <1>10, <1>11, <1>12, OkTrans

\* The pass in SwitchPhases.
LEMMA PassSwitchPhasesOk ==
    ASSUME NEW c, Base(c), NEW init \in BOOLEAN
    PROVE  Ok(c, PassSwitchPhases(c, init))
<1> DEFINE a == IF init THEN PilotOff(c, SwitchCpState) ELSE c
           c1 == StopOnFatalError(a)
           d == [c1 EXCEPT !.switch_phases_ongoing = FALSE]
<1>1. PassSwitchPhases(c, init)
        \in {Go(c1, "PrepareCharging"), Go(d, "PrepareCharging"), c1}
  BY DEF PassSwitchPhases
<1>2. IsCtx(c) /\ SwitchCpState \in {"X1", "E", "F"}
  BY ChargerConfigAssumption DEF Base
<1>3. Keeps(c, a)  BY <1>2, PilotOffKeeps, KeepsRefl
<1> HIDE DEF a
<1>4. Ok(c, a) /\ Base(a)  BY <1>3, KeepsOk DEF Ok
<1>5. Ok(a, c1)  BY <1>4, StopOnFatalErrorOk
<1> HIDE DEF c1
<1>6. Ok(c, c1) /\ Base(c1)  BY <1>4, <1>5, OkTrans DEF Ok
<1>7. Ok(c1, d) /\ Same(c1, d)
  <2>0. IsCtx(c1)  BY <1>6 DEF Base, Ok
  <2>1. IsCtx(d)
    <3>1. d = [f \in Fields |-> d[f]]  BY <1>6, <2>0 DEF IsCtx
    <3>2. Members(d)  BY <1>6, <2>0 DEF IsCtx, Members, Fields
    <3>3. d.timer \in [Deadlines -> TimerState]
      BY <1>6, <2>0 DEF IsCtx, Fields, TimerState
    <3> QED  BY <3>1, <3>2, <3>3 DEF IsCtx
  <2>2. Same(c1, d)  BY <1>6, <2>0 DEF Same, IsCtx, Fields
  <2>3. Base(c1)  BY <1>6 DEF Ok
  <2> QED  BY <2>1, <2>2, <2>3, SameOk
<1> HIDE DEF d
<1>8. Ok(c, d) /\ Base(d)  BY <1>6, <1>7, OkTrans DEF Ok
<1>9. Ok(c1, Go(c1, "PrepareCharging")) /\ Ok(d, Go(d, "PrepareCharging"))
  BY <1>6, <1>8, GoOk DEF EvseState
<1> QED  BY <1>1, <1>6, <1>8, <1>9, OkTrans

\* The pass in T_step_EF: it returns to the state it was entered from.
LEMMA PassTStepEFOk ==
    ASSUME NEW c, Base(c), c.current_state = "T_step_EF", NEW init \in BOOLEAN
    PROVE  Ok(c, PassTStepEF(c, init))
<1> DEFINE z == [c EXCEPT !.t_step_ef_x1_pause = FALSE]
           c0 == IF init THEN PilotOff(z, "F") ELSE c
           c1 == StopOnFatalError(c0)
           back == IF c1.t_step_EF_return_pwm = "zero" THEN "X1"
                   ELSE IF c1.hlc_use_5percent THEN "5percent"
                   ELSE c1.t_step_EF_return_pwm
           to == c1.t_step_EF_return_state
           p == PilotOff(c1, "X1")
           u == UpdatePwm(c1, back)
           x == [c1 EXCEPT !.t_step_ef_x1_pause = TRUE]
<1>1. PassTStepEF(c, init) \in {Go(p, to), Go(u, to), PilotOff(x, "X1"), c1}
  BY DEF PassTStepEF
<1>2. IsCtx(c)  BY DEF Base
<1>3. Keeps(c, z)
  <2>1. IsCtx(z)
    <3>1. z = [f \in Fields |-> z[f]]  BY <1>2 DEF IsCtx
    <3>2. Members(z)  BY <1>2 DEF IsCtx, Members, Fields
    <3>3. z.timer \in [Deadlines -> TimerState]
      BY <1>2 DEF IsCtx, Fields, TimerState
    <3> QED  BY <3>1, <3>2, <3>3 DEF IsCtx
  <2>2. Same(c, z)  BY <1>2 DEF Same, IsCtx, Fields
  <2>3. SameSession(c, z)  BY <1>2 DEF SameSession, IsCtx, Fields
  <2> QED  BY <2>1, <2>2, <2>3 DEF Keeps
<1> HIDE DEF z
<1>4. Keeps(c, c0)
  <2>1. Keeps(z, PilotOff(z, "F"))  BY <1>3, PilotOffKeeps DEF Keeps
  <2> QED  BY <1>2, <1>3, <2>1, KeepsTrans, KeepsRefl
<1> HIDE DEF c0
<1>5. Ok(c, c0) /\ Base(c0)  BY <1>4, KeepsOk DEF Ok
<1>6. Ok(c0, c1) /\ SameButPower(c0, c1)  BY <1>5, StopOnFatalErrorOk
<1> HIDE DEF c1
<1>7. Ok(c, c1) /\ Base(c1) /\ IsCtx(c1)
  BY <1>5, <1>6, OkTrans DEF Ok, Base
<1>8. to \in ReturnStates
  BY <1>4, <1>6, <1>7 DEF Keeps, Same, SameButPower, Base, Returns
<1>9. back \in DutyCycle
  <2>1. c1.t_step_EF_return_pwm \in DutyCycle  BY <1>7 DEF IsCtx, Members
  <2> QED  BY <2>1 DEF DutyCycle
<1> HIDE DEF to, back
<1>10. Keeps(c1, p) /\ Keeps(c1, u)
  BY <1>7, <1>9, PilotOffKeeps, UpdatePwmKeeps
<1>11. Keeps(c1, x)
  <2>1. IsCtx(x)
    <3>1. x = [f \in Fields |-> x[f]]  BY <1>7 DEF IsCtx
    <3>2. Members(x)  BY <1>7 DEF IsCtx, Members, Fields
    <3>3. x.timer \in [Deadlines -> TimerState]
      BY <1>7 DEF IsCtx, Fields, TimerState
    <3> QED  BY <3>1, <3>2, <3>3 DEF IsCtx
  <2>2. Same(c1, x)  BY <1>7 DEF Same, IsCtx, Fields
  <2>3. SameSession(c1, x)  BY <1>7 DEF SameSession, IsCtx, Fields
  <2> QED  BY <2>1, <2>2, <2>3 DEF Keeps
<1> HIDE DEF p, u, x
<1>12. Keeps(x, PilotOff(x, "X1"))  BY <1>11, PilotOffKeeps DEF Keeps
<1>13. Ok(c1, p) /\ Ok(c1, u) /\ Ok(c1, PilotOff(x, "X1"))
  BY <1>7, <1>10, <1>11, <1>12, KeepsTrans, KeepsOk
<1>14. Ok(p, Go(p, to)) /\ Ok(u, Go(u, to))  BY <1>8, <1>13, GoBackOk DEF Ok
<1>15. Ok(c1, Go(p, to)) /\ Ok(c1, Go(u, to))  BY <1>13, <1>14, OkTrans
<1> QED  BY <1>1, <1>7, <1>13, <1>15, OkTrans

\* The pass in T_step_X1.
LEMMA PassTStepX1Ok ==
    ASSUME NEW c, Base(c), c.current_state = "T_step_X1", NEW init \in BOOLEAN
    PROVE  Ok(c, PassTStepX1(c, init))
<1> DEFINE c0 == IF init THEN PilotOff(c, "X1") ELSE c
           c1 == StopOnFatalError(c0)
           wait == c1.t_step_X1_until_unmatched
           c2 == [c1 EXCEPT !.t_step_X1_until_unmatched = FALSE]
           to == IF wait THEN c1.t_step_EF_return_state ELSE "PrepareCharging"
           p == PilotOff(c1, "X1")
<1>1. \/ PassTStepX1(c, init) = Go(c2, to)
      \/ wait /\ PassTStepX1(c, init) = Go(c2, "T_step_EF")
      \/ PassTStepX1(c, init) = Go(p, "PrepareCharging")
      \/ PassTStepX1(c, init) = c1
  BY DEF PassTStepX1
<1>2. IsCtx(c)  BY DEF Base
<1>3. Keeps(c, c0)  BY <1>2, PilotOffKeeps, KeepsRefl
<1> HIDE DEF c0
<1>4. Ok(c, c0) /\ Base(c0)  BY <1>3, KeepsOk DEF Ok
<1>5. Ok(c0, c1) /\ SameButPower(c0, c1)  BY <1>4, StopOnFatalErrorOk
<1> HIDE DEF c1
<1>6. Ok(c, c1) /\ Base(c1) /\ IsCtx(c1)
  BY <1>4, <1>5, OkTrans DEF Ok, Base
<1>7. c1.current_state = "T_step_X1"
  BY <1>3, <1>5 DEF Keeps, Same, SameButPower
<1>8. wait => c1.t_step_EF_return_state \in ReturnStates
  BY <1>6, <1>7 DEF Base, Returns
<1>9. to \in ReturnStates  BY <1>8 DEF ReturnStates
<1>10. IsCtx(c2)
  <2>1. c2 = [f \in Fields |-> c2[f]]  BY <1>6 DEF IsCtx
  <2>2. Members(c2)  BY <1>6 DEF IsCtx, Members, Fields
  <2>3. c2.timer \in [Deadlines -> TimerState]
    BY <1>6 DEF IsCtx, Fields, TimerState
  <2> QED  BY <2>1, <2>2, <2>3 DEF IsCtx
<1>11. /\ c2.t_step_EF_return_state = c1.t_step_EF_return_state
       /\ ~c2.t_step_X1_until_unmatched
       /\ c2.current_state = c1.current_state
       /\ c2.last_state_detect_state_change = c1.last_state_detect_state_change
       /\ c2.shutdown_type = c1.shutdown_type
       /\ c2.last_shutdown_type = c1.last_shutdown_type
       /\ c2.allow_power_on = c1.allow_power_on
       /\ c2.flag_transaction_active = c1.flag_transaction_active
       /\ c2.heard = c1.heard
  BY <1>6 DEF IsCtx, Fields
<1> HIDE DEF c2, to, wait
<1>12. Base(c2)
  BY <1>6, <1>10, <1>11 DEF Base, Permitted, AtRest, Returns, Listener
<1>13. Ok(c1, c2)  BY <1>11, <1>12 DEF Ok
<1>14. Ok(c2, Go(c2, to))  BY <1>9, <1>12, GoBackOk
<1>15. wait => Ok(c2, Go(c2, "T_step_EF"))
  BY <1>8, <1>11, <1>12, GoStepOk
<1>16. Ok(c1, p)  BY <1>6, PilotOffKeeps, KeepsOk
<1> HIDE DEF p
<1>17. Ok(p, Go(p, "PrepareCharging"))  BY <1>16, GoOk DEF Ok, EvseState
<1> QED
  BY <1>1, <1>6, <1>13, <1>14, <1>15, <1>16, <1>17, OkTrans

\* The pass in Reinit.
LEMMA PassReinitOk ==
    ASSUME NEW c, Base(c), NEW init \in BOOLEAN
    PROVE  Ok(c, PassReinit(c, init))
<1> DEFINE p == PilotOff(c, ReinitMethod)
           t == IF ReinitTimed THEN "armed" ELSE "off"
           i == [p EXCEPT !.reinit_running = TRUE,
                          !.iec_allow_close_contactor = FALSE,
                          !.hlc_allow_close_contactor = FALSE,
                          !.timer["reinit"] = t]
           c1 == IF init THEN i ELSE c
           e == [c1 EXCEPT !.reinit_running = FALSE, !.timer["reinit"] = "off"]
           q == PilotOff(e, "X1")
<1>1. PassReinit(c, init) \in {c1, Go(q, "WaitingForAuthentication")}
  BY DEF PassReinit
<1>2. IsCtx(c) /\ ReinitMethod \in {"X1", "E", "F"}
  BY ChargerConfigAssumption DEF Base
<1>3. Keeps(c, p) /\ t \in TimerState
  BY <1>2, PilotOffKeeps DEF TimerState
<1> HIDE DEF p, t
<1>4. IsCtx(p)  BY <1>3 DEF Keeps
<1>5. Keeps(p, i)
  <2>1. IsCtx(i)
    <3>1. i = [f \in Fields |-> i[f]]  BY <1>3, <1>4 DEF IsCtx
    <3>2. Members(i)  BY <1>3, <1>4 DEF IsCtx, Members, Fields
    <3>3. i.timer \in [Deadlines -> TimerState]
      BY <1>3, <1>4 DEF IsCtx, Fields, TimerState
    <3> QED  BY <3>1, <3>2, <3>3 DEF IsCtx
  <2>2. Same(p, i)  BY <1>3, <1>4 DEF Same, IsCtx, Fields
  <2>3. SameSession(p, i)  BY <1>3, <1>4 DEF SameSession, IsCtx, Fields
  <2> QED  BY <2>1, <2>2, <2>3 DEF Keeps
<1> HIDE DEF i
<1>6. Keeps(c, c1)  BY <1>2, <1>3, <1>5, KeepsTrans, KeepsRefl
<1> HIDE DEF c1
<1>7. IsCtx(c1)  BY <1>6 DEF Keeps
<1>8. Keeps(c1, e)
  <2>1. IsCtx(e)
    <3>1. e = [f \in Fields |-> e[f]]  BY <1>7 DEF IsCtx
    <3>2. Members(e)  BY <1>7 DEF IsCtx, Members, Fields
    <3>3. e.timer \in [Deadlines -> TimerState]
      BY <1>7 DEF IsCtx, Fields, TimerState
    <3> QED  BY <3>1, <3>2, <3>3 DEF IsCtx
  <2>2. Same(c1, e)  BY <1>7 DEF Same, IsCtx, Fields
  <2>3. SameSession(c1, e)  BY <1>7 DEF SameSession, IsCtx, Fields
  <2> QED  BY <2>1, <2>2, <2>3 DEF Keeps
<1> HIDE DEF e
<1>9. Keeps(e, q)  BY <1>8, PilotOffKeeps DEF Keeps
<1> HIDE DEF q
<1>10. Keeps(c, q)  BY <1>6, <1>8, <1>9, KeepsTrans
<1>11. Ok(c, c1) /\ Ok(c, q)  BY <1>6, <1>10, KeepsOk
<1>12. Ok(q, Go(q, "WaitingForAuthentication"))
  BY <1>11, GoOk DEF Ok, EvseState
<1> QED  BY <1>1, <1>11, <1>12, OkTrans

\* PrepareCharging waits for the EV to ask for power.
LEMMA WaitForStateCOk ==
    ASSUME NEW c, Base(c)
    PROVE  Ok(c, WaitForStateC(c))
<1> DEFINE pwm == NominalDuty(c)
           a == [c EXCEPT !.legacy_wakeup_done = TRUE,
                          !.t_step_EF_return_state = "PrepareCharging",
                          !.t_step_EF_return_pwm = pwm]
<1>1. WaitForStateC(c) \in {c, Go(a, "T_step_EF"), Go(c, "ChargingPausedEV")}
  BY DEF WaitForStateC
<1>2. IsCtx(c) /\ pwm \in DutyCycle  BY NominalType DEF Base
<1> HIDE DEF pwm
<1>3. IsCtx(a)
  <2>1. a = [f \in Fields |-> a[f]]  BY <1>2 DEF IsCtx
  <2>2. Members(a)  BY <1>2 DEF IsCtx, Members, Fields, EvseState
  <2>3. a.timer \in [Deadlines -> TimerState]
    BY <1>2 DEF IsCtx, Fields, TimerState
  <2> QED  BY <2>1, <2>2, <2>3 DEF IsCtx
<1>4. /\ a.t_step_EF_return_state = "PrepareCharging"
      /\ a.current_state = c.current_state
      /\ a.last_state_detect_state_change = c.last_state_detect_state_change
      /\ a.shutdown_type = c.shutdown_type
      /\ a.last_shutdown_type = c.last_shutdown_type
      /\ a.allow_power_on = c.allow_power_on
      /\ a.flag_transaction_active = c.flag_transaction_active
      /\ a.heard = c.heard
  BY <1>2 DEF IsCtx, Fields
<1> HIDE DEF a
<1>5. Base(a) /\ "PrepareCharging" \in ReturnStates
  BY <1>3, <1>4 DEF Base, Permitted, AtRest, Returns, Listener, ReturnStates
<1>6. Ok(c, a) /\ Ok(a, Go(a, "T_step_EF"))
  BY <1>4, <1>5, GoStepOk DEF Ok
<1>7. Ok(c, Go(c, "ChargingPausedEV"))  BY GoOk DEF EvseState
<1> QED  BY <1>1, <1>6, <1>7, OkTrans, OkRefl

\* PrepareCharging sets the duty cycle.
LEMMA ApplyPwmOk ==
    ASSUME NEW c, Base(c)
    PROVE  Ok(c, ApplyPwm(c))
<1> DEFINE nominal == ChargeMode = "AC" /\ (~c.hlc_use_5percent \/ c.hlc_failed)
           duty == IF nominal THEN NominalDuty(c) ELSE "5percent"
           c1 == UpdatePwmIfChanged(c, duty)
<1>1. ApplyPwm(c) \in {c, c1, Go(c1, "Charging"), WaitForStateC(c1)}
  BY DEF ApplyPwm
<1>2. IsCtx(c) /\ duty \in DutyCycle  BY NominalType DEF Base, DutyCycle
<1> HIDE DEF duty
<1>3. Ok(c, c1) /\ Base(c1)  BY <1>2, UpdatePwmKeeps, KeepsOk DEF Ok
<1> HIDE DEF c1
<1>4. Ok(c1, Go(c1, "Charging")) /\ Ok(c1, WaitForStateC(c1))
  BY <1>3, GoOk, WaitForStateCOk DEF EvseState
<1> QED  BY <1>1, <1>3, <1>4, OkTrans, OkRefl

\* PrepareCharging after its initialization.
LEMMA PrepareOk ==
    ASSUME NEW c, Base(c)
    PROVE  Ok(c, Prepare(c))
<1> DEFINE ended == c.hlc_charging_active
                      /\ c.hlc_charging_terminate_pause # "Unknown"
           c1 == IF ended THEN ResumeEvsePauseMarker(c) ELSE c
           w == [c1 EXCEPT !.timer["wakeup"] = "off"]
           c2 == IF c1.dlink_established THEN w ELSE c1
           v == [c2 EXCEPT !.timer["wakeup"] = "off"]
<1>1. Prepare(c) \in {Go(c, "ChargingPausedEV"), ErrorSequence(v), ApplyPwm(c2)}
  BY DEF Prepare
<1>2. Ok(c, c1)  BY ResumeMarkerOk, OkRefl
<1> HIDE DEF c1
<1>3. Base(c1)  BY <1>2 DEF Ok
<1>4. Ok(c1, w) /\ Same(c1, w)
  <2>0. IsCtx(c1)  BY <1>3 DEF Base, Ok
  <2>1. IsCtx(w)
    <3>1. w = [f \in Fields |-> w[f]]  BY <1>3, <2>0 DEF IsCtx
    <3>2. Members(w)  BY <1>3, <2>0 DEF IsCtx, Members, Fields
    <3>3. w.timer \in [Deadlines -> TimerState]
      BY <1>3, <2>0 DEF IsCtx, Fields, TimerState
    <3> QED  BY <3>1, <3>2, <3>3 DEF IsCtx
  <2>2. Same(c1, w)  BY <1>3, <2>0 DEF Same, IsCtx, Fields
  <2>3. Base(c1)  BY <1>3 DEF Ok
  <2> QED  BY <2>1, <2>2, <2>3, SameOk
<1> HIDE DEF w
<1>5. Ok(c, c2)  BY <1>2, <1>4, OkTrans
<1> HIDE DEF c2
<1>6. Base(c2)  BY <1>5 DEF Ok
<1>7. Ok(c2, v) /\ Same(c2, v)
  <2>0. IsCtx(c2)  BY <1>6 DEF Base, Ok
  <2>1. IsCtx(v)
    <3>1. v = [f \in Fields |-> v[f]]  BY <1>6, <2>0 DEF IsCtx
    <3>2. Members(v)  BY <1>6, <2>0 DEF IsCtx, Members, Fields
    <3>3. v.timer \in [Deadlines -> TimerState]
      BY <1>6, <2>0 DEF IsCtx, Fields, TimerState
    <3> QED  BY <3>1, <3>2, <3>3 DEF IsCtx
  <2>2. Same(c2, v)  BY <1>6, <2>0 DEF Same, IsCtx, Fields
  <2>3. Base(c2)  BY <1>6 DEF Ok
  <2> QED  BY <2>1, <2>2, <2>3, SameOk
<1> HIDE DEF v
<1>8. Ok(c, v) /\ Base(v)  BY <1>5, <1>7, OkTrans DEF Ok
<1>9. Ok(v, ErrorSequence(v)) /\ Ok(c2, ApplyPwm(c2))
  BY <1>6, <1>8, ErrorSequenceOk, ApplyPwmOk
<1>10. Ok(c, Go(c, "ChargingPausedEV"))  BY GoOk DEF EvseState
<1> QED  BY <1>1, <1>5, <1>8, <1>9, <1>10, OkTrans

\* In DC the permission is given here.
LEMMA PassPrepareChargingOk ==
    ASSUME NEW c, Base(c), c.current_state = "PrepareCharging",
           NEW init \in BOOLEAN
    PROVE  Ok(c, PassPrepareCharging(c, init))
<1> DEFINE b == BcbReset(c)
           i == [b EXCEPT !.timer["no_energy"] = "off"]
           c0 == IF init THEN i ELSE c
           c1 == StopOnFatalError(c0)
           on == ChargeMode = "DC" /\ c1.hlc_allow_close_contactor
                    /\ c1.iec_allow_close_contactor
           c2 == IF on THEN Allow(c1, TRUE) ELSE c1
<1>1. \/ PassPrepareCharging(c, init) = Go(c1, "StoppingCharging")
      \/ /\ ~(FatalError(c1) \/ StopReason(c1))
         /\ PassPrepareCharging(c, init) = Prepare(c2)
  BY DEF PassPrepareCharging, Allow
<1>2. IsCtx(c)  BY DEF Base
<1>3. Keeps(c, b)  BY <1>2, BcbKeeps
<1> HIDE DEF b
<1>4. IsCtx(b)  BY <1>3 DEF Keeps
<1>5. Keeps(b, i)
  <2>1. IsCtx(i)
    <3>1. i = [f \in Fields |-> i[f]]  BY <1>4 DEF IsCtx
    <3>2. Members(i)  BY <1>4 DEF IsCtx, Members, Fields
    <3>3. i.timer \in [Deadlines -> TimerState]
      BY <1>4 DEF IsCtx, Fields, TimerState
    <3> QED  BY <3>1, <3>2, <3>3 DEF IsCtx
  <2>2. Same(b, i)  BY <1>4 DEF Same, IsCtx, Fields
  <2>3. SameSession(b, i)  BY <1>4 DEF SameSession, IsCtx, Fields
  <2> QED  BY <2>1, <2>2, <2>3 DEF Keeps
<1> HIDE DEF i
<1>6. Keeps(c, c0)  BY <1>2, <1>3, <1>5, KeepsTrans, KeepsRefl
<1> HIDE DEF c0
<1>7. Ok(c, c0) /\ Base(c0)  BY <1>6, KeepsOk DEF Ok
<1>8. /\ Ok(c0, c1) /\ SameButPower(c0, c1)
      /\ c1.last_shutdown_type = c0.shutdown_type
  BY <1>7, StopOnFatalErrorOk
<1> HIDE DEF c1
<1>9. Ok(c, c1) /\ Base(c1)  BY <1>7, <1>8, OkTrans DEF Ok
<1>10. CASE PassPrepareCharging(c, init) = Go(c1, "StoppingCharging")
  <2>1. Ok(c1, Go(c1, "StoppingCharging"))  BY <1>9, GoOk DEF EvseState
  <2> QED  BY <1>9, <1>10, <2>1, OkTrans
<1>11. CASE /\ ~(FatalError(c1) \/ StopReason(c1))
            /\ PassPrepareCharging(c, init) = Prepare(c2)
  <2>1. /\ c1.shutdown_type = "None" /\ c1.last_shutdown_type = "None"
        /\ c1.flag_transaction_active
        /\ c1.current_state \notin {"Idle", "Disabled"}
    BY <1>6, <1>8, <1>11
       DEF FatalError, StopReason, SameButPower, Keeps, Same
  <2>2. Ok(c1, c2)  BY <1>9, <2>1, PowerOnOk, OkRefl
  <2> HIDE DEF c2
  <2>3. Ok(c, c2) /\ Base(c2)  BY <1>9, <2>2, OkTrans DEF Ok
  <2>4. Ok(c2, Prepare(c2))  BY <2>3, PrepareOk
  <2> QED  BY <1>11, <2>3, <2>4, OkTrans
<1> QED  BY <1>1, <1>10, <1>11

\* The pause an ISO 15118-20 session is asked for.
LEMMA RequestPauseKeeps ==
    ASSUME NEW c, IsCtx(c)
    PROVE  Keeps(c, RequestPause(c))
<1> DEFINE b == c.flag_paused_by_evse
                 \/ (c.d20_pause_requested /\ c.d20_pause_confirmed)
           d == [c EXCEPT !.d20_pause_requested = b]
<1>1. RequestPause(c) \in {c, d}  BY DEF RequestPause
<1>2. b \in BOOLEAN  BY DEF IsCtx, Members
<1> HIDE DEF b
<1>3. Keeps(c, d)
  <2>1. IsCtx(d)
    <3>1. d = [f \in Fields |-> d[f]]  BY <1>2 DEF IsCtx
    <3>2. Members(d)  BY <1>2 DEF IsCtx, Members, Fields
    <3>3. d.timer \in [Deadlines -> TimerState]
      BY <1>2 DEF IsCtx, Fields, TimerState
    <3> QED  BY <3>1, <3>2, <3>3 DEF IsCtx
  <2>2. Same(c, d)  BY <1>2 DEF Same, IsCtx, Fields
  <2>3. SameSession(c, d)  BY <1>2 DEF SameSession, IsCtx, Fields
  <2> QED  BY <2>1, <2>2, <2>3 DEF Keeps
<1> QED  BY <1>1, <1>3, KeepsRefl

\* In AC it is given here, after the reasons to stop have been looked at.
LEMMA PassChargingOk ==
    ASSUME NEW c, Base(c), c.current_state = "Charging",
           NEW init \in BOOLEAN, NEW env
    PROVE  Ok(c, PassCharging(c, init, env))
<1> DEFINE i == [c EXCEPT !.hlc_charging_terminate_pause = "Unknown",
                          !.timer["retain"] = "off",
                          !.hlc_session_paused_by_evse = FALSE]
           c0 == IF init THEN i ELSE c
           s == StopOnFatalError(c0)
           c1 == RequestPause(s)
           t == IF PowerAvailable(c1) \/ NoEnergyStops(c1) THEN "off"
                ELSE IF c1.timer["no_energy"] = "off"
                          /\ (c1.hlc_charging_active \/ c1.hlc_use_5percent)
                THEN "armed" ELSE c1.timer["no_energy"]
           c2 == [c1 EXCEPT !.timer["no_energy"] = t]
           duty == IF c2.hlc_use_5percent THEN "5percent" ELSE NominalDuty(c2)
           w == [c2 EXCEPT !.legacy_wakeup_done = FALSE]
           c3 == IF ChargeMode = "AC" THEN w ELSE c2
           on == Allow(c3, TRUE)
<1>1. \/ PassCharging(c, init, env) \in {Go(c1, "StoppingCharging"),
                Go(c2, "StoppingCharging"), UpdatePwmIfChanged(c2, duty), c2}
      \/ /\ ~StopsCharging(c1)
         /\ PassCharging(c, init, env) \in {UpdatePwmIfChanged(on, duty), on}
  BY DEF PassCharging, Allow
<1>2. IsCtx(c)  BY DEF Base
<1>3. Ok(c, i) /\ Same(c, i)
  <2>0. IsCtx(c)  BY DEF Base, Ok
  <2>1. IsCtx(i)
    <3>1. i = [f \in Fields |-> i[f]]  BY <2>0 DEF IsCtx
    <3>2. Members(i)  BY <2>0 DEF IsCtx, Members, Fields, HlcTerminatePause
    <3>3. i.timer \in [Deadlines -> TimerState]
      BY <2>0 DEF IsCtx, Fields, TimerState
    <3> QED  BY <3>1, <3>2, <3>3 DEF IsCtx
  <2>2. Same(c, i)  BY <2>0 DEF Same, IsCtx, Fields
  <2>3. Base(c)  BY DEF Ok
  <2> QED  BY <2>1, <2>2, <2>3, SameOk
<1> HIDE DEF i
<1>4. Ok(c, c0) /\ c0.current_state = "Charging"  BY <1>3, OkRefl DEF Same
<1> HIDE DEF c0
<1>5. /\ Ok(c0, s) /\ SameButPower(c0, s)
      /\ s.last_shutdown_type = c0.shutdown_type
  BY <1>4, StopOnFatalErrorOk DEF Ok
<1> HIDE DEF s
<1>6. Base(s) /\ IsCtx(s)  BY <1>5 DEF Ok, Base
<1>7. Keeps(s, c1)  BY <1>6, RequestPauseKeeps
<1> HIDE DEF c1
<1>8. Ok(s, c1) /\ IsCtx(c1)  BY <1>6, <1>7, KeepsOk DEF Keeps
<1>9. Ok(c, c1) /\ Base(c1)  BY <1>4, <1>5, <1>8, OkTrans DEF Ok
<1>10. t \in TimerState
  <2>1. c1.timer["no_energy"] \in TimerState  BY <1>8 DEF IsCtx, Deadlines
  <2> QED  BY <2>1 DEF TimerState
<1> HIDE DEF t
<1>11. Ok(c1, c2) /\ Same(c1, c2)
  <2>0. IsCtx(c1)  BY <1>9, <1>10 DEF Base, Ok
  <2>1. IsCtx(c2)
    <3>1. c2 = [f \in Fields |-> c2[f]]  BY <1>9, <1>10, <2>0 DEF IsCtx
    <3>2. Members(c2)  BY <1>9, <1>10, <2>0 DEF IsCtx, Members, Fields
    <3>3. c2.timer \in [Deadlines -> TimerState]
      BY <1>9, <1>10, <2>0 DEF IsCtx, Fields, TimerState
    <3> QED  BY <3>1, <3>2, <3>3 DEF IsCtx
  <2>2. Same(c1, c2)  BY <1>9, <1>10, <2>0 DEF Same, IsCtx, Fields
  <2>3. Base(c1)  BY <1>9, <1>10 DEF Ok
  <2> QED  BY <2>1, <2>2, <2>3, SameOk
<1> HIDE DEF c2
<1>12. Ok(c, c2) /\ Base(c2) /\ IsCtx(c2)
  BY <1>9, <1>11, OkTrans DEF Ok, Base
<1>13. duty \in DutyCycle  BY NominalType DEF DutyCycle
<1> HIDE DEF duty
<1>14. Ok(c2, w) /\ Same(c2, w)
  <2>0. IsCtx(c2)  BY <1>12 DEF Base, Ok
  <2>1. IsCtx(w)
    <3>1. w = [f \in Fields |-> w[f]]  BY <1>12, <2>0 DEF IsCtx
    <3>2. Members(w)  BY <1>12, <2>0 DEF IsCtx, Members, Fields
    <3>3. w.timer \in [Deadlines -> TimerState]
      BY <1>12, <2>0 DEF IsCtx, Fields, TimerState
    <3> QED  BY <3>1, <3>2, <3>3 DEF IsCtx
  <2>2. Same(c2, w)  BY <1>12, <2>0 DEF Same, IsCtx, Fields
  <2>3. Base(c2)  BY <1>12 DEF Ok
  <2> QED  BY <2>1, <2>2, <2>3, SameOk
<1> HIDE DEF w
<1>15. Ok(c2, c3) /\ Same(c2, c3)  BY <1>12, <1>14, OkRefl DEF Same
<1> HIDE DEF c3
<1>16. Ok(c, c3) /\ Base(c3)  BY <1>12, <1>15, OkTrans DEF Ok
<1>17. CASE PassCharging(c, init, env) \in {Go(c1, "StoppingCharging"),
                Go(c2, "StoppingCharging"), UpdatePwmIfChanged(c2, duty), c2}
  <2>1. /\ Ok(c1, Go(c1, "StoppingCharging"))
        /\ Ok(c2, Go(c2, "StoppingCharging"))
    BY <1>9, <1>12, GoOk DEF EvseState
  <2>2. Ok(c2, UpdatePwmIfChanged(c2, duty))
    BY <1>12, <1>13, UpdatePwmKeeps, KeepsOk
  <2> QED  BY <1>9, <1>12, <1>17, <2>1, <2>2, OkTrans
<1>18. CASE /\ ~StopsCharging(c1)
            /\ PassCharging(c, init, env) \in {UpdatePwmIfChanged(on, duty), on}
  <2>1. c1.shutdown_type = "None" /\ c1.flag_transaction_active
    BY <1>18 DEF StopsCharging, FatalError, StopReason
  <2>2. c1.last_shutdown_type = "None" /\ c1.current_state = "Charging"
    BY <1>4, <1>5, <1>7, <2>1 DEF SameButPower, Keeps, Same
  <2>3. /\ c3.shutdown_type = "None" /\ c3.last_shutdown_type = "None"
        /\ c3.flag_transaction_active /\ c3.current_state = "Charging"
    BY <1>11, <1>15, <2>1, <2>2 DEF Same
  <2>4. Ok(c3, on)  BY <1>16, <2>3, PowerOnOk
  <2> HIDE DEF on
  <2>5. Ok(c, on) /\ Base(on) /\ IsCtx(on)
    BY <1>16, <2>4, OkTrans DEF Ok, Base
  <2>6. Ok(on, UpdatePwmIfChanged(on, duty))
    BY <1>13, <2>5, UpdatePwmKeeps, KeepsOk
  <2> QED  BY <1>18, <2>5, <2>6, OkTrans
<1> QED  BY <1>1, <1>17, <1>18

\* ChargingPausedEV of a session with high level communication.
LEMMA PausedHlcOk ==
    ASSUME NEW c, Base(c)
    PROVE  Ok(c, PausedHlc(c))
<1> DEFINE restart == c.hlc_session_restarted_by_ev \/ BcbDetected(c)
           n == IF BcbDetected(c) THEN 0 ELSE c.bcb_count
           c1 == [c EXCEPT !.hlc_session_restarted_by_ev = FALSE,
                           !.bcb_count = n]
           r == [c1 EXCEPT !.hlc_charging_terminate_pause = "Unknown",
                           !.timer["retain"] = "off",
                           !.timer["wakeup"] = "armed"]
           c2 == IF restart THEN Go(r, "PrepareCharging") ELSE c1
<1>1. PausedHlc(c) \in {PilotOff(c2, "X1"), c2}  BY DEF PausedHlc
<1>2. IsCtx(c)  BY DEF Base
<1>3. n \in 0..BCB_PULSES  BY <1>2 DEF IsCtx, Members, BCB_PULSES
<1> HIDE DEF n
<1>4. Ok(c, c1) /\ Same(c, c1)
  <2>0. IsCtx(c)  BY <1>3 DEF Base, Ok
  <2>1. IsCtx(c1)
    <3>1. c1 = [f \in Fields |-> c1[f]]  BY <1>3, <2>0 DEF IsCtx
    <3>2. Members(c1)  BY <1>3, <2>0 DEF IsCtx, Members, Fields
    <3>3. c1.timer \in [Deadlines -> TimerState]
      BY <1>3, <2>0 DEF IsCtx, Fields, TimerState
    <3> QED  BY <3>1, <3>2, <3>3 DEF IsCtx
  <2>2. Same(c, c1)  BY <1>3, <2>0 DEF Same, IsCtx, Fields
  <2>3. Base(c)  BY <1>3 DEF Ok
  <2> QED  BY <2>1, <2>2, <2>3, SameOk
<1> HIDE DEF c1
<1>5. Base(c1)  BY <1>4 DEF Ok
<1>6. Ok(c1, r) /\ Same(c1, r)
  <2>0. IsCtx(c1)  BY <1>5 DEF Base, Ok
  <2>1. IsCtx(r)
    <3>1. r = [f \in Fields |-> r[f]]  BY <1>5, <2>0 DEF IsCtx
    <3>2. Members(r)
      BY <1>5, <2>0 DEF IsCtx, Members, Fields, HlcTerminatePause
    <3>3. r.timer \in [Deadlines -> TimerState]
      BY <1>5, <2>0 DEF IsCtx, Fields, TimerState
    <3> QED  BY <3>1, <3>2, <3>3 DEF IsCtx
  <2>2. Same(c1, r)  BY <1>5, <2>0 DEF Same, IsCtx, Fields
  <2>3. Base(c1)  BY <1>5 DEF Ok
  <2> QED  BY <2>1, <2>2, <2>3, SameOk
<1> HIDE DEF r
<1>7. Ok(r, Go(r, "PrepareCharging"))  BY <1>6, GoOk DEF Ok, EvseState
<1>8. Ok(c, c2)  BY <1>4, <1>6, <1>7, OkTrans
<1> HIDE DEF c2
<1>9. Base(c2) /\ IsCtx(c2)  BY <1>8 DEF Ok, Base
<1>10. Ok(c2, PilotOff(c2, "X1"))  BY <1>9, PilotOffKeeps, KeepsOk
<1> QED  BY <1>1, <1>8, <1>10, OkTrans

\* The pass in ChargingPausedEV.
LEMMA PassChargingPausedEVOk ==
    ASSUME NEW c, Base(c), NEW env
    PROVE  Ok(c, PassChargingPausedEV(c, env))
<1>1. PassChargingPausedEV(c, env)
        \in {Go(c, "StoppingCharging"), PausedHlc(c),
             Go(c, "ChargingPausedEVSE"),
             UpdatePwmIfChanged(c, NominalDuty(c)), c}
  BY DEF PassChargingPausedEV
<1>2. IsCtx(c)  BY DEF Base
<1>3. Ok(c, Go(c, "StoppingCharging")) /\ Ok(c, Go(c, "ChargingPausedEVSE"))
  BY GoOk DEF EvseState
<1>4. Ok(c, UpdatePwmIfChanged(c, NominalDuty(c)))
  BY <1>2, NominalType, UpdatePwmKeeps, KeepsOk
<1> QED  BY <1>1, <1>3, <1>4, PausedHlcOk, OkRefl

\* A fault on the pilot.
LEMMA SignalFaultKeeps ==
    ASSUME NEW c, IsCtx(c)
    PROVE  Keeps(c, SignalFault(c))
<1> DEFINE c1 == IF EnteredFatalErrorState(c) THEN PilotOff(c, "F") ELSE c
<1>1. SignalFault(c) \in {c, PilotOff(c1, "X1"), c1}  BY DEF SignalFault
<1>2. Keeps(c, c1)  BY PilotOffKeeps, KeepsRefl
<1> HIDE DEF c1
<1>3. Keeps(c1, PilotOff(c1, "X1"))  BY <1>2, PilotOffKeeps DEF Keeps
<1> QED  BY <1>1, <1>2, <1>3, KeepsTrans, KeepsRefl

\* ChargingPausedEVSE is left for charging again.
LEMMA ResumeFromPauseOk ==
    ASSUME NEW c, Base(c)
    PROVE  Ok(c, ResumeFromPause(c))
<1> DEFINE r == ResumeEvsePauseMarker(c)
<1>1. ResumeFromPause(c) \in {Go(r, "PrepareCharging"),
            Go(c, "ChargingPausedEV"), c, Go(c, "PrepareCharging")}
  BY DEF ResumeFromPause
<1>2. Ok(c, r)  BY ResumeMarkerOk
<1> HIDE DEF r
<1>3. /\ Ok(r, Go(r, "PrepareCharging")) /\ Ok(c, Go(c, "ChargingPausedEV"))
      /\ Ok(c, Go(c, "PrepareCharging"))
  BY <1>2, GoOk DEF Ok, EvseState
<1> QED  BY <1>1, <1>2, <1>3, OkTrans, OkRefl

\* The pass in ChargingPausedEVSE.
LEMMA PassChargingPausedEVSEOk ==
    ASSUME NEW c, Base(c), NEW init \in BOOLEAN
    PROVE  Ok(c, PassChargingPausedEVSE(c, init))
<1> DEFINE c0 == IF init /\ (~c.hlc_charging_active \/ ~c.flag_transaction_active)
                 THEN PilotOff(c, "X1") ELSE c
           f == SignalFault(c0)
           c1 == StopOnFatalError(f)
<1>1. PassChargingPausedEVSE(c, init)
        \in {Go(c0, "StoppingCharging"), c1, ResumeFromPause(c1)}
  BY DEF PassChargingPausedEVSE
<1>2. IsCtx(c)  BY DEF Base
<1>3. Keeps(c, c0)  BY <1>2, PilotOffKeeps, KeepsRefl
<1> HIDE DEF c0
<1>4. Ok(c, c0) /\ Base(c0) /\ IsCtx(c0)  BY <1>3, KeepsOk DEF Ok, Keeps
<1>5. Ok(c0, f)  BY <1>4, SignalFaultKeeps, KeepsOk
<1> HIDE DEF f
<1>6. Ok(f, c1)  BY <1>5, StopOnFatalErrorOk DEF Ok
<1> HIDE DEF c1
<1>7. Ok(c, c1) /\ Base(c1)  BY <1>4, <1>5, <1>6, OkTrans DEF Ok
<1>8. Ok(c1, ResumeFromPause(c1)) /\ Ok(c0, Go(c0, "StoppingCharging"))
  BY <1>4, <1>7, ResumeFromPauseOk, GoOk DEF EvseState
<1> QED  BY <1>1, <1>4, <1>7, <1>8, OkTrans

\* StoppingCharging as it is entered.
LEMMA EnterStoppingOk ==
    ASSUME NEW c, Base(c)
    PROVE  Ok(c, EnterStopping(c))
<1> DEFINE pause == c.flag_paused_by_evse \/ c.d20_pause_confirmed
           d20 == c.hlc_charging_active /\ c.hlc_d20_active /\ pause
           ramp == d20 /\ c.hlc_d20_dynamic_mode
           told == d20 /\ ~c.hlc_d20_dynamic_mode
           b == BcbReset(c)
           c1 == [b EXCEPT
                 !.hlc_dc_renegotiation = FALSE, !.legacy_wakeup_done = FALSE,
                 !.d20_pause_requested = FALSE, !.d20_pause_confirmed = FALSE,
                 !.stopping_for_evse_pause = pause,
                 !.d20_pause_ramp = ramp,
                 !.d20_pause_notified = told]
<1>1. EnterStopping(c) \in {c1, PilotOff(c1, "X1")}  BY DEF EnterStopping
<1>2. IsCtx(c)  BY DEF Base
<1>3. pause \in BOOLEAN /\ ramp \in BOOLEAN /\ told \in BOOLEAN  OBVIOUS
<1> HIDE DEF pause, ramp, told
<1>4. Ok(c, b) /\ IsCtx(b)  BY <1>2, BcbKeeps, KeepsOk DEF Keeps
<1> HIDE DEF b
<1>5. Ok(b, c1) /\ Same(b, c1)
  <2>0. IsCtx(b)  BY <1>3, <1>4 DEF Base, Ok
  <2>1. IsCtx(c1)
    <3>1. c1 = [f \in Fields |-> c1[f]]  BY <1>3, <1>4, <2>0 DEF IsCtx
    <3>2. Members(c1)  BY <1>3, <1>4, <2>0 DEF IsCtx, Members, Fields
    <3>3. c1.timer \in [Deadlines -> TimerState]
      BY <1>3, <1>4, <2>0 DEF IsCtx, Fields, TimerState
    <3> QED  BY <3>1, <3>2, <3>3 DEF IsCtx
  <2>2. Same(b, c1)  BY <1>3, <1>4, <2>0 DEF Same, IsCtx, Fields
  <2>3. Base(b)  BY <1>3, <1>4 DEF Ok
  <2> QED  BY <2>1, <2>2, <2>3, SameOk
<1> HIDE DEF c1
<1>6. Ok(c, c1) /\ IsCtx(c1) /\ Base(c1)  BY <1>4, <1>5, OkTrans DEF Ok, Base
<1>7. Ok(c1, PilotOff(c1, "X1"))  BY <1>6, PilotOffKeeps, KeepsOk
<1> QED  BY <1>1, <1>6, <1>7, OkTrans

\* The pass in StoppingCharging.
LEMMA PassStoppingChargingOk ==
    ASSUME NEW c, Base(c), NEW init \in BOOLEAN
    PROVE  Ok(c, PassStoppingCharging(c, init))
<1> DEFINE c1 == IF init THEN EnterStopping(c) ELSE c
           notify == c1.d20_pause_ramp /\ ~c1.d20_pause_notified /\ ~c1.dc_current
           k == [c1 EXCEPT !.d20_pause_notified = TRUE, !.age = 0]
           c2 == IF notify THEN k ELSE c1
           c3 == IF c2.age >= 1 THEN Allow(c2, FALSE) ELSE c2
           byUs == ~PowerAvailable(c3) \/ c3.flag_paused_by_evse
                       \/ c3.stopping_for_evse_pause
           c4 == IF byUs THEN c3 ELSE StopOnFatalError(c3)
           paused == c4.hlc_charging_active
           e == [c4 EXCEPT !.hlc_session_paused_by_evse = paused]
<1>1. PassStoppingCharging(c, init)
        \in {c3, Go(c3, "Finished"), Go(e, "ChargingPausedEVSE"),
             Go(c4, "ChargingPausedEV")}
  BY DEF PassStoppingCharging, Allow
<1>2. Ok(c, c1)  BY EnterStoppingOk, OkRefl
<1> HIDE DEF c1
<1>3. Base(c1)  BY <1>2 DEF Ok
<1>4. Ok(c1, k) /\ Same(c1, k)
  <2>0. IsCtx(c1)  BY <1>3 DEF Base, Ok
  <2>1. IsCtx(k)
    <3>1. k = [f \in Fields |-> k[f]]  BY <1>3, <2>0 DEF IsCtx
    <3>2. Members(k)  BY <1>3, <2>0 DEF IsCtx, Members, Fields
    <3>3. k.timer \in [Deadlines -> TimerState]
      BY <1>3, <2>0 DEF IsCtx, Fields, TimerState
    <3> QED  BY <3>1, <3>2, <3>3 DEF IsCtx
  <2>2. Same(c1, k)  BY <1>3, <2>0 DEF Same, IsCtx, Fields
  <2>3. Base(c1)  BY <1>3 DEF Ok
  <2> QED  BY <2>1, <2>2, <2>3, SameOk
<1> HIDE DEF k
<1>5. Ok(c, c2)  BY <1>2, <1>4, OkTrans
<1> HIDE DEF c2
<1>6. Ok(c2, c3)  BY <1>5, PowerOffOk, OkRefl DEF Ok
<1> HIDE DEF c3
<1>7. Ok(c, c3) /\ Base(c3)  BY <1>5, <1>6, OkTrans DEF Ok
<1>8. Ok(c3, c4)  BY <1>7, StopOnFatalErrorOk, OkRefl
<1> HIDE DEF c4
<1>9. Ok(c, c4) /\ Base(c4) /\ paused \in BOOLEAN
  BY <1>7, <1>8, OkTrans DEF Ok, Base, IsCtx, Members
<1> HIDE DEF paused
<1>10. Ok(c4, e) /\ Same(c4, e)
  <2>0. IsCtx(c4)  BY <1>9 DEF Base, Ok
  <2>1. IsCtx(e)
    <3>1. e = [f \in Fields |-> e[f]]  BY <1>9, <2>0 DEF IsCtx
    <3>2. Members(e)  BY <1>9, <2>0 DEF IsCtx, Members, Fields
    <3>3. e.timer \in [Deadlines -> TimerState]
      BY <1>9, <2>0 DEF IsCtx, Fields, TimerState
    <3> QED  BY <3>1, <3>2, <3>3 DEF IsCtx
  <2>2. Same(c4, e)  BY <1>9, <2>0 DEF Same, IsCtx, Fields
  <2>3. Base(c4)  BY <1>9 DEF Ok
  <2> QED  BY <2>1, <2>2, <2>3, SameOk
<1> HIDE DEF e
<1>11. Ok(c, e) /\ Base(e)  BY <1>9, <1>10, OkTrans DEF Ok
<1>12. /\ Ok(c3, Go(c3, "Finished")) /\ Ok(e, Go(e, "ChargingPausedEVSE"))
       /\ Ok(c4, Go(c4, "ChargingPausedEV"))
  BY <1>7, <1>9, <1>11, GoOk DEF EvseState
<1> QED  BY <1>1, <1>7, <1>9, <1>11, <1>12, OkTrans

\* Finished ends the transaction before it ends the session.
LEMMA PassFinishedOk ==
    ASSUME NEW c, Base(c), c.current_state = "Finished", NEW init \in BOOLEAN,
           ~init => AtRest(c)
    PROVE  /\ Ok(c, PassFinished(c, init))
           /\ PassFinished(c, init).current_state = "Finished"
                => AtRest(PassFinished(c, init))
<1> DEFINE c0 == IF init /\ c.flag_transaction_active THEN StopTransaction(c)
                                                      ELSE c
           c1 == IF init THEN Allow(c0, FALSE) ELSE c0
           s == StopSession(c1)
           to == IF c1.flag_disable_requested THEN "Disabled" ELSE "Idle"
<1>1. PassFinished(c, init) \in {c1, Go(s, to)}
  BY DEF PassFinished, Allow
<1>2. IsCtx(c)  BY DEF Base
<1>3. /\ IsCtx(c0) /\ SameButHeard(c, c0) /\ ~c0.flag_transaction_active
      /\ ~c0.heard.transaction /\ c0.heard.odd = c.heard.odd
  <2>1. CASE init /\ c.flag_transaction_active
    <3>1. c.heard.transaction  BY <2>1 DEF Base, Listener
    <3> QED  BY <1>2, <2>1, <3>1, StopTransactionFields
  <2>2. CASE ~(init /\ c.flag_transaction_active)
    BY <1>2, <2>2 DEF SameButHeard, AtRest, Base, Listener
  <2> QED  BY <2>1, <2>2
<1>4. ~init => ~c0.allow_power_on  BY DEF AtRest
<1> HIDE DEF c0
<1>5. PICK off \in BOOLEAN : off = FALSE  OBVIOUS
<1>6. /\ IsCtx(c1) /\ ~c1.allow_power_on
      /\ c1.last_shutdown_type = c0.last_shutdown_type
      /\ SameButPower(c0, c1)
  <2>1. CASE init
    <3>1. c1 = Allow(c0, off)  BY <1>5, <2>1
    <3> HIDE DEF c1
    <3>2. /\ IsCtx(c1) /\ c1.allow_power_on = off
          /\ c1.last_shutdown_type = c0.last_shutdown_type
          /\ SameButPower(c0, c1)
      BY <1>3, <3>1, AllowFields
    <3> QED  BY <1>5, <3>2
  <2>2. CASE ~init  BY <1>3, <1>4, <2>2 DEF SameButPower
  <2> QED  BY <2>1, <2>2
<1> HIDE DEF c1
<1>7. /\ AtRest(c1) /\ ~c1.heard.transaction
      /\ c1.heard.transaction = c1.flag_transaction_active
  BY <1>3, <1>6 DEF SameButPower, AtRest, IsCtx, Members
<1>8. Base(c1)
  BY <1>3, <1>6, <1>7
     DEF SameButPower, SameButHeard, Base, Permitted, AtRest, Returns,
          Listener
<1>9. Ok(c, c1)
  BY <1>3, <1>6, <1>8 DEF Ok, SameButPower, SameButHeard
<1>10. /\ Ok(c1, s) /\ SameButHeard(c1, s)
       /\ s.flag_transaction_active = c1.flag_transaction_active
  BY <1>7, <1>8, StopSessionOk
<1> HIDE DEF s
<1>11. AtRest(s) /\ Base(s) /\ IsCtx(s)
  BY <1>7, <1>10 DEF SameButHeard, AtRest, Ok, Base
<1>12. to \in {"Idle", "Disabled"}  OBVIOUS
<1> HIDE DEF to
<1>13. Ok(s, Go(s, to))  BY <1>11, <1>12, GoRestOk
<1>14. Go(s, to).current_state # "Finished"
  BY <1>11, <1>12, GoFields DEF EvseState
<1> QED  BY <1>1, <1>7, <1>9, <1>10, <1>13, <1>14, OkTrans

-----------------------------------------------------------------------------
\* A whole iteration.

\* A reinit asked for meanwhile is taken up.
LEMMA PendingReinitOk ==
    ASSUME NEW c, Base(c)
    PROVE  /\ Ok(c, PendingReinit(c))
           /\ PendingReinit(c).current_state \in {"Idle", "Finished"}
                => Keeps(c, PendingReinit(c))
<1> DEFINE c1 == IF c.current_state = "Charging"
                 THEN Go(c, "StoppingCharging") ELSE c
           c2 == [c1 EXCEPT !.reinit_running = TRUE]
           e == [c2 EXCEPT !.reinit_requested = FALSE,
                           !.t_step_X1_until_unmatched = FALSE]
<1>1. PendingReinit(c) \in {c, c2, Go(e, "Reinit")}  BY DEF PendingReinit
<1>2. IsCtx(c)  BY DEF Base
<1>3. Ok(c, c1) /\ (c1 = c \/ c1.current_state = "StoppingCharging")
  BY <1>2, GoOk, GoFields, OkRefl DEF EvseState
<1> HIDE DEF c1
<1>4. Base(c1) /\ IsCtx(c1)  BY <1>3 DEF Ok, Base
<1>5. Keeps(c1, c2)
  <2>1. IsCtx(c2)
    <3>1. c2 = [f \in Fields |-> c2[f]]  BY <1>4 DEF IsCtx
    <3>2. Members(c2)  BY <1>4 DEF IsCtx, Members, Fields
    <3>3. c2.timer \in [Deadlines -> TimerState]
      BY <1>4 DEF IsCtx, Fields, TimerState
    <3> QED  BY <3>1, <3>2, <3>3 DEF IsCtx
  <2>2. Same(c1, c2)  BY <1>4 DEF Same, IsCtx, Fields
  <2>3. SameSession(c1, c2)  BY <1>4 DEF SameSession, IsCtx, Fields
  <2> QED  BY <2>1, <2>2, <2>3 DEF Keeps
<1> HIDE DEF c2
<1>6. Ok(c1, c2) /\ IsCtx(c2)  BY <1>4, <1>5, KeepsOk DEF Keeps
<1>7. Ok(c, c2) /\ Base(c2)  BY <1>3, <1>6, OkTrans DEF Ok
<1>8. c2.current_state \in {"Idle", "Finished"} => Keeps(c, c2)
  BY <1>3, <1>5 DEF Keeps, Same
<1>9. IsCtx(e)
  <2>1. e = [f \in Fields |-> e[f]]  BY <1>6 DEF IsCtx
  <2>2. Members(e)  BY <1>6 DEF IsCtx, Members, Fields
  <2>3. e.timer \in [Deadlines -> TimerState]
    BY <1>6 DEF IsCtx, Fields, TimerState
  <2> QED  BY <2>1, <2>2, <2>3 DEF IsCtx
<1>10. /\ e.t_step_EF_return_state = c2.t_step_EF_return_state
       /\ ~e.t_step_X1_until_unmatched
       /\ e.current_state = c2.current_state
       /\ e.last_state_detect_state_change = c2.last_state_detect_state_change
       /\ e.shutdown_type = c2.shutdown_type
       /\ e.last_shutdown_type = c2.last_shutdown_type
       /\ e.allow_power_on = c2.allow_power_on
       /\ e.flag_transaction_active = c2.flag_transaction_active
       /\ e.heard = c2.heard
  BY <1>6 DEF IsCtx, Fields
<1> HIDE DEF e
<1>11. Base(e)
  BY <1>7, <1>9, <1>10 DEF Base, Permitted, AtRest, Returns, Listener
<1>12. Ok(c2, e)  BY <1>10, <1>11 DEF Ok
<1>13. Ok(e, Go(e, "Reinit"))  BY <1>11, GoOk DEF EvseState
<1>14. Go(e, "Reinit").current_state = "Reinit"
  BY <1>9, GoFields DEF EvseState
<1>15. Ok(c, Go(e, "Reinit"))  BY <1>7, <1>12, <1>13, OkTrans
<1> QED  BY <1>1, <1>2, <1>7, <1>8, <1>14, <1>15, OkRefl, KeepsRefl

\* The head of the loop notes the state.
LEMMA BeginOk ==
    ASSUME NEW c, Base(c), NEW init \in BOOLEAN
    PROVE  /\ Base(Begin(c, init))
           /\ Begin(c, init).last_state_detect_state_change = c.current_state
           /\ Begin(c, init).current_state = c.current_state
           /\ Begin(c, init).shutdown_type = c.shutdown_type
           /\ Begin(c, init).allow_power_on = c.allow_power_on
           /\ AtRest(c) => AtRest(Begin(c, init))
           /\ Clean(c) => Clean(Begin(c, init))
<1> DEFINE age == IF init THEN 0 ELSE c.age
           left_ == c.last_state_detect_state_change = "SwitchPhases"
                      /\ c.current_state # "SwitchPhases"
           ongoing == c.switch_phases_ongoing /\ ~left_
           c1 == [c EXCEPT !.last_state_detect_state_change = c.current_state,
                           !.detected_shutdown_type = c.shutdown_type,
                           !.age = age,
                           !.switch_phases_ongoing = ongoing]
           c2 == [c1 EXCEPT !.timer["retain"] = "off"]
           d == Begin(c, init)
<1>1. d \in {c1, PilotOff(c2, "X1"), c2}  BY DEF Begin
<1>2. IsCtx(c)  BY DEF Base
<1>3. /\ age \in 0..2 /\ ongoing \in BOOLEAN /\ c.current_state \in EvseState
      /\ c.shutdown_type \in ShutdownType
  BY <1>2 DEF IsCtx, Members
<1> HIDE DEF age, ongoing, d
<1>4. IsCtx(c1)
  <2>1. c1 = [f \in Fields |-> c1[f]]  BY <1>2, <1>3 DEF IsCtx
  <2>2. Members(c1)  BY <1>2, <1>3 DEF IsCtx, Members, Fields
  <2>3. c1.timer \in [Deadlines -> TimerState]
    BY <1>2, <1>3 DEF IsCtx, Fields, TimerState
  <2> QED  BY <2>1, <2>2, <2>3 DEF IsCtx
<1>5. /\ c1.last_state_detect_state_change = c.current_state
      /\ c1.current_state = c.current_state
      /\ c1.shutdown_type = c.shutdown_type
      /\ c1.last_shutdown_type = c.last_shutdown_type
      /\ c1.allow_power_on = c.allow_power_on
      /\ c1.flag_transaction_active = c.flag_transaction_active
      /\ c1.heard = c.heard
      /\ c1.t_step_EF_return_state = c.t_step_EF_return_state
      /\ c1.t_step_X1_until_unmatched = c.t_step_X1_until_unmatched
      /\ SameSession(c, c1)
  BY <1>2 DEF IsCtx, Fields, SameSession
<1> HIDE DEF c1
<1>6. Base(c1)
  BY <1>4, <1>5 DEF Base, Permitted, AtRest, Returns, Listener
<1>7. Ok(c1, c2) /\ Same(c1, c2)
  <2>0. IsCtx(c1)  BY <1>6 DEF Base, Ok
  <2>1. IsCtx(c2)
    <3>1. c2 = [f \in Fields |-> c2[f]]  BY <1>6, <2>0 DEF IsCtx
    <3>2. Members(c2)  BY <1>6, <2>0 DEF IsCtx, Members, Fields
    <3>3. c2.timer \in [Deadlines -> TimerState]
      BY <1>6, <2>0 DEF IsCtx, Fields, TimerState
    <3> QED  BY <3>1, <3>2, <3>3 DEF IsCtx
  <2>2. Same(c1, c2)  BY <1>6, <2>0 DEF Same, IsCtx, Fields
  <2>3. Base(c1)  BY <1>6 DEF Ok
  <2> QED  BY <2>1, <2>2, <2>3, SameOk
<1>8. /\ c2.hlc_charging_terminate_pause = c1.hlc_charging_terminate_pause
      /\ c2.timer["retain"] = "off"
      /\ c2.hlc_failed = c1.hlc_failed
      /\ c2.slac_retries = c1.slac_retries
  BY <1>4 DEF IsCtx, Fields, Deadlines
<1> HIDE DEF c2
<1>9. Base(c2) /\ IsCtx(c2)  BY <1>7 DEF Ok, Base
<1>10. Keeps(c2, PilotOff(c2, "X1"))  BY <1>9, PilotOffKeeps
<1>11. Ok(c1, d) /\ Same(c1, d)
  <2>1. Ok(c1, c1) /\ Same(c1, c1)  BY <1>6, OkRefl DEF Same
  <2>2. Ok(c2, PilotOff(c2, "X1"))  BY <1>9, <1>10, KeepsOk
  <2>3. Ok(c1, PilotOff(c2, "X1")) /\ Same(c1, PilotOff(c2, "X1"))
    BY <1>7, <1>10, <2>2, OkTrans DEF Keeps, Same
  <2> QED  BY <1>1, <1>7, <2>1, <2>3
<1>12. Clean(c) => Clean(d)
  BY <1>1, <1>5, <1>8, <1>10 DEF Clean, SameSession, Keeps
<1>13. Base(d)  BY <1>11 DEF Ok
<1> QED  BY <1>5, <1>11, <1>12, <1>13 DEF Same, AtRest, d

\* Every iteration of run_state_machine's loop preserves the invariant, and
\* gives the permission only when no error is present.
LEMMA PassOk ==
    ASSUME NEW x, Good(x), NEW env
    PROVE  /\ Good(Pass(x, env))
           /\ Pass(x, env).shutdown_type = x.shutdown_type
           /\ Pass(x, env).allow_power_on
                => x.allow_power_on \/ x.shutdown_type = "None"
<1> DEFINE c0 == PendingReinit(x)
           init == \/ c0.last_state_detect_state_change # c0.current_state
                   \/ c0.detected_shutdown_type # c0.shutdown_type
           c == Begin(c0, init)
           s == c.current_state
           d == Pass(x, env)
<1>1. Base(x)  BY DEF Good
<1>2. Ok(x, c0) /\ (c0.current_state \in {"Idle", "Finished"} => Keeps(x, c0))
  BY <1>1, PendingReinitOk
<1>3. /\ s = "Disabled" => d = PassDisabled(c, init)
      /\ s = "Idle" => d = PassIdle(c, init)
      /\ s = "WaitingForAuthentication" => d = PassWaiting(c, init, env)
      /\ s = "SwitchPhases" => d = PassSwitchPhases(c, init)
      /\ s = "T_step_EF" => d = PassTStepEF(c, init)
      /\ s = "T_step_X1" => d = PassTStepX1(c, init)
      /\ s = "Reinit" => d = PassReinit(c, init)
      /\ s = "PrepareCharging" => d = PassPrepareCharging(c, init)
      /\ s = "Charging" => d = PassCharging(c, init, env)
      /\ s = "ChargingPausedEV" => d = PassChargingPausedEV(c, env)
      /\ s = "ChargingPausedEVSE" => d = PassChargingPausedEVSE(c, init)
      /\ s = "StoppingCharging" => d = PassStoppingCharging(c, init)
      /\ s = "Finished" => d = PassFinished(c, init)
  BY DEF Pass
<1>4. init \in BOOLEAN  OBVIOUS
<1>5. ~init => c0.last_state_detect_state_change = c0.current_state  OBVIOUS
<1> HIDE DEF c0, init, d
<1>6. /\ c0.last_state_detect_state_change = x.last_state_detect_state_change
      /\ c0.shutdown_type = x.shutdown_type /\ Base(c0)
      /\ c0.allow_power_on => x.allow_power_on \/ x.shutdown_type = "None"
  BY <1>2 DEF Ok
<1>7. ~init /\ c0.current_state = "Finished" => AtRest(c0)
  BY <1>2, <1>5, <1>6 DEF Good, Keeps, Same, AtRest
<1>8. ~init /\ c0.current_state = "Idle" => Clean(c0)
  BY <1>2, <1>5, <1>6 DEF Good, Keeps, Same, SameSession, Clean
<1>9. /\ Base(c) /\ c.last_state_detect_state_change = c0.current_state
      /\ s = c0.current_state /\ c.shutdown_type = c0.shutdown_type
      /\ c.allow_power_on = c0.allow_power_on
      /\ AtRest(c0) => AtRest(c)
      /\ Clean(c0) => Clean(c)
  BY <1>4, <1>6, BeginOk
<1> HIDE DEF c
<1>10. s \in EvseState  BY <1>9 DEF Base, IsCtx, Members
<1>11. /\ Ok(c, d)
       /\ s = "Finished" /\ d.current_state = "Finished" => AtRest(d)
       /\ s = "Idle" /\ d.current_state = "Idle" => Clean(d)
  <2>1. CASE s = "Disabled"  BY <1>3, <1>4, <1>9, <2>1, PassDisabledOk
  <2>2. CASE s = "Idle"  BY <1>3, <1>4, <1>8, <1>9, <2>2, PassIdleOk
  <2>3. CASE s = "WaitingForAuthentication"
    BY <1>3, <1>4, <1>9, <2>3, PassWaitingOk
  <2>4. CASE s = "SwitchPhases"  BY <1>3, <1>4, <1>9, <2>4, PassSwitchPhasesOk
  <2>5. CASE s = "T_step_EF"  BY <1>3, <1>4, <1>9, <2>5, PassTStepEFOk
  <2>6. CASE s = "T_step_X1"  BY <1>3, <1>4, <1>9, <2>6, PassTStepX1Ok
  <2>7. CASE s = "Reinit"  BY <1>3, <1>4, <1>9, <2>7, PassReinitOk
  <2>8. CASE s = "PrepareCharging"
    BY <1>3, <1>4, <1>9, <2>8, PassPrepareChargingOk
  <2>9. CASE s = "Charging"  BY <1>3, <1>4, <1>9, <2>9, PassChargingOk
  <2>10. CASE s = "ChargingPausedEV"
    BY <1>3, <1>4, <1>9, <2>10, PassChargingPausedEVOk
  <2>11. CASE s = "ChargingPausedEVSE"
    BY <1>3, <1>4, <1>9, <2>11, PassChargingPausedEVSEOk
  <2>12. CASE s = "StoppingCharging"
    BY <1>3, <1>4, <1>9, <2>12, PassStoppingChargingOk
  <2>13. CASE s = "Finished"  BY <1>3, <1>4, <1>7, <1>9, <2>13, PassFinishedOk
  <2> QED
    BY <1>10, <2>1, <2>2, <2>3, <2>4, <2>5, <2>6, <2>7, <2>8, <2>9, <2>10,
         <2>11, <2>12, <2>13 DEF EvseState
<1>12. Good(d)  BY <1>9, <1>11 DEF Good, Ok
<1> QED  BY <1>6, <1>9, <1>11, <1>12 DEF Ok, d

-----------------------------------------------------------------------------
\* The calls and events between two iterations.

\* What every one of them keeps; none of them gives the permission.
Fine(c, d) ==
    /\ Good(d)
    /\ d.last_state_detect_state_change = c.last_state_detect_state_change
    /\ d.current_state = "Disabled" => c.current_state = "Disabled"
    /\ d.allow_power_on => c.allow_power_on

\* Two parts of a call, one after the other.
LEMMA FineTrans ==
    ASSUME NEW c, NEW d, NEW e, Fine(c, d), Fine(d, e)
    PROVE  Fine(c, e)
BY DEF Fine

\* A call that does nothing.
LEMMA FineRefl ==
    ASSUME NEW c, Good(c)
    PROVE  Fine(c, c)
BY DEF Fine

\* The members of the argument stay, and an Idle that was clean stays clean.
LEMMA SameFine ==
    ASSUME NEW c, NEW d, Good(c), IsCtx(d), Same(c, d),
           c.current_state = "Idle" /\ Clean(c) => Clean(d)
    PROVE  Fine(c, d)
<1>1. Ok(c, d)  BY SameOk DEF Good
<1>2. Base(d)  BY <1>1 DEF Ok
<1>3. Good(d)  BY <1>2 DEF Good, Same, AtRest
<1> QED  BY <1>3 DEF Fine, Same

\* A call that leaves the session and the state alone.
LEMMA KeepsFine ==
    ASSUME NEW c, NEW d, Good(c), Keeps(c, d)
    PROVE  Fine(c, d)
<1>1. IsCtx(d) /\ Same(c, d) /\ (Clean(c) => Clean(d))
  BY DEF Keeps, SameSession, Clean
<1> QED  BY <1>1, SameFine

\* The permission may go.
LEMMA DropFine ==
    ASSUME NEW c, NEW d, Good(c), IsCtx(d), SameButPower(c, d),
           d.last_shutdown_type = c.last_shutdown_type,
           d.allow_power_on => c.allow_power_on,
           c.current_state = "Idle" /\ Clean(c) => Clean(d)
    PROVE  Fine(c, d)
<1>1. Base(c)  BY DEF Good
<1>2. Base(d)
  BY <1>1 DEF SameButPower, Base, Permitted, AtRest, Returns, Listener
<1>3. Good(d)  BY <1>2 DEF Good, SameButPower, AtRest
<1> QED  BY <1>3 DEF Fine, SameButPower

\* A state is entered that is neither the end of a session nor Idle.
LEMMA GoFine ==
    ASSUME NEW c, Good(c),
           NEW s \in {"WaitingForAuthentication", "PrepareCharging", "Charging",
                      "ChargingPausedEVSE", "SwitchPhases"}
    PROVE  Fine(c, Go(c, s))
<1>1. Base(c) /\ IsCtx(c)  BY DEF Good, Base
<1>2. s \in EvseState \ {"Idle", "Disabled", "T_step_EF", "T_step_X1"}
  BY DEF EvseState
<1>3. Base(Go(c, s))  BY <1>1, <1>2, GoOk DEF Ok
<1>4. /\ Go(c, s).current_state = s
      /\ Go(c, s).last_state_detect_state_change
            = c.last_state_detect_state_change
      /\ Go(c, s).allow_power_on = c.allow_power_on
  BY <1>1, <1>2, GoFields
<1>5. Good(Go(c, s))  BY <1>3, <1>4 DEF Good
<1> QED  BY <1>4, <1>5 DEF Fine

\* The same from a call.
LEMMA GoStepFine ==
    ASSUME NEW c, Good(c), NEW s \in {"T_step_EF", "T_step_X1"},
           c.t_step_EF_return_state \in ReturnStates
    PROVE  Fine(c, Go(c, s))
<1>1. Base(c) /\ IsCtx(c) /\ s \in EvseState  BY DEF Good, Base, EvseState
<1>2. Base(Go(c, s))  BY <1>1, GoStepOk DEF Ok
<1>3. /\ Go(c, s).current_state = s
      /\ Go(c, s).last_state_detect_state_change
            = c.last_state_detect_state_change
      /\ Go(c, s).allow_power_on = c.allow_power_on
  BY <1>1, GoFields
<1>4. Good(Go(c, s))  BY <1>2, <1>3 DEF Good
<1> QED  BY <1>3, <1>4 DEF Fine

\* process_cp_events_independent
LEMMA IndependentEventKeeps ==
    ASSUME NEW c, IsCtx(c), NEW e
    PROVE  Keeps(c, IndependentEvent(c, e))
<1> DEFINE a == [c EXCEPT !.iec_allow_close_contactor = FALSE]
           b == [c EXCEPT !.flag_ev_plugged_in = FALSE]
           o == [c EXCEPT !.contactor_open = TRUE]
           p == [c EXCEPT !.contactor_open = FALSE]
<1>1. IndependentEvent(c, e) \in {a, b, o, p, c}  BY DEF IndependentEvent
<1>2. Keeps(c, a)
  <2>1. IsCtx(a)
    <3>1. a = [f \in Fields |-> a[f]]  BY DEF IsCtx
    <3>2. Members(a)  BY DEF IsCtx, Members, Fields
    <3>3. a.timer \in [Deadlines -> TimerState]
      BY DEF IsCtx, Fields, TimerState
    <3> QED  BY <3>1, <3>2, <3>3 DEF IsCtx
  <2>2. Same(c, a)  BY DEF Same, IsCtx, Fields
  <2>3. SameSession(c, a)  BY DEF SameSession, IsCtx, Fields
  <2> QED  BY <2>1, <2>2, <2>3 DEF Keeps
<1>3. Keeps(c, b)
  <2>1. IsCtx(b)
    <3>1. b = [f \in Fields |-> b[f]]  BY DEF IsCtx
    <3>2. Members(b)  BY DEF IsCtx, Members, Fields
    <3>3. b.timer \in [Deadlines -> TimerState]
      BY DEF IsCtx, Fields, TimerState
    <3> QED  BY <3>1, <3>2, <3>3 DEF IsCtx
  <2>2. Same(c, b)  BY DEF Same, IsCtx, Fields
  <2>3. SameSession(c, b)  BY DEF SameSession, IsCtx, Fields
  <2> QED  BY <2>1, <2>2, <2>3 DEF Keeps
<1>4. Keeps(c, o)
  <2>1. IsCtx(o)
    <3>1. o = [f \in Fields |-> o[f]]  BY DEF IsCtx
    <3>2. Members(o)  BY DEF IsCtx, Members, Fields
    <3>3. o.timer \in [Deadlines -> TimerState]
      BY DEF IsCtx, Fields, TimerState
    <3> QED  BY <3>1, <3>2, <3>3 DEF IsCtx
  <2>2. Same(c, o)  BY DEF Same, IsCtx, Fields
  <2>3. SameSession(c, o)  BY DEF SameSession, IsCtx, Fields
  <2> QED  BY <2>1, <2>2, <2>3 DEF Keeps
<1>5. Keeps(c, p)
  <2>1. IsCtx(p)
    <3>1. p = [f \in Fields |-> p[f]]  BY DEF IsCtx
    <3>2. Members(p)  BY DEF IsCtx, Members, Fields
    <3>3. p.timer \in [Deadlines -> TimerState]
      BY DEF IsCtx, Fields, TimerState
    <3> QED  BY <3>1, <3>2, <3>3 DEF IsCtx
  <2>2. Same(c, p)  BY DEF Same, IsCtx, Fields
  <2>3. SameSession(c, p)  BY DEF SameSession, IsCtx, Fields
  <2> QED  BY <2>1, <2>2, <2>3 DEF Keeps
<1> QED  BY <1>1, <1>2, <1>3, <1>4, <1>5, KeepsRefl

\* process_cp_events_state
LEMMA StateEventFine ==
    ASSUME NEW c, Good(c), NEW e, NEW valid \in BOOLEAN
    PROVE  /\ Fine(c, StateEvent(c, e, valid))
           /\ StateEvent(c, e, valid).shutdown_type = c.shutdown_type
<1> DEFINE requests == [c EXCEPT !.iec_allow_close_contactor = TRUE]
           stops == [c EXCEPT !.iec_allow_close_contactor = FALSE]
           plugged == [c EXCEPT !.flag_ev_plugged_in = TRUE]
           paused == [stops EXCEPT !.hlc_session_paused_by_evse = FALSE]
           to == IF c.hlc_dc_renegotiation THEN c.current_state
                                           ELSE "ChargingPausedEVSE"
           d == StateEvent(c, e, valid)
<1>1. \/ d \in {Go(plugged, "WaitingForAuthentication"), requests, stops,
                Go(requests, "PrepareCharging"), BcbStartPulse(requests),
                BcbStopPulse(c, valid), BcbStartPulse(c), c}
      \/ c.current_state = "PrepareCharging" /\ d = Go(paused, to)
  BY DEF StateEvent, PulseEvent
<1>2. IsCtx(c)  BY DEF Good, Base
<1>3. Keeps(c, requests)
  <2>1. IsCtx(requests)
    <3>1. requests = [f \in Fields |-> requests[f]]  BY <1>2 DEF IsCtx
    <3>2. Members(requests)  BY <1>2 DEF IsCtx, Members, Fields
    <3>3. requests.timer \in [Deadlines -> TimerState]
      BY <1>2 DEF IsCtx, Fields, TimerState
    <3> QED  BY <3>1, <3>2, <3>3 DEF IsCtx
  <2>2. Same(c, requests)  BY <1>2 DEF Same, IsCtx, Fields
  <2>3. SameSession(c, requests)  BY <1>2 DEF SameSession, IsCtx, Fields
  <2> QED  BY <2>1, <2>2, <2>3 DEF Keeps
<1>4. Keeps(c, stops)
  <2>1. IsCtx(stops)
    <3>1. stops = [f \in Fields |-> stops[f]]  BY <1>2 DEF IsCtx
    <3>2. Members(stops)  BY <1>2 DEF IsCtx, Members, Fields
    <3>3. stops.timer \in [Deadlines -> TimerState]
      BY <1>2 DEF IsCtx, Fields, TimerState
    <3> QED  BY <3>1, <3>2, <3>3 DEF IsCtx
  <2>2. Same(c, stops)  BY <1>2 DEF Same, IsCtx, Fields
  <2>3. SameSession(c, stops)  BY <1>2 DEF SameSession, IsCtx, Fields
  <2> QED  BY <2>1, <2>2, <2>3 DEF Keeps
<1>5. Keeps(c, plugged)
  <2>1. IsCtx(plugged)
    <3>1. plugged = [f \in Fields |-> plugged[f]]  BY <1>2 DEF IsCtx
    <3>2. Members(plugged)  BY <1>2 DEF IsCtx, Members, Fields
    <3>3. plugged.timer \in [Deadlines -> TimerState]
      BY <1>2 DEF IsCtx, Fields, TimerState
    <3> QED  BY <3>1, <3>2, <3>3 DEF IsCtx
  <2>2. Same(c, plugged)  BY <1>2 DEF Same, IsCtx, Fields
  <2>3. SameSession(c, plugged)  BY <1>2 DEF SameSession, IsCtx, Fields
  <2> QED  BY <2>1, <2>2, <2>3 DEF Keeps
<1> HIDE DEF requests, stops, plugged
<1>6. IsCtx(stops) /\ IsCtx(requests)  BY <1>3, <1>4 DEF Keeps
<1>7. Keeps(stops, paused)
  <2>1. IsCtx(paused)
    <3>1. paused = [f \in Fields |-> paused[f]]  BY <1>6 DEF IsCtx
    <3>2. Members(paused)  BY <1>6 DEF IsCtx, Members, Fields
    <3>3. paused.timer \in [Deadlines -> TimerState]
      BY <1>6 DEF IsCtx, Fields, TimerState
    <3> QED  BY <3>1, <3>2, <3>3 DEF IsCtx
  <2>2. Same(stops, paused)  BY <1>6 DEF Same, IsCtx, Fields
  <2>3. SameSession(stops, paused)  BY <1>6 DEF SameSession, IsCtx, Fields
  <2> QED  BY <2>1, <2>2, <2>3 DEF Keeps
<1> HIDE DEF paused
<1>8. Fine(c, plugged) /\ Fine(c, requests) /\ Fine(c, stops) /\ Fine(c, paused)
  BY <1>3, <1>4, <1>5, <1>7, KeepsTrans, KeepsFine
<1>9. Fine(plugged, Go(plugged, "WaitingForAuthentication"))
      /\ Fine(requests, Go(requests, "PrepareCharging"))
  BY <1>8, GoFine DEF Fine
<1>10. /\ Fine(requests, BcbStartPulse(requests))
       /\ Fine(c, BcbStopPulse(c, valid)) /\ Fine(c, BcbStartPulse(c))
  BY <1>2, <1>6, <1>8, BcbKeeps, KeepsFine DEF Fine
<1>11. c.current_state = "PrepareCharging" => Fine(paused, Go(paused, to))
  BY <1>8, GoFine DEF Fine
<1>12. /\ IsCtx(plugged) /\ IsCtx(paused) /\ c.current_state \in EvseState
       /\ plugged.shutdown_type = c.shutdown_type
       /\ paused.shutdown_type = c.shutdown_type
       /\ requests.shutdown_type = c.shutdown_type
       /\ stops.shutdown_type = c.shutdown_type
  BY <1>2, <1>3, <1>4, <1>5, <1>7 DEF Keeps, Same, IsCtx, Members
<1>13. /\ Go(plugged, "WaitingForAuthentication").shutdown_type
            = c.shutdown_type
       /\ Go(requests, "PrepareCharging").shutdown_type = c.shutdown_type
       /\ Go(paused, to).shutdown_type = c.shutdown_type
  BY <1>6, <1>12, GoFields DEF EvseState
<1>14. /\ BcbStartPulse(requests).shutdown_type = c.shutdown_type
       /\ BcbStopPulse(c, valid).shutdown_type = c.shutdown_type
       /\ BcbStartPulse(c).shutdown_type = c.shutdown_type
  BY <1>2, <1>6, <1>12, BcbKeeps DEF Keeps, Same
<1> QED
  BY <1>1, <1>8, <1>9, <1>10, <1>11, <1>12, <1>13, <1>14, FineTrans, FineRefl

\* authorize, cancel_transaction and start_reinit
LEMMA AuthorizedByFine ==
    ASSUME NEW c, Good(c), NEW pnc \in BOOLEAN
    PROVE  Fine(c, AuthorizedBy(c, pnc))
<1> DEFINE s == IF c.session_active THEN c ELSE StartSession(c)
           d == [s EXCEPT !.flag_authorized = TRUE, !.authorized_pnc = pnc]
<1>1. AuthorizedBy(c, pnc) \in {c, d}  BY DEF AuthorizedBy
<1>2. IsCtx(c)  BY DEF Good, Base
<1>3. Keeps(c, s)  BY <1>2, StartSessionKeeps, KeepsRefl
<1> HIDE DEF s
<1>4. IsCtx(s)  BY <1>3 DEF Keeps
<1>5. Keeps(s, d)
  <2>1. IsCtx(d)
    <3>1. d = [f \in Fields |-> d[f]]  BY <1>4 DEF IsCtx
    <3>2. Members(d)  BY <1>4 DEF IsCtx, Members, Fields
    <3>3. d.timer \in [Deadlines -> TimerState]
      BY <1>4 DEF IsCtx, Fields, TimerState
    <3> QED  BY <3>1, <3>2, <3>3 DEF IsCtx
  <2>2. Same(s, d)  BY <1>4 DEF Same, IsCtx, Fields
  <2>3. SameSession(s, d)  BY <1>4 DEF SameSession, IsCtx, Fields
  <2> QED  BY <2>1, <2>2, <2>3 DEF Keeps
<1> HIDE DEF d
<1> QED  BY <1>1, <1>3, <1>5, KeepsTrans, KeepsFine, FineRefl

\* cancel_transaction only leaves its mark: the state machine ends the
\* transaction.
LEMMA CancelledFine ==
    ASSUME NEW c, Good(c)
    PROVE  Fine(c, Cancelled(c))
<1> DEFINE a == [c EXCEPT !.flag_externally_cancelled = TRUE,
                          !.flag_authorized = FALSE, !.authorized_pnc = FALSE]
           b == [c EXCEPT !.flag_externally_cancelled = TRUE]
<1>1. Cancelled(c) \in {a, b, c}  BY DEF Cancelled
<1>2. IsCtx(c)  BY DEF Good, Base
<1>3. Keeps(c, a)
  <2>1. IsCtx(a)
    <3>1. a = [f \in Fields |-> a[f]]  BY <1>2 DEF IsCtx
    <3>2. Members(a)  BY <1>2 DEF IsCtx, Members, Fields
    <3>3. a.timer \in [Deadlines -> TimerState]
      BY <1>2 DEF IsCtx, Fields, TimerState
    <3> QED  BY <3>1, <3>2, <3>3 DEF IsCtx
  <2>2. Same(c, a)  BY <1>2 DEF Same, IsCtx, Fields
  <2>3. SameSession(c, a)  BY <1>2 DEF SameSession, IsCtx, Fields
  <2> QED  BY <2>1, <2>2, <2>3 DEF Keeps
<1>4. Keeps(c, b)
  <2>1. IsCtx(b)
    <3>1. b = [f \in Fields |-> b[f]]  BY <1>2 DEF IsCtx
    <3>2. Members(b)  BY <1>2 DEF IsCtx, Members, Fields
    <3>3. b.timer \in [Deadlines -> TimerState]
      BY <1>2 DEF IsCtx, Fields, TimerState
    <3> QED  BY <3>1, <3>2, <3>3 DEF IsCtx
  <2>2. Same(c, b)  BY <1>2 DEF Same, IsCtx, Fields
  <2>3. SameSession(c, b)  BY <1>2 DEF SameSession, IsCtx, Fields
  <2> QED  BY <2>1, <2>2, <2>3 DEF Keeps
<1> QED  BY <1>1, <1>3, <1>4, KeepsFine, FineRefl

\* A call for a reinit.
LEMMA ReinitRequestedFine ==
    ASSUME NEW c, Good(c)
    PROVE  Fine(c, ReinitRequested(c))
<1> DEFINE a == [c EXCEPT !.reinit_requested = TRUE]
<1>1. ReinitRequested(c) \in {a, c}  BY DEF ReinitRequested
<1>2. IsCtx(c)  BY DEF Good, Base
<1>3. Keeps(c, a)
  <2>1. IsCtx(a)
    <3>1. a = [f \in Fields |-> a[f]]  BY <1>2 DEF IsCtx
    <3>2. Members(a)  BY <1>2 DEF IsCtx, Members, Fields
    <3>3. a.timer \in [Deadlines -> TimerState]
      BY <1>2 DEF IsCtx, Fields, TimerState
    <3> QED  BY <3>1, <3>2, <3>3 DEF IsCtx
  <2>2. Same(c, a)  BY <1>2 DEF Same, IsCtx, Fields
  <2>3. SameSession(c, a)  BY <1>2 DEF SameSession, IsCtx, Fields
  <2> QED  BY <2>1, <2>2, <2>3 DEF Keeps
<1> QED  BY <1>1, <1>3, KeepsFine, FineRefl

\* deauthorize
LEMMA DeauthorizeFine ==
    ASSUME NEW c, Good(c)
    PROVE  Fine(c, DeauthorizeInternal(c))
<1> DEFINE d == DeauthorizeInternal(c)
<1>1. Base(c)  BY DEF Good
<1>2. /\ Ok(c, d) /\ SameButHeard(c, d) /\ SameSession(c, d)
      /\ d.flag_transaction_active = c.flag_transaction_active
  BY <1>1, DeauthorizeOk
<1> HIDE DEF d
<1>3. Good(d)
  BY <1>2 DEF Good, Ok, SameButHeard, SameSession, AtRest, Clean
<1>4. Fine(c, d)  BY <1>2, <1>3 DEF Fine, SameButHeard
<1> QED  BY <1>4 DEF d

\* request_error_sequence
LEMMA ErrorSequenceFine ==
    ASSUME NEW c, Good(c)
    PROVE  Fine(c, ErrorSequence(c))
<1> DEFINE d == ErrorSequence(c)
<1>1. Base(c)  BY DEF Good
<1>2. /\ Ok(c, d) /\ d.allow_power_on = c.allow_power_on
      /\ Keeps(c, d) \/ d.current_state \in {"T_step_EF", "T_step_X1"}
  BY <1>1, ErrorSequenceOk
<1> HIDE DEF d
<1>3. CASE Keeps(c, d)  BY <1>3, KeepsFine DEF d
<1>4. CASE d.current_state \in {"T_step_EF", "T_step_X1"}
  <2>1. Good(d)  BY <1>2, <1>4 DEF Good, Ok
  <2>2. Fine(c, d)  BY <1>2, <1>4, <2>1 DEF Fine, Ok
  <2> QED  BY <2>2 DEF d
<1> QED  BY <1>2, <1>3, <1>4

\* dlink_pause and dlink_terminate, of a session that is not over.
LEMMA HlcEndsFine ==
    ASSUME NEW c, Good(c), c.current_state # "Idle",
           NEW how \in {"Terminate", "Pause"}
    PROVE  Fine(c, HlcEnds(c, how))
<1> DEFINE c1 == IF c.timer["retain"] = "off" THEN PilotOff(c, "X1") ELSE c
           d == [c1 EXCEPT !.hlc_allow_close_contactor = FALSE,
                           !.hlc_charging_terminate_pause = how]
<1>1. HlcEnds(c, how) = d  BY DEF HlcEnds
<1>2. IsCtx(c)  BY DEF Good, Base
<1>3. Keeps(c, c1)  BY <1>2, PilotOffKeeps, KeepsRefl
<1> HIDE DEF c1
<1>4. Fine(c, c1) /\ IsCtx(c1) /\ c1.current_state # "Idle"
  BY <1>3, KeepsFine DEF Keeps, Same
<1>5. IsCtx(d)
  <2>1. d = [f \in Fields |-> d[f]]  BY <1>4 DEF IsCtx
  <2>2. Members(d)  BY <1>4 DEF IsCtx, Members, Fields, HlcTerminatePause
  <2>3. d.timer \in [Deadlines -> TimerState]
    BY <1>4 DEF IsCtx, Fields, TimerState
  <2> QED  BY <2>1, <2>2, <2>3 DEF IsCtx
<1>6. Same(c1, d)  BY <1>4 DEF Same, IsCtx, Fields
<1> HIDE DEF d
<1>7. Fine(c1, d)  BY <1>4, <1>5, <1>6, SameFine DEF Fine
<1> QED  BY <1>1, <1>4, <1>7, FineTrans

\* notify_session_stop_res_sent
LEMMA SessionStopResFine ==
    ASSUME NEW c, Good(c),
           NEW action \in {"Pause", "Terminate", "FailedTermination"}
    PROVE  Fine(c, SessionStopRes(c, action))
<1> DEFINE how == IF action = "Pause" THEN "Pause" ELSE "Terminate"
           c1 == [c EXCEPT !.hlc_allow_close_contactor = FALSE,
                           !.hlc_charging_terminate_pause = how]
           r == [c1 EXCEPT !.timer["retain"] = "armed"]
<1>1. \/ SessionStopRes(c, action) = c
      \/ /\ c.current_state # "Idle"
         /\ SessionStopRes(c, action) \in {PilotOff(c1, "X1"), r}
  BY DEF SessionStopRes
<1>2. CASE SessionStopRes(c, action) = c  BY <1>2, FineRefl
<1>3. CASE /\ c.current_state # "Idle"
           /\ SessionStopRes(c, action) \in {PilotOff(c1, "X1"), r}
  <2>1. IsCtx(c) /\ how \in HlcTerminatePause
    BY DEF Good, Base, HlcTerminatePause
  <2> HIDE DEF how
  <2>2. IsCtx(c1)
    <3>1. c1 = [f \in Fields |-> c1[f]]  BY <2>1 DEF IsCtx
    <3>2. Members(c1)  BY <2>1 DEF IsCtx, Members, Fields
    <3>3. c1.timer \in [Deadlines -> TimerState]
      BY <2>1 DEF IsCtx, Fields, TimerState
    <3> QED  BY <3>1, <3>2, <3>3 DEF IsCtx
  <2>3. Same(c, c1)  BY <2>1 DEF Same, IsCtx, Fields
  <2> HIDE DEF c1
  <2>4. Fine(c, c1)  BY <1>3, <2>2, <2>3, SameFine
  <2>5. IsCtx(r)
    <3>1. r = [f \in Fields |-> r[f]]  BY <2>2 DEF IsCtx
    <3>2. Members(r)  BY <2>2 DEF IsCtx, Members, Fields
    <3>3. r.timer \in [Deadlines -> TimerState]
      BY <2>2 DEF IsCtx, Fields, TimerState
    <3> QED  BY <3>1, <3>2, <3>3 DEF IsCtx
  <2>6. Same(c1, r)  BY <2>2 DEF Same, IsCtx, Fields
  <2> HIDE DEF r
  <2>7. Fine(c1, r)  BY <1>3, <2>3, <2>4, <2>5, <2>6, SameFine DEF Fine, Same
  <2>8. Fine(c1, PilotOff(c1, "X1"))
    BY <2>2, <2>4, PilotOffKeeps, KeepsFine DEF Fine
  <2> QED  BY <1>3, <2>4, <2>7, <2>8, FineTrans
<1> QED  BY <1>1, <1>2, <1>3

\* The way back into PrepareCharging that dlink_terminate and dlink_error
\* prepare, from a session that waits for its authorization.
LEMMA BackToPrepareFine ==
    ASSUME NEW c, Good(c), c.current_state \in ReturnStates
    PROVE  /\ Fine(c, BackToPrepare(c))
           /\ BackToPrepare(c).t_step_EF_return_state = "PrepareCharging"
           /\ BackToPrepare(c).current_state = c.current_state
<1> DEFINE d == [c EXCEPT !.timer["retain"] = "off",
                          !.hlc_allow_close_contactor = FALSE,
                          !.hlc_use_5percent = FALSE,
                          !.t_step_EF_return_pwm = "zero",
                          !.t_step_EF_return_state = "PrepareCharging"]
<1>1. BackToPrepare(c) = d  BY DEF BackToPrepare
<1>2. IsCtx(c) /\ Base(c)  BY DEF Good, Base
<1>3. IsCtx(d)
  <2>1. d = [f \in Fields |-> d[f]]  BY <1>2 DEF IsCtx
  <2>2. Members(d)  BY <1>2 DEF IsCtx, Members, Fields, DutyCycle, EvseState
  <2>3. d.timer \in [Deadlines -> TimerState]
    BY <1>2 DEF IsCtx, Fields, TimerState
  <2> QED  BY <2>1, <2>2, <2>3 DEF IsCtx
<1>4. /\ d.t_step_EF_return_state = "PrepareCharging"
      /\ d.current_state = c.current_state
      /\ d.last_state_detect_state_change = c.last_state_detect_state_change
      /\ d.shutdown_type = c.shutdown_type
      /\ d.last_shutdown_type = c.last_shutdown_type
      /\ d.allow_power_on = c.allow_power_on
      /\ d.flag_transaction_active = c.flag_transaction_active
      /\ d.heard = c.heard
  BY <1>2 DEF IsCtx, Fields
<1> HIDE DEF d
<1>5. Base(d)
  BY <1>2, <1>3, <1>4
     DEF Base, Permitted, AtRest, Returns, Listener, ReturnStates
<1>6. Fine(c, d)  BY <1>4, <1>5 DEF Fine, Good, ReturnStates
<1> QED  BY <1>1, <1>4, <1>6

\* The sequence on the pilot that waits for SLAC to let the link go.
Unmatches(c, state) ==
    Go([c EXCEPT !.t_step_EF_return_state = state,
                 !.t_step_EF_return_pwm = "zero",
                 !.t_step_X1_until_unmatched = TRUE], "T_step_X1")

\* SLAC is made to start again: the pilot waits in X1 for the unmatch.
LEMMA UnmatchesFine ==
    ASSUME NEW c, Good(c), NEW s \in ReturnStates
    PROVE  Fine(c, Unmatches(c, s))
<1> DEFINE d == [c EXCEPT !.t_step_EF_return_state = s,
                          !.t_step_EF_return_pwm = "zero",
                          !.t_step_X1_until_unmatched = TRUE]
           g == [d EXCEPT !.current_state = "T_step_X1"]
<1>1. Unmatches(c, s) = g  BY DEF Unmatches, Go
<1>2. IsCtx(c) /\ Base(c) /\ s \in EvseState
  BY DEF Good, Base, ReturnStates, EvseState
<1>3. IsCtx(d)
  <2>1. d = [f \in Fields |-> d[f]]  BY <1>2 DEF IsCtx
  <2>2. Members(d)  BY <1>2 DEF IsCtx, Members, Fields, DutyCycle
  <2>3. d.timer \in [Deadlines -> TimerState]
    BY <1>2 DEF IsCtx, Fields, TimerState
  <2> QED  BY <2>1, <2>2, <2>3 DEF IsCtx
<1>4. /\ d.t_step_EF_return_state = s
      /\ d.last_state_detect_state_change = c.last_state_detect_state_change
      /\ d.last_shutdown_type = c.last_shutdown_type
      /\ d.allow_power_on = c.allow_power_on
      /\ d.flag_transaction_active = c.flag_transaction_active
      /\ d.heard = c.heard
  BY <1>2 DEF IsCtx, Fields
<1> HIDE DEF d
<1>5. IsCtx(g)
  <2>1. g = [f \in Fields |-> g[f]]  BY <1>3 DEF IsCtx
  <2>2. Members(g)  BY <1>3 DEF IsCtx, Members, Fields, EvseState
  <2>3. g.timer \in [Deadlines -> TimerState]
    BY <1>3 DEF IsCtx, Fields, TimerState
  <2> QED  BY <2>1, <2>2, <2>3 DEF IsCtx
<1>6. /\ g.t_step_EF_return_state = d.t_step_EF_return_state
      /\ g.current_state = "T_step_X1"
      /\ g.last_state_detect_state_change = d.last_state_detect_state_change
      /\ g.last_shutdown_type = d.last_shutdown_type
      /\ g.allow_power_on = d.allow_power_on
      /\ g.flag_transaction_active = d.flag_transaction_active
      /\ g.heard = d.heard
  BY <1>3 DEF IsCtx, Fields
<1> HIDE DEF g
<1>7. Base(g)
  BY <1>2, <1>4, <1>5, <1>6 DEF Base, Permitted, AtRest, Returns, Listener
<1>8. Fine(c, g)  BY <1>4, <1>6, <1>7 DEF Fine, Good
<1> QED  BY <1>1, <1>8

\* The section of dlink_error.
LEMMA DlinkFailedFine ==
    ASSUME NEW c, Good(c), c.current_state # "Idle"
    PROVE  Fine(c, DlinkFailed(c))
<1> DEFINE c1 == [c EXCEPT !.timer["retain"] = "off", !.hlc_failed = TRUE,
                           !.hlc_allow_close_contactor = FALSE]
           n == [c1 EXCEPT !.hlc_charging_active = FALSE]
           c2 == IF ChargeMode = "AC" THEN n ELSE c1
           c3 == IF c2.hlc_use_5percent THEN PilotOff(c2, "X1") ELSE c2
           p == IF c1.pwm_running THEN PilotOff(c1, "X1") ELSE c1
           b == BackToPrepare(c1)
           z == [b EXCEPT !.t_step_X1_until_unmatched = TRUE]
           d == DlinkFailed(c)
<1>1. \/ d \in {Allow(p, FALSE), c3}
      \/ PncWithoutChargingLoop(c1) /\ d = Go(z, "T_step_X1")
      \/ d = Unmatches(c3, "WaitingForAuthentication")
  BY DEF DlinkFailed, Allow, Unmatches
<1>2. IsCtx(c)  BY DEF Good, Base
<1>3. IsCtx(c1)
  <2>1. c1 = [f \in Fields |-> c1[f]]  BY <1>2 DEF IsCtx
  <2>2. Members(c1)  BY <1>2 DEF IsCtx, Members, Fields
  <2>3. c1.timer \in [Deadlines -> TimerState]
    BY <1>2 DEF IsCtx, Fields, TimerState
  <2> QED  BY <2>1, <2>2, <2>3 DEF IsCtx
<1>4. Same(c, c1)  BY <1>2 DEF Same, IsCtx, Fields
<1> HIDE DEF c1
<1>5. Fine(c, c1) /\ Good(c1) /\ c1.current_state # "Idle"
  BY <1>3, <1>4, SameFine DEF Fine, Same
<1>6. Keeps(c1, n)
  <2>1. IsCtx(n)
    <3>1. n = [f \in Fields |-> n[f]]  BY <1>3 DEF IsCtx
    <3>2. Members(n)  BY <1>3 DEF IsCtx, Members, Fields
    <3>3. n.timer \in [Deadlines -> TimerState]
      BY <1>3 DEF IsCtx, Fields, TimerState
    <3> QED  BY <3>1, <3>2, <3>3 DEF IsCtx
  <2>2. Same(c1, n)  BY <1>3 DEF Same, IsCtx, Fields
  <2>3. SameSession(c1, n)  BY <1>3 DEF SameSession, IsCtx, Fields
  <2> QED  BY <2>1, <2>2, <2>3 DEF Keeps
<1> HIDE DEF n
<1>7. Keeps(c1, c2)  BY <1>3, <1>6, KeepsRefl
<1> HIDE DEF c2
<1>8. Keeps(c2, c3)  BY <1>7, PilotOffKeeps, KeepsRefl DEF Keeps
<1> HIDE DEF c3
<1>9. Fine(c1, c3)  BY <1>5, <1>7, <1>8, KeepsTrans, KeepsFine
<1>10. Fine(c, c3) /\ Good(c3)  BY <1>5, <1>9, FineTrans DEF Fine
<1>11. Keeps(c1, p)  BY <1>3, PilotOffKeeps, KeepsRefl
<1> HIDE DEF p
<1>12. Fine(c, p) /\ Good(p) /\ Base(p)
  BY <1>5, <1>11, KeepsFine, FineTrans DEF Fine, Good
<1>13. Fine(p, Allow(p, FALSE))
  <2> DEFINE q == Allow(p, FALSE)
  <2>1. /\ Ok(p, q) /\ SameButPower(p, q) /\ SameSession(p, q)
        /\ ~q.allow_power_on /\ q.last_shutdown_type = p.last_shutdown_type
    BY <1>12, PowerOffOk
  <2> HIDE DEF q
  <2>2. IsCtx(q) /\ (Clean(p) => Clean(q))
    BY <2>1 DEF Ok, Base, SameSession, Clean
  <2>3. Fine(p, q)  BY <1>12, <2>1, <2>2, DropFine
  <2> QED  BY <2>3 DEF q
<1>14. Fine(c3, Unmatches(c3, "WaitingForAuthentication"))
  BY <1>10, UnmatchesFine DEF ReturnStates
<1>15. ASSUME PncWithoutChargingLoop(c1)
       PROVE  Fine(c, Go(z, "T_step_X1"))
  <2>1. c1.current_state \in ReturnStates
    BY <1>15 DEF PncWithoutChargingLoop, ReturnStates
  <2>2. /\ Fine(c1, b) /\ b.t_step_EF_return_state \in ReturnStates
        /\ b.current_state \in ReturnStates
    BY <1>5, <2>1, BackToPrepareFine DEF ReturnStates
  <2> HIDE DEF b
  <2>3. Good(b) /\ Base(b) /\ IsCtx(b)  BY <2>2 DEF Fine, Good, Base
  <2>4. IsCtx(z)
    <3>1. z = [f \in Fields |-> z[f]]  BY <2>3 DEF IsCtx
    <3>2. Members(z)  BY <2>3 DEF IsCtx, Members, Fields
    <3>3. z.timer \in [Deadlines -> TimerState]
      BY <2>3 DEF IsCtx, Fields, TimerState
    <3> QED  BY <3>1, <3>2, <3>3 DEF IsCtx
  <2>5. /\ z.t_step_EF_return_state = b.t_step_EF_return_state
        /\ z.current_state = b.current_state
        /\ z.last_state_detect_state_change = b.last_state_detect_state_change
        /\ z.last_shutdown_type = b.last_shutdown_type
        /\ z.allow_power_on = b.allow_power_on
        /\ z.flag_transaction_active = b.flag_transaction_active
        /\ z.heard = b.heard
    BY <2>3 DEF IsCtx, Fields
  <2> HIDE DEF z
  <2>6. Base(z)
    BY <2>2, <2>3, <2>4, <2>5
       DEF Base, Permitted, AtRest, Returns, Listener, ReturnStates
  <2>7. Good(z)  BY <2>2, <2>5, <2>6 DEF Good, ReturnStates
  <2>8. Fine(b, z)  BY <2>5, <2>7 DEF Fine
  <2>9. Fine(z, Go(z, "T_step_X1"))  BY <2>2, <2>5, <2>7, GoStepFine
  <2> QED  BY <1>5, <2>2, <2>8, <2>9, FineTrans
<1> HIDE DEF z, d
<1>16. Fine(c, Allow(p, FALSE))  BY <1>12, <1>13, FineTrans
<1>17. Fine(c, Unmatches(c3, "WaitingForAuthentication"))
  BY <1>10, <1>14, FineTrans
<1>18. Fine(c, d)  BY <1>1, <1>10, <1>15, <1>16, <1>17
<1> QED  BY <1>18 DEF d

\* dlink_error, dlink_terminate and dlink_pause note the loss of the link.
Unlinked(c) == [c EXCEPT !.dlink_established = FALSE]

\* The data link is gone.
LEMMA UnlinkedFine ==
    ASSUME NEW c, Good(c)
    PROVE  /\ Fine(c, Unlinked(c)) /\ Good(Unlinked(c))
           /\ Unlinked(c).current_state = c.current_state
<1> DEFINE d == [c EXCEPT !.dlink_established = FALSE]
<1>1. IsCtx(c)  BY DEF Good, Base
<1>2. Keeps(c, d)
  <2>1. IsCtx(d)
    <3>1. d = [f \in Fields |-> d[f]]  BY <1>1 DEF IsCtx
    <3>2. Members(d)  BY <1>1 DEF IsCtx, Members, Fields
    <3>3. d.timer \in [Deadlines -> TimerState]
      BY <1>1 DEF IsCtx, Fields, TimerState
    <3> QED  BY <3>1, <3>2, <3>3 DEF IsCtx
  <2>2. Same(c, d)  BY <1>1 DEF Same, IsCtx, Fields
  <2>3. SameSession(c, d)  BY <1>1 DEF SameSession, IsCtx, Fields
  <2> QED  BY <2>1, <2>2, <2>3 DEF Keeps
<1> HIDE DEF d
<1>3. Fine(c, d)  BY <1>2, KeepsFine
<1> QED  BY <1>2, <1>3 DEF Fine, Keeps, Same, Unlinked, d

\* The connector is enabled or disabled, between two runs of the loop.
EnabledTo(c, enabled) ==
    IF c.current_state = "Disabled" /\ enabled
    THEN Go([c EXCEPT !.connector_enabled = enabled,
                      !.flag_disable_requested = FALSE], "Idle")
    ELSE [c EXCEPT !.connector_enabled = enabled]

\* The result of the table of enable requests is written to the context.
LEMMA EnabledToFine ==
    ASSUME NEW c, Good(c), NEW enabled \in BOOLEAN,
           ~(c.current_state = "Disabled"
               /\ c.last_state_detect_state_change = "Idle")
    PROVE  Fine(c, EnabledTo(c, enabled))
<1> DEFINE a == [c EXCEPT !.connector_enabled = enabled]
           b == [c EXCEPT !.connector_enabled = enabled,
                          !.flag_disable_requested = FALSE]
<1>1. \/ EnabledTo(c, enabled) = a
      \/ c.current_state = "Disabled" /\ EnabledTo(c, enabled) = Go(b, "Idle")
  BY DEF EnabledTo
<1>2. IsCtx(c)  BY DEF Good, Base
<1>3. Keeps(c, a)
  <2>1. IsCtx(a)
    <3>1. a = [f \in Fields |-> a[f]]  BY <1>2 DEF IsCtx
    <3>2. Members(a)  BY <1>2 DEF IsCtx, Members, Fields
    <3>3. a.timer \in [Deadlines -> TimerState]
      BY <1>2 DEF IsCtx, Fields, TimerState
    <3> QED  BY <3>1, <3>2, <3>3 DEF IsCtx
  <2>2. Same(c, a)  BY <1>2 DEF Same, IsCtx, Fields
  <2>3. SameSession(c, a)  BY <1>2 DEF SameSession, IsCtx, Fields
  <2> QED  BY <2>1, <2>2, <2>3 DEF Keeps
<1>4. Keeps(c, b)
  <2>1. IsCtx(b)
    <3>1. b = [f \in Fields |-> b[f]]  BY <1>2 DEF IsCtx
    <3>2. Members(b)  BY <1>2 DEF IsCtx, Members, Fields
    <3>3. b.timer \in [Deadlines -> TimerState]
      BY <1>2 DEF IsCtx, Fields, TimerState
    <3> QED  BY <3>1, <3>2, <3>3 DEF IsCtx
  <2>2. Same(c, b)  BY <1>2 DEF Same, IsCtx, Fields
  <2>3. SameSession(c, b)  BY <1>2 DEF SameSession, IsCtx, Fields
  <2> QED  BY <2>1, <2>2, <2>3 DEF Keeps
<1> HIDE DEF a, b
<1>5. Fine(c, a) /\ Fine(c, b)  BY <1>3, <1>4, KeepsFine
<1>6. ASSUME c.current_state = "Disabled"
      PROVE  Fine(b, Go(b, "Idle"))
  <2>1. /\ Base(b) /\ IsCtx(b) /\ b.current_state = "Disabled"
        /\ b.last_state_detect_state_change # "Idle"
    BY <1>4, <1>5, <1>6 DEF Fine, Good, Base, Keeps, Same
  <2>2. AtRest(b)  BY <2>1 DEF Base
  <2>3. Base(Go(b, "Idle"))  BY <2>1, <2>2, GoRestOk DEF Ok
  <2>4. /\ Go(b, "Idle").current_state = "Idle"
        /\ Go(b, "Idle").last_state_detect_state_change
              = b.last_state_detect_state_change
        /\ Go(b, "Idle").allow_power_on = b.allow_power_on
    BY <2>1, GoFields DEF EvseState
  <2>5. Good(Go(b, "Idle"))  BY <2>1, <2>3, <2>4 DEF Good
  <2> QED  BY <2>4, <2>5 DEF Fine
<1> QED  BY <1>1, <1>5, <1>6, FineTrans

\* An error is reported or cleared: the permission does not depend on it
\* before the loop has seen it.
LEMMA ShutdownNoted ==
    ASSUME NEW c, Good(c), NEW t \in ShutdownType
    PROVE  Fine(c, [c EXCEPT !.shutdown_type = t])
<1> DEFINE d == [c EXCEPT !.shutdown_type = t]
<1>1. IsCtx(c) /\ Base(c)  BY DEF Good, Base
<1>2. IsCtx(d)
  <2>1. d = [f \in Fields |-> d[f]]  BY <1>1 DEF IsCtx
  <2>2. Members(d)  BY <1>1 DEF IsCtx, Members, Fields
  <2>3. d.timer \in [Deadlines -> TimerState]
    BY <1>1 DEF IsCtx, Fields, TimerState
  <2> QED  BY <2>1, <2>2, <2>3 DEF IsCtx
<1>3. /\ d.t_step_EF_return_state = c.t_step_EF_return_state
      /\ d.t_step_X1_until_unmatched = c.t_step_X1_until_unmatched
      /\ d.current_state = c.current_state
      /\ d.last_state_detect_state_change = c.last_state_detect_state_change
      /\ d.last_shutdown_type = c.last_shutdown_type
      /\ d.allow_power_on = c.allow_power_on
      /\ d.flag_transaction_active = c.flag_transaction_active
      /\ d.heard = c.heard
      /\ SameSession(c, d)
  BY <1>1 DEF IsCtx, Fields, SameSession
<1> HIDE DEF d
<1>4. Base(d)
  BY <1>1, <1>2, <1>3 DEF Base, Permitted, AtRest, Returns, Listener
<1>5. Good(d)  BY <1>3, <1>4 DEF Good, AtRest, Clean, SameSession
<1>6. Fine(c, d)  BY <1>3, <1>5 DEF Fine
<1> QED  BY <1>6 DEF d

-----------------------------------------------------------------------------
\* The actions.

\* The calls of the evse_manager interface and the error thread.
LEMMA CommandFine ==
    ASSUME Good(ctx),
           \/ Authorize \/ Deauthorize \/ CancelTransaction \/ PauseCharging
           \/ ResumeCharging \/ StorePaused \/ StartReinit
           \/ SwitchThreePhases \/ ErrorThread \/ SetMaxCurrent
    PROVE  Fine(ctx, ctx')
<1>0. IsCtx(ctx) /\ Fine(ctx, ctx)  BY FineRefl DEF Good, Base
<1>1. CASE Authorize
  BY <1>1, AuthorizedByFine DEF Authorize, Locked
<1>2. CASE Deauthorize
  BY <1>2, DeauthorizeFine DEF Deauthorize, Locked
<1>3. CASE CancelTransaction
  BY <1>3, CancelledFine DEF CancelTransaction, Locked
<1>4. CASE PauseCharging \/ ResumeCharging
  BY <1>0, <1>4 DEF PauseCharging, ResumeCharging, Asks
<1>5. CASE StorePaused
  <2> DEFINE d == [ctx EXCEPT !.flag_paused_by_evse = cmd = "pause"]
  <2>1. ctx' = d  BY <1>5 DEF StorePaused
  <2>2. Keeps(ctx, d)
    <3>1. IsCtx(d)
      <4>1. d = [f \in Fields |-> d[f]]  BY <1>0 DEF IsCtx
      <4>2. Members(d)  BY <1>0 DEF IsCtx, Members, Fields
      <4>3. d.timer \in [Deadlines -> TimerState]
        BY <1>0 DEF IsCtx, Fields, TimerState
      <4> QED  BY <4>1, <4>2, <4>3 DEF IsCtx
    <3>2. Same(ctx, d)  BY <1>0 DEF Same, IsCtx, Fields
    <3>3. SameSession(ctx, d)  BY <1>0 DEF SameSession, IsCtx, Fields
    <3> QED  BY <3>1, <3>2, <3>3 DEF Keeps
  <2> HIDE DEF d
  <2> QED  BY <2>1, <2>2, KeepsFine
<1>6. CASE StartReinit
  BY <1>6, ReinitRequestedFine DEF StartReinit, Locked
<1>7. CASE SwitchThreePhases
  <2> DEFINE d == [ctx EXCEPT !.switch_phases_ongoing = TRUE]
  <2>1. ctx' \in {Go(d, "SwitchPhases"), ctx}
    BY <1>7 DEF SwitchThreePhases, Locked
  <2>2. Keeps(ctx, d)
    <3>1. IsCtx(d)
      <4>1. d = [f \in Fields |-> d[f]]  BY <1>0 DEF IsCtx
      <4>2. Members(d)  BY <1>0 DEF IsCtx, Members, Fields
      <4>3. d.timer \in [Deadlines -> TimerState]
        BY <1>0 DEF IsCtx, Fields, TimerState
      <4> QED  BY <4>1, <4>2, <4>3 DEF IsCtx
    <3>2. Same(ctx, d)  BY <1>0 DEF Same, IsCtx, Fields
    <3>3. SameSession(ctx, d)  BY <1>0 DEF SameSession, IsCtx, Fields
    <3> QED  BY <3>1, <3>2, <3>3 DEF Keeps
  <2> HIDE DEF d
  <2>3. Fine(ctx, d)  BY <2>2, KeepsFine
  <2>4. Fine(d, Go(d, "SwitchPhases"))  BY <2>3, GoFine DEF Fine
  <2> QED  BY <1>0, <2>1, <2>3, <2>4, FineTrans
<1>8. CASE ErrorThread
  <2>1. PICK t \in ShutdownType : ctx' = [ctx EXCEPT !.shutdown_type = t]
    BY <1>8 DEF ErrorThread, Locked, ShutdownType
  <2>2. Fine(ctx, [ctx EXCEPT !.shutdown_type = t])  BY ShutdownNoted
  <2> QED  BY <2>1, <2>2
<1>9. CASE SetMaxCurrent
  <2>1. PICK ok \in BOOLEAN : ctx' = [ctx EXCEPT !.max_current_ok = ok]
    BY <1>9 DEF SetMaxCurrent, Locked
  <2> DEFINE d == [ctx EXCEPT !.max_current_ok = ok]
  <2>2. Keeps(ctx, d)
    <3>1. IsCtx(d)
      <4>1. d = [f \in Fields |-> d[f]]  BY <1>0 DEF IsCtx
      <4>2. Members(d)  BY <1>0 DEF IsCtx, Members, Fields
      <4>3. d.timer \in [Deadlines -> TimerState]
        BY <1>0 DEF IsCtx, Fields, TimerState
      <4> QED  BY <4>1, <4>2, <4>3 DEF IsCtx
    <3>2. Same(ctx, d)  BY <1>0 DEF Same, IsCtx, Fields
    <3>3. SameSession(ctx, d)  BY <1>0 DEF SameSession, IsCtx, Fields
    <3> QED  BY <3>1, <3>2, <3>3 DEF Keeps
  <2>3. ctx' = d  BY <2>1
  <2> HIDE DEF d
  <2> QED  BY <2>2, <2>3, KeepsFine
<1> QED  BY <1>1, <1>2, <1>3, <1>4, <1>5, <1>6, <1>7, <1>8, <1>9

\* The calls of the HLC stack that set a flag.
LEMMA HlcFlagFine ==
    ASSUME Good(ctx),
           \/ SetHlcChargingActive \/ SetHlcAllowCloseContactor
           \/ DcOpenContactorRequest \/ NotifyHlcSessionStarted
           \/ SetHlcD20Active \/ UpdateDcPresentCurrent
           \/ NotifyHlcPauseNotified
    PROVE  Fine(ctx, ctx')
<1>0. IsCtx(ctx) /\ Fine(ctx, ctx)  BY FineRefl DEF Good, Base
<1>1. CASE SetHlcChargingActive
  <2> DEFINE d == [ctx EXCEPT !.hlc_charging_active = TRUE]
  <2>1. ctx' = d  BY <1>1 DEF SetHlcChargingActive, FromHlc, Locked
  <2>2. Keeps(ctx, d)
    <3>1. IsCtx(d)
      <4>1. d = [f \in Fields |-> d[f]]  BY <1>0 DEF IsCtx
      <4>2. Members(d)  BY <1>0 DEF IsCtx, Members, Fields
      <4>3. d.timer \in [Deadlines -> TimerState]
        BY <1>0 DEF IsCtx, Fields, TimerState
      <4> QED  BY <4>1, <4>2, <4>3 DEF IsCtx
    <3>2. Same(ctx, d)  BY <1>0 DEF Same, IsCtx, Fields
    <3>3. SameSession(ctx, d)  BY <1>0 DEF SameSession, IsCtx, Fields
    <3> QED  BY <3>1, <3>2, <3>3 DEF Keeps
  <2> HIDE DEF d
  <2> QED  BY <2>1, <2>2, KeepsFine
<1>2. CASE SetHlcAllowCloseContactor \/ DcOpenContactorRequest
  <2>1. PICK on \in BOOLEAN :
            ctx' = [ctx EXCEPT !.hlc_allow_close_contactor = on]
    BY <1>2 DEF SetHlcAllowCloseContactor, DcOpenContactorRequest, FromHlc,
         Locked
  <2> DEFINE d == [ctx EXCEPT !.hlc_allow_close_contactor = on]
  <2>2. Keeps(ctx, d)
    <3>1. IsCtx(d)
      <4>1. d = [f \in Fields |-> d[f]]  BY <1>0 DEF IsCtx
      <4>2. Members(d)  BY <1>0 DEF IsCtx, Members, Fields
      <4>3. d.timer \in [Deadlines -> TimerState]
        BY <1>0 DEF IsCtx, Fields, TimerState
      <4> QED  BY <4>1, <4>2, <4>3 DEF IsCtx
    <3>2. Same(ctx, d)  BY <1>0 DEF Same, IsCtx, Fields
    <3>3. SameSession(ctx, d)  BY <1>0 DEF SameSession, IsCtx, Fields
    <3> QED  BY <3>1, <3>2, <3>3 DEF Keeps
  <2>3. ctx' = d  BY <2>1
  <2> HIDE DEF d
  <2> QED  BY <2>2, <2>3, KeepsFine
<1>3. CASE NotifyHlcSessionStarted
  <2> DEFINE d == [ctx EXCEPT !.hlc_session_restarted_by_ev = TRUE]
  <2>1. ctx' \in {d, ctx}
    BY <1>3 DEF NotifyHlcSessionStarted, FromHlc, Locked
  <2>2. Keeps(ctx, d)
    <3>1. IsCtx(d)
      <4>1. d = [f \in Fields |-> d[f]]  BY <1>0 DEF IsCtx
      <4>2. Members(d)  BY <1>0 DEF IsCtx, Members, Fields
      <4>3. d.timer \in [Deadlines -> TimerState]
        BY <1>0 DEF IsCtx, Fields, TimerState
      <4> QED  BY <4>1, <4>2, <4>3 DEF IsCtx
    <3>2. Same(ctx, d)  BY <1>0 DEF Same, IsCtx, Fields
    <3>3. SameSession(ctx, d)  BY <1>0 DEF SameSession, IsCtx, Fields
    <3> QED  BY <3>1, <3>2, <3>3 DEF Keeps
  <2> HIDE DEF d
  <2> QED  BY <1>0, <2>1, <2>2, KeepsFine
<1>4. CASE SetHlcD20Active
  <2>1. PICK dynamic \in BOOLEAN :
            ctx' = [ctx EXCEPT !.hlc_d20_active = TRUE,
                               !.hlc_d20_dynamic_mode = dynamic]
    BY <1>4 DEF SetHlcD20Active, Free
  <2> DEFINE d == [ctx EXCEPT !.hlc_d20_active = TRUE,
                              !.hlc_d20_dynamic_mode = dynamic]
  <2>2. Keeps(ctx, d)
    <3>1. IsCtx(d)
      <4>1. d = [f \in Fields |-> d[f]]  BY <1>0 DEF IsCtx
      <4>2. Members(d)  BY <1>0 DEF IsCtx, Members, Fields
      <4>3. d.timer \in [Deadlines -> TimerState]
        BY <1>0 DEF IsCtx, Fields, TimerState
      <4> QED  BY <4>1, <4>2, <4>3 DEF IsCtx
    <3>2. Same(ctx, d)  BY <1>0 DEF Same, IsCtx, Fields
    <3>3. SameSession(ctx, d)  BY <1>0 DEF SameSession, IsCtx, Fields
    <3> QED  BY <3>1, <3>2, <3>3 DEF Keeps
  <2>3. ctx' = d  BY <2>1
  <2> HIDE DEF d
  <2> QED  BY <2>2, <2>3, KeepsFine
<1>5. CASE UpdateDcPresentCurrent
  <2>1. PICK flows \in BOOLEAN : ctx' = [ctx EXCEPT !.dc_current = flows]
    BY <1>5 DEF UpdateDcPresentCurrent, Free
  <2> DEFINE d == [ctx EXCEPT !.dc_current = flows]
  <2>2. Keeps(ctx, d)
    <3>1. IsCtx(d)
      <4>1. d = [f \in Fields |-> d[f]]  BY <1>0 DEF IsCtx
      <4>2. Members(d)  BY <1>0 DEF IsCtx, Members, Fields
      <4>3. d.timer \in [Deadlines -> TimerState]
        BY <1>0 DEF IsCtx, Fields, TimerState
      <4> QED  BY <4>1, <4>2, <4>3 DEF IsCtx
    <3>2. Same(ctx, d)  BY <1>0 DEF Same, IsCtx, Fields
    <3>3. SameSession(ctx, d)  BY <1>0 DEF SameSession, IsCtx, Fields
    <3> QED  BY <3>1, <3>2, <3>3 DEF Keeps
  <2>3. ctx' = d  BY <2>1
  <2> HIDE DEF d
  <2> QED  BY <2>2, <2>3, KeepsFine
<1>6. CASE NotifyHlcPauseNotified
  <2> DEFINE b == ctx.d20_pause_confirmed \/ ctx.d20_pause_requested
             d == [ctx EXCEPT !.d20_pause_confirmed = b]
  <2>1. ctx' = d  BY <1>6 DEF NotifyHlcPauseNotified, FromHlc, Locked
  <2>2. b \in BOOLEAN  OBVIOUS
  <2> HIDE DEF b
  <2>3. Keeps(ctx, d)
    <3>1. IsCtx(d)
      <4>1. d = [f \in Fields |-> d[f]]  BY <1>0, <2>2 DEF IsCtx
      <4>2. Members(d)  BY <1>0, <2>2 DEF IsCtx, Members, Fields
      <4>3. d.timer \in [Deadlines -> TimerState]
        BY <1>0, <2>2 DEF IsCtx, Fields, TimerState
      <4> QED  BY <4>1, <4>2, <4>3 DEF IsCtx
    <3>2. Same(ctx, d)  BY <1>0, <2>2 DEF Same, IsCtx, Fields
    <3>3. SameSession(ctx, d)  BY <1>0, <2>2 DEF SameSession, IsCtx, Fields
    <3> QED  BY <3>1, <3>2, <3>3 DEF Keeps
  <2> HIDE DEF d
  <2> QED  BY <2>1, <2>3, KeepsFine
<1> QED  BY <1>1, <1>2, <1>3, <1>4, <1>5, <1>6

\* The calls of the HLC stack that end or restart something.
LEMMA HlcCallFine ==
    ASSUME Good(ctx),
           \/ DcRenegotiationStarted \/ NotifyCurrentDemandStarted
           \/ DlinkPause \/ DlinkTerminate \/ DlinkErrorSection
           \/ DlinkErrorReinit \/ NotifySessionStopResSent
    PROVE  Fine(ctx, ctx')
<1>0. IsCtx(ctx) /\ Fine(ctx, ctx)  BY FineRefl DEF Good, Base
<1>1. CASE DcRenegotiationStarted
  <2> DEFINE d == [ctx EXCEPT !.hlc_dc_renegotiation = TRUE,
                              !.hlc_allow_close_contactor = FALSE,
                              !.allow_power_on = FALSE]
  <2>1. ctx' \in {Go(d, "PrepareCharging"), ctx}
    BY <1>1 DEF DcRenegotiationStarted, FromHlc, Locked
  <2>2. IsCtx(d)
    <3>1. d = [f \in Fields |-> d[f]]  BY <1>0 DEF IsCtx
    <3>2. Members(d)  BY <1>0 DEF IsCtx, Members, Fields
    <3>3. d.timer \in [Deadlines -> TimerState]
      BY <1>0 DEF IsCtx, Fields, TimerState
    <3> QED  BY <3>1, <3>2, <3>3 DEF IsCtx
  <2>3. /\ SameButPower(ctx, d) /\ SameSession(ctx, d)
        /\ d.last_shutdown_type = ctx.last_shutdown_type
        /\ ~d.allow_power_on
    BY <1>0 DEF SameButPower, SameSession, IsCtx, Fields
  <2> HIDE DEF d
  <2>4. Clean(ctx) => Clean(d)  BY <2>3 DEF SameSession, Clean
  <2>5. Fine(ctx, d)  BY <2>2, <2>3, <2>4, DropFine
  <2>6. Fine(d, Go(d, "PrepareCharging"))  BY <2>5, GoFine DEF Fine
  <2> QED  BY <1>0, <2>1, <2>5, <2>6, FineTrans
<1>2. CASE NotifyCurrentDemandStarted
  <2> DEFINE d == [ctx EXCEPT !.hlc_dc_renegotiation = FALSE]
  <2>1. ctx' \in {Go(d, "Charging"), ctx}
    BY <1>2 DEF NotifyCurrentDemandStarted, FromHlc, Locked
  <2>2. Keeps(ctx, d)
    <3>1. IsCtx(d)
      <4>1. d = [f \in Fields |-> d[f]]  BY <1>0 DEF IsCtx
      <4>2. Members(d)  BY <1>0 DEF IsCtx, Members, Fields
      <4>3. d.timer \in [Deadlines -> TimerState]
        BY <1>0 DEF IsCtx, Fields, TimerState
      <4> QED  BY <4>1, <4>2, <4>3 DEF IsCtx
    <3>2. Same(ctx, d)  BY <1>0 DEF Same, IsCtx, Fields
    <3>3. SameSession(ctx, d)  BY <1>0 DEF SameSession, IsCtx, Fields
    <3> QED  BY <3>1, <3>2, <3>3 DEF Keeps
  <2> HIDE DEF d
  <2>3. Fine(ctx, d)  BY <2>2, KeepsFine
  <2>4. Fine(d, Go(d, "Charging"))  BY <2>3, GoFine DEF Fine
  <2> QED  BY <1>0, <2>1, <2>3, <2>4, FineTrans
<1>3. CASE DlinkPause
  BY <1>0, <1>3, HlcEndsFine DEF DlinkPause, DlinkPaused, FromHlc, Locked
<1>4. CASE DlinkTerminate
  <2> DEFINE c == Unlinked(ctx)
             b == BackToPrepare(c)
  <2>1. \/ ctx' = c
        \/ PncWithoutChargingLoop(c) /\ ctx' = Go(b, "T_step_EF")
        \/ c.current_state # "Idle" /\ ctx' = HlcEnds(c, "Terminate")
    BY <1>4 DEF DlinkTerminate, Unlinked
  <2>2. Fine(ctx, c) /\ Good(c)  BY UnlinkedFine
  <2> HIDE DEF c
  <2>3. CASE PncWithoutChargingLoop(c) /\ ctx' = Go(b, "T_step_EF")
    <3>1. c.current_state \in ReturnStates
      BY <2>3 DEF PncWithoutChargingLoop, ReturnStates
    <3>2. Fine(c, b) /\ b.t_step_EF_return_state \in ReturnStates
      BY <2>2, <3>1, BackToPrepareFine DEF ReturnStates
    <3> HIDE DEF b
    <3>3. Fine(b, Go(b, "T_step_EF"))  BY <3>2, GoStepFine DEF Fine
    <3> QED  BY <2>2, <2>3, <3>2, <3>3, FineTrans
  <2>4. CASE c.current_state # "Idle" /\ ctx' = HlcEnds(c, "Terminate")
    <3>1. Fine(c, HlcEnds(c, "Terminate"))  BY <2>2, <2>4, HlcEndsFine
    <3> QED  BY <2>2, <2>4, <3>1, FineTrans
  <2> QED  BY <2>1, <2>2, <2>3, <2>4
<1>5. CASE DlinkErrorSection
  <2> DEFINE c == Unlinked(ctx)
  <2>1. ctx' = c \/ (c.current_state # "Idle" /\ ctx' = DlinkFailed(c))
    BY <1>5 DEF DlinkErrorSection, Unlinked
  <2>2. Fine(ctx, c) /\ Good(c)  BY UnlinkedFine
  <2> HIDE DEF c
  <2>3. c.current_state # "Idle" => Fine(c, DlinkFailed(c))
    BY <2>2, DlinkFailedFine
  <2> QED  BY <2>1, <2>2, <2>3, FineTrans
<1>6. CASE DlinkErrorReinit
  BY <1>0, <1>6, ReinitRequestedFine DEF DlinkErrorReinit
<1>7. CASE NotifySessionStopResSent
  BY <1>7, SessionStopResFine DEF NotifySessionStopResSent, FromHlc, Locked
<1> QED  BY <1>1, <1>2, <1>3, <1>4, <1>5, <1>6, <1>7

\* SLAC.
LEMMA SlacFine ==
    ASSUME Good(ctx), SlacCall
    PROVE  Fine(ctx, ctx')
<1>0. IsCtx(ctx)  BY DEF Good, Base
<1>1. CASE SlacMatching
  <2> DEFINE d == [ctx EXCEPT !.slac_matched = FALSE, !.matching_started = TRUE]
  <2>1. ctx' = d  BY <1>1 DEF SlacMatching, Slac
  <2>2. Keeps(ctx, d)
    <3>1. IsCtx(d)
      <4>1. d = [f \in Fields |-> d[f]]  BY <1>0 DEF IsCtx
      <4>2. Members(d)  BY <1>0 DEF IsCtx, Members, Fields
      <4>3. d.timer \in [Deadlines -> TimerState]
        BY <1>0 DEF IsCtx, Fields, TimerState
      <4> QED  BY <4>1, <4>2, <4>3 DEF IsCtx
    <3>2. Same(ctx, d)  BY <1>0 DEF Same, IsCtx, Fields
    <3>3. SameSession(ctx, d)  BY <1>0 DEF SameSession, IsCtx, Fields
    <3> QED  BY <3>1, <3>2, <3>3 DEF Keeps
  <2> HIDE DEF d
  <2> QED  BY <2>1, <2>2, KeepsFine
<1>2. CASE SlacMatched
  <2> DEFINE d == [ctx EXCEPT !.slac_matched = TRUE, !.slac_retries = 0]
  <2>1. ctx' = d  BY <1>2 DEF SlacMatched, Slac
  <2>2. IsCtx(d)
    <3>1. d = [f \in Fields |-> d[f]]  BY <1>0 DEF IsCtx
    <3>2. Members(d)  BY <1>0 DEF IsCtx, Members, Fields, C_SEQU_RETRY
    <3>3. d.timer \in [Deadlines -> TimerState]
      BY <1>0 DEF IsCtx, Fields, TimerState
    <3> QED  BY <3>1, <3>2, <3>3 DEF IsCtx
  <2>3. Same(ctx, d)  BY <1>0 DEF Same, IsCtx, Fields
  <2>4. Clean(ctx) => Clean(d)  BY <1>0 DEF Clean, IsCtx, Fields
  <2> HIDE DEF d
  <2>5. Fine(ctx, d)  BY <2>2, <2>3, <2>4, SameFine
  <2> QED  BY <2>1, <2>5
<1>3. CASE SetDlinkReady
  <2> DEFINE d == [ctx EXCEPT !.dlink_established = TRUE]
  <2>1. ctx' = d  BY <1>3 DEF SetDlinkReady, Slac
  <2>2. Keeps(ctx, d)
    <3>1. IsCtx(d)
      <4>1. d = [f \in Fields |-> d[f]]  BY <1>0 DEF IsCtx
      <4>2. Members(d)  BY <1>0 DEF IsCtx, Members, Fields
      <4>3. d.timer \in [Deadlines -> TimerState]
        BY <1>0 DEF IsCtx, Fields, TimerState
      <4> QED  BY <4>1, <4>2, <4>3 DEF IsCtx
    <3>2. Same(ctx, d)  BY <1>0 DEF Same, IsCtx, Fields
    <3>3. SameSession(ctx, d)  BY <1>0 DEF SameSession, IsCtx, Fields
    <3> QED  BY <3>1, <3>2, <3>3 DEF Keeps
  <2> HIDE DEF d
  <2> QED  BY <2>1, <2>2, KeepsFine
<1>4. CASE SlacUnmatched
  <2> DEFINE d == [ctx EXCEPT !.matching_started = FALSE]
  <2>1. ctx' = d  BY <1>4 DEF SlacUnmatched, Locked
  <2>2. Keeps(ctx, d)
    <3>1. IsCtx(d)
      <4>1. d = [f \in Fields |-> d[f]]  BY <1>0 DEF IsCtx
      <4>2. Members(d)  BY <1>0 DEF IsCtx, Members, Fields
      <4>3. d.timer \in [Deadlines -> TimerState]
        BY <1>0 DEF IsCtx, Fields, TimerState
      <4> QED  BY <4>1, <4>2, <4>3 DEF IsCtx
    <3>2. Same(ctx, d)  BY <1>0 DEF Same, IsCtx, Fields
    <3>3. SameSession(ctx, d)  BY <1>0 DEF SameSession, IsCtx, Fields
    <3> QED  BY <3>1, <3>2, <3>3 DEF Keeps
  <2> HIDE DEF d
  <2> QED  BY <2>1, <2>2, KeepsFine
<1>5. CASE SlacUnmatchedToo
  <2> DEFINE d == [ctx EXCEPT !.slac_matched = FALSE]
  <2>1. ctx' = d  BY <1>5 DEF SlacUnmatchedToo, Slac
  <2>2. Keeps(ctx, d)
    <3>1. IsCtx(d)
      <4>1. d = [f \in Fields |-> d[f]]  BY <1>0 DEF IsCtx
      <4>2. Members(d)  BY <1>0 DEF IsCtx, Members, Fields
      <4>3. d.timer \in [Deadlines -> TimerState]
        BY <1>0 DEF IsCtx, Fields, TimerState
      <4> QED  BY <4>1, <4>2, <4>3 DEF IsCtx
    <3>2. Same(ctx, d)  BY <1>0 DEF Same, IsCtx, Fields
    <3>3. SameSession(ctx, d)  BY <1>0 DEF SameSession, IsCtx, Fields
    <3> QED  BY <3>1, <3>2, <3>3 DEF Keeps
  <2> HIDE DEF d
  <2> QED  BY <2>1, <2>2, KeepsFine
<1>6. CASE RequestErrorSequence
  BY <1>6, ErrorSequenceFine DEF RequestErrorSequence, Locked
<1> QED  BY <1>1, <1>2, <1>3, <1>4, <1>5, <1>6 DEF SlacCall

\* The IEC machine, the late half of dc_open_contactor_request, and time.
LEMMA OutsideFine ==
    ASSUME Good(ctx),
           \/ IecStep \/ IecC1Timeout \/ DcOpenContactorPower \/ Time
    PROVE  Fine(ctx, ctx')
<1>0. IsCtx(ctx)  BY DEF Good, Base
<1>1. CASE IecStep
  <2>1. PICK off \in BOOLEAN, to \in {"A", "B", "C", "E", "F"} \cup {Measured} :
          ctx' = [ctx EXCEPT !.allow_power_on = @ /\ ~off,
                             !.output = IF to \in {"A", "E"} /\ @ = "PWM"
                                        THEN "X1" ELSE @]
    BY <1>1 DEF IecStep
  <2> DEFINE allow == ctx.allow_power_on /\ ~off
             out == IF to \in {"A", "E"} /\ ctx.output = "PWM"
                    THEN "X1" ELSE ctx.output
             d == [ctx EXCEPT !.allow_power_on = allow, !.output = out]
  <2>2. ctx' = d  BY <2>1
  <2>3. allow \in BOOLEAN /\ out \in Output /\ (allow => ctx.allow_power_on)
    BY <1>0 DEF IsCtx, Members, Output
  <2> HIDE DEF allow, out
  <2>4. IsCtx(d)
    <3>1. d = [f \in Fields |-> d[f]]  BY <1>0, <2>3 DEF IsCtx
    <3>2. Members(d)  BY <1>0, <2>3 DEF IsCtx, Members, Fields
    <3>3. d.timer \in [Deadlines -> TimerState]
      BY <1>0, <2>3 DEF IsCtx, Fields, TimerState
    <3> QED  BY <3>1, <3>2, <3>3 DEF IsCtx
  <2>5. /\ SameButPower(ctx, d) /\ SameSession(ctx, d)
        /\ d.last_shutdown_type = ctx.last_shutdown_type
        /\ d.allow_power_on = allow
    BY <1>0 DEF SameButPower, SameSession, IsCtx, Fields
  <2> HIDE DEF d
  <2>6. Clean(ctx) => Clean(d)  BY <2>5 DEF SameSession, Clean
  <2>7. Fine(ctx, d)  BY <2>3, <2>4, <2>5, <2>6, DropFine
  <2> QED  BY <2>2, <2>7
<1>2. CASE IecC1Timeout \/ DcOpenContactorPower
  <2> DEFINE d == Allow(ctx, FALSE)
  <2>1. ctx' = d  BY <1>2 DEF IecC1Timeout, DcOpenContactorPower, Allow
  <2>2. /\ Ok(ctx, d) /\ SameButPower(ctx, d) /\ SameSession(ctx, d)
        /\ ~d.allow_power_on /\ d.last_shutdown_type = ctx.last_shutdown_type
    BY PowerOffOk DEF Good
  <2> HIDE DEF d
  <2>3. IsCtx(d) /\ (Clean(ctx) => Clean(d))
    BY <2>2 DEF Ok, Base, SameSession, Clean
  <2>4. Fine(ctx, d)  BY <2>2, <2>3, DropFine
  <2> QED  BY <2>1, <2>4
<1>3. CASE DeadlinePasses
  <2>1. PICK k \in Deadlines : /\ ctx.timer[k] = "armed"
                               /\ ctx' = [ctx EXCEPT !.timer[k] = "due"]
    BY <1>3 DEF DeadlinePasses
  <2> DEFINE d == [ctx EXCEPT !.timer[k] = "due"]
  <2>2. ctx' = d  BY <2>1
  <2>3. IsCtx(d)
    <3>1. d = [f \in Fields |-> d[f]]  BY <1>0 DEF IsCtx
    <3>2. Members(d)  BY <1>0 DEF IsCtx, Members, Fields
    <3>3. d.timer \in [Deadlines -> TimerState]
      BY <1>0 DEF IsCtx, Fields, TimerState
    <3> QED  BY <3>1, <3>2, <3>3 DEF IsCtx
  <2>4. Same(ctx, d)  BY <1>0 DEF Same, IsCtx, Fields
  <2>5. Clean(ctx) => Clean(d)
    <3>1. SUFFICES ASSUME Clean(ctx) PROVE Clean(d)  OBVIOUS
    <3>2. k # "retain"  BY <2>1, <3>1 DEF Clean
    <3>3. /\ d.timer["retain"] = ctx.timer["retain"]
          /\ d.hlc_charging_terminate_pause = ctx.hlc_charging_terminate_pause
          /\ d.hlc_failed = ctx.hlc_failed /\ d.slac_retries = ctx.slac_retries
      BY <1>0, <3>2 DEF IsCtx, Fields, Deadlines
    <3> HIDE DEF d
    <3> QED  BY <3>1, <3>3 DEF Clean
  <2> HIDE DEF d
  <2>6. Fine(ctx, d)  BY <2>3, <2>4, <2>5, SameFine
  <2> QED  BY <2>2, <2>6
<1>4. CASE StateAges
  <2> DEFINE due == \/ ctx.current_state = "T_step_EF"
                    \/ ctx.current_state = "T_step_X1" /\ ctx.age = 1
                    \/ ctx.current_state \in {"PrepareCharging",
                                              "StoppingCharging"}
             age == ctx.age + 1
             t == IF ctx.timer["x1"] = "armed" /\ due THEN "due"
                                                     ELSE ctx.timer["x1"]
             d == [ctx EXCEPT !.age = age, !.timer["x1"] = t]
  <2>1. ctx' = d  BY <1>4 DEF StateAges
  <2>2. ctx.age \in 0..2 /\ ctx.timer["x1"] \in TimerState
    BY <1>0 DEF IsCtx, Members, Deadlines
  <2>3. ctx.age < Thresholds(ctx.current_state)  BY <1>4 DEF StateAges
  <2>4. Thresholds(ctx.current_state) \in {0, 1, 2}  BY DEF Thresholds
  <2>5. age \in 0..2 /\ t \in TimerState
    BY <2>2, <2>3, <2>4 DEF TimerState
  <2> HIDE DEF age, t
  <2>6. Keeps(ctx, d)
    <3>1. IsCtx(d)
      <4>1. d = [f \in Fields |-> d[f]]  BY <1>0, <2>5 DEF IsCtx
      <4>2. Members(d)  BY <1>0, <2>5 DEF IsCtx, Members, Fields
      <4>3. d.timer \in [Deadlines -> TimerState]
        BY <1>0, <2>5 DEF IsCtx, Fields, TimerState
      <4> QED  BY <4>1, <4>2, <4>3 DEF IsCtx
    <3>2. Same(ctx, d)  BY <1>0, <2>5 DEF Same, IsCtx, Fields
    <3>3. SameSession(ctx, d)  BY <1>0, <2>5 DEF SameSession, IsCtx, Fields
    <3> QED  BY <3>1, <3>2, <3>3 DEF Keeps
  <2> HIDE DEF d
  <2> QED  BY <2>1, <2>6, KeepsFine
<1> QED  BY <1>1, <1>2, <1>3, <1>4 DEF Time

\* enable_disable, between two runs of the loop.
LEMMA EnableDisableFine ==
    ASSUME Good(ctx), EnableDisableConnector,
           ~(ctx.current_state = "Disabled"
               /\ ctx.last_state_detect_state_change = "Idle")
    PROVE  Fine(ctx, ctx')
<1>0. IsCtx(ctx)  BY DEF Good, Base
<1>1. PICK connector_id \in {0, 1}, source \in Requests :
        LET winner == Winner(TableUpdate(table, source))
            enabled == IF connector_id # 0 THEN IsEnabled(winner)
                                             ELSE ctx.connector_enabled
            c1 == [ctx EXCEPT !.connector_enabled = enabled]
            c2 == IF ctx.current_state = "Disabled" /\ enabled
                  THEN Go([c1 EXCEPT !.flag_disable_requested = FALSE], "Idle")
                  ELSE c1
            changed == IsEnabled(winner) # IsEnabled(active)
        IN ctx' = IF changed /\ ~IsEnabled(winner)
                  THEN [c2 EXCEPT !.flag_disable_requested = TRUE] ELSE c2
  BY DEF EnableDisableConnector
<1> DEFINE winner == Winner(TableUpdate(table, source))
           enabled == IF connector_id # 0 THEN IsEnabled(winner)
                                            ELSE ctx.connector_enabled
           c2 == EnabledTo(ctx, enabled)
           d == [c2 EXCEPT !.flag_disable_requested = TRUE]
<1>2. ctx' \in {c2, d}  BY <1>1 DEF EnabledTo
<1>3. enabled \in BOOLEAN  BY <1>0 DEF IsCtx, Members, IsEnabled
<1> HIDE DEF enabled
<1>4. Fine(ctx, c2)  BY <1>3, EnabledToFine
<1> HIDE DEF c2
<1>5. IsCtx(c2)  BY <1>4 DEF Fine, Good, Base
<1>6. Keeps(c2, d)
  <2>1. IsCtx(d)
    <3>1. d = [f \in Fields |-> d[f]]  BY <1>5 DEF IsCtx
    <3>2. Members(d)  BY <1>5 DEF IsCtx, Members, Fields
    <3>3. d.timer \in [Deadlines -> TimerState]
      BY <1>5 DEF IsCtx, Fields, TimerState
    <3> QED  BY <3>1, <3>2, <3>3 DEF IsCtx
  <2>2. Same(c2, d)  BY <1>5 DEF Same, IsCtx, Fields
  <2>3. SameSession(c2, d)  BY <1>5 DEF SameSession, IsCtx, Fields
  <2> QED  BY <2>1, <2>2, <2>3 DEF Keeps
<1> HIDE DEF d
<1>7. Fine(c2, d)  BY <1>4, <1>6, KeepsFine DEF Fine
<1> QED  BY <1>2, <1>4, <1>7, FineTrans

\* An iteration, with the state dependent part of an event after it.
LEMMA IterateGood ==
    ASSUME NEW c, Good(c), NEW phase \in {"loop", "before", "after", "command"},
           NEW e, NEW env, NEW valid \in BOOLEAN,
           Iterate(c, phase, e, env, valid)
    PROVE  /\ Good(ctx')
           /\ run'.phase = "none"
                => ctx'.last_state_detect_state_change = ctx'.current_state
           /\ ctx'.shutdown_type = c.shutdown_type
           /\ ctx'.allow_power_on
                => c.allow_power_on \/ c.shutdown_type = "None"
<1> DEFINE next == Pass(c, env)
<1>1. /\ Good(next) /\ next.shutdown_type = c.shutdown_type
      /\ next.allow_power_on => c.allow_power_on \/ c.shutdown_type = "None"
  BY PassOk
<1>2. \/ ctx' = next /\ run'.phase = phase
      \/ ctx' = StateEvent(next, e, valid) /\ run'.phase = "after"
      \/ ctx' = next /\ Settled(next)
  BY DEF Iterate, NotRunning
<1> HIDE DEF next
<1>3. /\ Fine(next, StateEvent(next, e, valid))
      /\ StateEvent(next, e, valid).shutdown_type = next.shutdown_type
  BY <1>1, StateEventFine
<1>4. CASE ctx' = next /\ run'.phase = phase  BY <1>1, <1>4
<1>5. CASE ctx' = StateEvent(next, e, valid) /\ run'.phase = "after"
  BY <1>1, <1>3, <1>5 DEF Fine
<1>6. CASE ctx' = next /\ Settled(next)  BY <1>1, <1>6 DEF Settled
<1> QED  BY <1>2, <1>4, <1>5, <1>6

-----------------------------------------------------------------------------
\* The inductive invariant.  Between two runs of the loop an Idle that has
\* been left for Disabled has been noted as left: enable_disable may enter
\* Idle again without its initialization being skipped.
Between ==
    run.phase = "none"
    => ~(/\ ctx.current_state = "Disabled"
         /\ ctx.last_state_detect_state_change = "Idle")

EvType == [cp : CpState, seen : CpState, plugged : BOOLEAN,
           simplified : {"no", "armed", "told"},
           relays : BOOLEAN, link : BOOLEAN]
LeftType == [calls : 0..MaxCalls, moves : 0..MaxMoves]
HlcPlace == {"idle", "open", "error", "reinit"}
CmdPlace == {"idle", "pause", "resume"}

RestOK ==
    /\ run \in RunType
    /\ queue \in Seq(CPEvent)
    /\ hlc \in HlcPlace
    /\ cmd \in CmdPlace
    /\ ev \in EvType
    /\ left \in LeftType
    /\ TableTypeOK

CInv == Good(ctx) /\ Between /\ RestOK

\* A step never gives the permission while an error is present.
NoGift == ctx'.allow_power_on => \/ ctx.allow_power_on
                                 \/ ctx'.shutdown_type = "None"

\* A call or an event that leaves the loop where it is.
LEMMA FineStep ==
    ASSUME CInv, Fine(ctx, ctx'), run'.phase = "none" => run.phase = "none"
    PROVE  Good(ctx') /\ Between' /\ NoGift
BY DEF CInv, Between, NoGift, Fine

\* A step that does not touch the context.
LEMMA StillStep ==
    ASSUME CInv, UNCHANGED <<ctx, run>>
    PROVE  Good(ctx') /\ Between' /\ NoGift
BY DEF CInv, Between, NoGift

\* The main thread.
LEMMA MainThreadStep ==
    ASSUME CInv, MainLoop \/ ProcessEvent \/ NextIteration
    PROVE  Good(ctx') /\ Between' /\ NoGift
<1>0. Good(ctx) /\ IsCtx(ctx) /\ run \in RunType
  BY DEF CInv, Good, Base, RestOK
<1>1. ASSUME /\ Good(ctx')
             /\ run'.phase = "none"
                  => ctx'.last_state_detect_state_change = ctx'.current_state
             /\ ctx'.shutdown_type = ctx.shutdown_type
             /\ ctx'.allow_power_on
                  => ctx.allow_power_on \/ ctx.shutdown_type = "None"
      PROVE  Good(ctx') /\ Between' /\ NoGift
  BY <1>1 DEF Between, NoGift
<1>2. CASE MainLoop
  <2>1. PICK env \in Env(ctx.current_state) :
            Iterate(ctx, "loop", NoEvent, env, TRUE)
    BY <1>2 DEF MainLoop
  <2> QED  BY <1>0, <1>1, <2>1, IterateGood
<1>3. CASE ProcessEvent
  <2> DEFINE e == Head(queue)
             c == IndependentEvent(ctx, e)
  <2>1. PICK env \in Env(ctx.current_state), valid \in Valid(e) :
            Iterate(c, "before", e, env, valid)
    BY <1>3 DEF ProcessEvent
  <2>2. valid \in BOOLEAN  BY <2>1 DEF Valid
  <2>3. Keeps(ctx, c)  BY <1>0, IndependentEventKeeps
  <2> HIDE DEF c, e
  <2>4. Good(c)  BY <1>0, <2>3, KeepsFine DEF Fine
  <2>5. c.shutdown_type = ctx.shutdown_type
        /\ c.allow_power_on = ctx.allow_power_on
    BY <2>3 DEF Keeps, Same
  <2> QED  BY <1>1, <2>1, <2>2, <2>4, <2>5, IterateGood
<1>4. CASE NextIteration
  <2>1. PICK env \in Env(ctx.current_state), valid \in Valid(run.event) :
            Iterate(ctx, run.phase, run.event, env, valid)
    BY <1>4 DEF NextIteration
  <2>2. valid \in BOOLEAN  BY <2>1 DEF Valid
  <2>3. run.phase \in {"loop", "before", "after", "command"}
    BY <1>0, <1>4 DEF NextIteration, RunType
  <2> QED  BY <1>0, <1>1, <2>1, <2>2, <2>3, IterateGood
<1> QED  BY <1>2, <1>3, <1>4

\* Every step preserves the invariant of the context.
LEMMA ContextStep ==
    ASSUME CInv, [Next]_vars
    PROVE  Good(ctx') /\ Between' /\ NoGift
<1>0. Good(ctx)  BY DEF CInv
<1>1. CASE MainLoop \/ ProcessEvent \/ NextIteration  BY <1>1, MainThreadStep
<1>2. CASE IecStep \/ IecC1Timeout \/ DcOpenContactorPower \/ Time
  <2>1. run' = run
    BY <1>2 DEF IecStep, IecC1Timeout, DcOpenContactorPower, Time,
         DeadlinePasses, StateAges
  <2> QED  BY <1>0, <1>2, <2>1, OutsideFine, FineStep
<1>3. CASE IecSimplified \/ Relays \/ EvMoves
  BY <1>3, StillStep DEF IecSimplified, Relays, EvMoves
<1>4. CASE \/ DlinkErrorAfterTerminate \/ DlinkErrorReinit
           \/ DcRenegotiationStarted \/ NotifyCurrentDemandStarted
           \/ DlinkPause \/ DlinkTerminate \/ DlinkError
           \/ NotifySessionStopResSent
  <2>1. run' = run
    BY <1>4 DEF DlinkErrorAfterTerminate, DlinkErrorReinit,
         DcRenegotiationStarted, NotifyCurrentDemandStarted, DlinkPause,
         DlinkTerminate, DlinkError, DlinkErrorSection,
         NotifySessionStopResSent, FromHlc, Locked
  <2>2. \/ DcRenegotiationStarted \/ NotifyCurrentDemandStarted
        \/ DlinkPause \/ DlinkTerminate \/ DlinkErrorSection
        \/ DlinkErrorReinit \/ NotifySessionStopResSent
    BY <1>4 DEF DlinkErrorAfterTerminate, DlinkError
  <2>3. Fine(ctx, ctx')  BY <1>0, <2>2, HlcCallFine
  <2> QED  BY <2>1, <2>3, FineStep
<1>5. CASE \/ Authorize \/ Deauthorize \/ CancelTransaction \/ PauseCharging
           \/ ResumeCharging \/ StorePaused \/ StartReinit
           \/ SwitchThreePhases \/ ErrorThread \/ SetMaxCurrent
  <2>1. run' = run
    BY <1>5 DEF Authorize, Deauthorize, CancelTransaction, PauseCharging,
         ResumeCharging, Asks, StorePaused, StartReinit, SwitchThreePhases,
         ErrorThread, SetMaxCurrent, Locked
  <2>2. Fine(ctx, ctx')  BY <1>0, <1>5, CommandFine
  <2> QED  BY <2>1, <2>2, FineStep
<1>6. CASE EnableDisableConnector
  <2>1. run.phase = "none"  BY <1>6 DEF EnableDisableConnector
  <2>2. ~(ctx.current_state = "Disabled"
            /\ ctx.last_state_detect_state_change = "Idle")
    BY <2>1 DEF CInv, Between
  <2>3. Fine(ctx, ctx')  BY <1>0, <1>6, <2>2, EnableDisableFine
  <2> QED  BY <2>1, <2>3, FineStep
<1>7. CASE \/ SetHlcChargingActive \/ SetHlcAllowCloseContactor
           \/ DcOpenContactorRequest \/ NotifyHlcSessionStarted
           \/ SetHlcD20Active \/ UpdateDcPresentCurrent
           \/ NotifyHlcPauseNotified
  <2>1. run' = run
    BY <1>7 DEF SetHlcChargingActive, SetHlcAllowCloseContactor,
         DcOpenContactorRequest, NotifyHlcSessionStarted, SetHlcD20Active,
         UpdateDcPresentCurrent, NotifyHlcPauseNotified, FromHlc, Locked, Free
  <2>2. Fine(ctx, ctx')  BY <1>0, <1>7, HlcFlagFine
  <2> QED  BY <2>1, <2>2, FineStep
<1>8. CASE SlacCall
  <2>1. run' = run
    BY <1>8 DEF SlacCall, SlacMatching, SlacMatched, SetDlinkReady,
         SlacUnmatched, SlacUnmatchedToo, RequestErrorSequence, Slac, Locked
  <2>2. Fine(ctx, ctx')  BY <1>0, <1>8, SlacFine
  <2> QED  BY <2>1, <2>2, FineStep
<1>9. CASE UNCHANGED vars  BY <1>9, StillStep DEF vars
<1> QED
  BY <1>1, <1>2, <1>3, <1>4, <1>5, <1>6, <1>7, <1>8, <1>9 DEF Next, Internal,
       Command, HlcCall

-----------------------------------------------------------------------------
\* The types of the other variables.
LEMMA IterateType ==
    ASSUME NEW c, NEW phase \in {"loop", "before", "after", "command"},
           NEW e \in CPEvent \cup {NoEvent}, NEW env, NEW valid,
           Iterate(c, phase, e, env, valid)
    PROVE  run' \in RunType
<1>1. \/ run' = [phase |-> phase, event |-> e]
      \/ run' = [NotRunning EXCEPT !.phase = "after"]
      \/ run' = NotRunning
  BY DEF Iterate
<1> QED  BY <1>1 DEF RunType, NotRunning

\* A call uses up one of those that are left.
LEMMA MayType ==
    ASSUME left \in LeftType, NEW call, May(call)
    PROVE  left' \in LeftType
<1>1. left.calls \in 0..MaxCalls /\ left.calls > 0 /\ MaxCalls \in Nat
  BY CallAssumption DEF LeftType, May
<1>2. left.calls - 1 \in 0..MaxCalls  BY <1>1
<1>3. left' = [left EXCEPT !.calls = left.calls - 1]  BY DEF May
<1> QED  BY <1>2, <1>3 DEF LeftType

\* What the pilot shows is a state.
LEMMA MeasuredType ==
    ASSUME ev \in EvType
    PROVE  Measured \in CpState
<1>1. ev.cp \in CpState  BY DEF EvType
<1> QED  BY <1>1 DEF Measured, CpState

\* Steps of the main thread and of the world outside.
LEMMA InternalType ==
    ASSUME RestOK, Internal \/ Time \/ EvMoves
    PROVE  RestOK'
<1>0. /\ run \in RunType /\ queue \in Seq(CPEvent) /\ hlc \in HlcPlace
      /\ cmd \in CmdPlace /\ ev \in EvType /\ left \in LeftType /\ TableTypeOK
  BY DEF RestOK
<1>u. ASSUME tableUnchanged PROVE TableTypeOK'
  BY <1>0, <1>u DEF tableUnchanged, TableTypeOK
<1>t. ASSUME othersUnchanged PROVE TableTypeOK' /\ cmd' = cmd
  BY <1>t, <1>u DEF othersUnchanged
<1>1. CASE MainLoop
  <2>1. PICK env \in Env(ctx.current_state) :
            Iterate(ctx, "loop", NoEvent, env, TRUE)
    BY <1>1 DEF MainLoop
  <2>2. run' \in RunType
    <3>1. PICK phase \in {"loop", "before", "after", "command"} :
              phase = "loop"
      OBVIOUS
    <3>2. PICK e \in CPEvent \cup {NoEvent} : e = NoEvent  OBVIOUS
    <3>3. PICK t \in BOOLEAN : t = TRUE  OBVIOUS
    <3>4. Iterate(ctx, phase, e, env, t)  BY <2>1, <3>1, <3>2, <3>3
    <3> QED  BY <3>4, IterateType
  <2> QED  BY <1>0, <1>1, <1>t, <2>2 DEF MainLoop, RestOK
<1>2. CASE ProcessEvent
  <2>1. queue # <<>> /\ Head(queue) \in CPEvent /\ Tail(queue) \in Seq(CPEvent)
    BY <1>0, <1>2 DEF ProcessEvent
  <2>2. PICK env \in Env(ctx.current_state), valid \in Valid(Head(queue)) :
            Iterate(IndependentEvent(ctx, Head(queue)), "before", Head(queue),
                    env, valid)
    BY <1>2 DEF ProcessEvent
  <2>3. run' \in RunType
    <3>1. PICK phase \in {"loop", "before", "after", "command"} :
              phase = "before"
      OBVIOUS
    <3>2. PICK e \in CPEvent \cup {NoEvent} : e = Head(queue)  BY <2>1
    <3>3. PICK c : c = IndependentEvent(ctx, Head(queue))  OBVIOUS
    <3>4. Iterate(c, phase, e, env, valid)  BY <2>2, <3>1, <3>2, <3>3
    <3> QED  BY <3>4, IterateType
  <2> QED  BY <1>0, <1>2, <1>t, <2>1, <2>3 DEF ProcessEvent, RestOK
<1>3. CASE NextIteration
  <2>1. PICK env \in Env(ctx.current_state), valid \in Valid(run.event) :
            Iterate(ctx, run.phase, run.event, env, valid)
    BY <1>3 DEF NextIteration
  <2>2. /\ run.phase \in {"loop", "before", "after", "command"}
        /\ run.event \in CPEvent \cup {NoEvent}
    BY <1>0, <1>3 DEF NextIteration, RunType
  <2>3. run' \in RunType  BY <2>1, <2>2, IterateType
  <2> QED  BY <1>0, <1>3, <1>t, <2>3 DEF NextIteration, RestOK
<1>4. CASE DcOpenContactorPower
  BY <1>0, <1>4, <1>t DEF DcOpenContactorPower, RestOK, HlcPlace
<1>13. CASE StorePaused
  BY <1>0, <1>13, <1>u DEF StorePaused, RestOK, CmdPlace
<1>5. CASE DlinkErrorAfterTerminate
  BY <1>0, <1>5, <1>t
     DEF DlinkErrorAfterTerminate, DlinkErrorSection, RestOK, HlcPlace
<1>6. CASE DlinkErrorReinit
  BY <1>0, <1>6, <1>t DEF DlinkErrorReinit, RestOK, HlcPlace
<1>7. CASE IecStep
  <2> DEFINE to == Measured
             events == EventsOf(ev.seen, to)
             plugged == PlugsIn(ev.seen, to) \/ (ev.plugged /\ to # "A")
             simplified == Simplified(ev.seen, to)
  <2>1. to \in CpState  BY <1>0, MeasuredType
  <2>2. events \in Seq(CPEvent)
    <3>1. <<>> \in Seq(CPEvent)  OBVIOUS
    <3>2. \A x \in CPEvent : <<x>> \in Seq(CPEvent)  OBVIOUS
    <3>3. events \in {<<>>, <<"CarUnplugged">>, <<"CarPluggedIn">>,
                      <<"CarRequestedStopPower">>, <<"CarRequestedPower">>,
                      <<"BCDtoE">>}
      BY DEF EventsOf
    <3>4. {"CarUnplugged", "CarPluggedIn", "CarRequestedStopPower",
           "CarRequestedPower", "BCDtoE"} \subseteq CPEvent
      BY DEF CPEvent
    <3> HIDE DEF events
    <3> QED  BY <3>1, <3>2, <3>3, <3>4
  <2>3. plugged \in BOOLEAN /\ simplified \in {"no", "armed", "told"}
    BY <1>0 DEF Simplified, EvType
  <2>4. queue' = queue \o events
        /\ ev' = [ev EXCEPT !.seen = to, !.plugged = plugged,
                            !.simplified = simplified]
    BY <1>7 DEF IecStep
  <2> HIDE DEF to, events, plugged, simplified
  <2>5. queue' \in Seq(CPEvent)  BY <1>0, <2>2, <2>4
  <2>6. ev' \in EvType  BY <1>0, <2>1, <2>3, <2>4 DEF EvType
  <2> QED  BY <1>0, <1>7, <1>t, <2>5, <2>6 DEF IecStep, RestOK
<1>8. CASE IecSimplified
  <2>1. queue' \in Seq(CPEvent)
    <3>1. "CarRequestedPower" \in CPEvent  BY DEF CPEvent
    <3>2. Append(queue, "CarRequestedPower") \in Seq(CPEvent)  BY <1>0, <3>1
    <3> QED  BY <1>0, <1>8, <3>2 DEF IecSimplified
  <2>2. ev' \in EvType
    <3>1. PICK s \in {"armed", "told"} : ev' = [ev EXCEPT !.simplified = s]
      BY <1>8 DEF IecSimplified
    <3> QED  BY <1>0, <3>1 DEF EvType
  <2> QED  BY <1>0, <1>8, <1>t, <2>1, <2>2 DEF IecSimplified, RestOK
<1>9. CASE IecC1Timeout  BY <1>0, <1>9, <1>t DEF IecC1Timeout, RestOK
<1>10. CASE Relays
  <2>1. PICK on \in BOOLEAN :
          /\ ev' = [ev EXCEPT !.relays = on]
          /\ queue' = Append(queue, IF on THEN "PowerOn" ELSE "PowerOff")
    <3> DEFINE o == ctx.allow_power_on /\ ev.seen = "C"
                      /\ (ev.relays \/ ctx.output = "PWM")
    <3>1. o \in BOOLEAN  OBVIOUS
    <3>2. /\ ev' = [ev EXCEPT !.relays = o]
          /\ queue' = Append(queue, IF o THEN "PowerOn" ELSE "PowerOff")
      BY <1>10 DEF Relays
    <3> HIDE DEF o
    <3> QED  BY <3>1, <3>2
  <2>2. (IF on THEN "PowerOn" ELSE "PowerOff") \in CPEvent  BY DEF CPEvent
  <2>3. queue' \in Seq(CPEvent)  BY <1>0, <2>1, <2>2
  <2>4. ev' \in EvType  BY <1>0, <2>1 DEF EvType
  <2> QED  BY <1>0, <1>10, <1>t, <2>3, <2>4 DEF Relays, RestOK
<1>11. CASE Time
  BY <1>0, <1>11, <1>t DEF Time, DeadlinePasses, StateAges, RestOK
<1>12. CASE EvMoves
  <2>1. left' \in LeftType
    <3>1. left.moves \in 0..MaxMoves /\ left.moves > 0 /\ MaxMoves \in Nat
      BY <1>0, <1>12, CallAssumption DEF LeftType, EvMoves
    <3>2. left.moves - 1 \in 0..MaxMoves  BY <3>1
    <3>3. left' = [left EXCEPT !.moves = left.moves - 1]  BY <1>12 DEF EvMoves
    <3> QED  BY <1>0, <3>2, <3>3 DEF LeftType
  <2>2. ev' \in EvType
    <3>1. PICK to \in {"A", "B", "C", "E"} : ev' = [ev EXCEPT !.cp = to]
      BY <1>12 DEF EvMoves
    <3>2. to \in CpState  BY DEF CpState
    <3> QED  BY <1>0, <3>1, <3>2 DEF EvType
  <2> QED  BY <1>0, <1>12, <1>t, <2>1, <2>2 DEF EvMoves, RestOK
<1> QED
  BY <1>1, <1>2, <1>3, <1>4, <1>5, <1>6, <1>7, <1>8, <1>9, <1>10, <1>11, <1>12,
     <1>13 DEF Internal

\* The calls.
LEMMA CallType ==
    ASSUME RestOK, Command \/ HlcCall \/ SlacCall
    PROVE  RestOK'
<1>0. /\ run \in RunType /\ queue \in Seq(CPEvent) /\ hlc \in HlcPlace
      /\ cmd \in CmdPlace /\ ev \in EvType /\ left \in LeftType /\ TableTypeOK
  BY DEF RestOK
<1>u. ASSUME tableUnchanged PROVE TableTypeOK'
  BY <1>0, <1>u DEF tableUnchanged, TableTypeOK
<1>t. ASSUME othersUnchanged PROVE TableTypeOK' /\ cmd' = cmd
  BY <1>t, <1>u DEF othersUnchanged
<1>l. ASSUME NEW call, NEW c, Locked(call, c) \/ Free(call, c)
      PROVE  RestOK'
  <2>1. left' \in LeftType  BY <1>0, <1>l, MayType DEF Locked, Free
  <2> QED  BY <1>0, <1>l, <1>t, <2>1 DEF Locked, Free, RestOK
<1>s. ASSUME NEW call, NEW guard, NEW c, Slac(call, guard, c)
      PROVE  RestOK'
  <2>1. ev' \in EvType
    <3> DEFINE link == ev.link \/ c.dlink_established
    <3>1. link \in BOOLEAN  OBVIOUS
    <3>2. ev' = [ev EXCEPT !.link = link]  BY <1>s DEF Slac
    <3> HIDE DEF link
    <3> QED  BY <1>0, <3>1, <3>2 DEF EvType
  <2> QED  BY <1>0, <1>s, <1>t, <2>1 DEF Slac, RestOK
<1>1. CASE Authorize \/ Deauthorize \/ CancelTransaction \/ StartReinit
           \/ SwitchThreePhases
  BY <1>1, <1>l
     DEF Authorize, Deauthorize, CancelTransaction, StartReinit,
          SwitchThreePhases
<1>9. CASE PauseCharging \/ ResumeCharging
  <2>1. PICK call \in {"pause", "resume"} : Asks(call)
    BY <1>9 DEF PauseCharging, ResumeCharging
  <2>2. left' \in LeftType  BY <1>0, <2>1, MayType DEF Asks
  <2> QED  BY <1>0, <1>u, <2>1, <2>2 DEF Asks, RestOK, CmdPlace
<1>2. CASE ErrorThread \/ SetMaxCurrent
  BY <1>2, <1>l DEF ErrorThread, SetMaxCurrent
<1>3. CASE \/ SetHlcChargingActive \/ SetHlcAllowCloseContactor
           \/ DcRenegotiationStarted \/ NotifyCurrentDemandStarted
           \/ DlinkPause \/ NotifySessionStopResSent
           \/ NotifyHlcSessionStarted \/ SetHlcD20Active
           \/ UpdateDcPresentCurrent \/ NotifyHlcPauseNotified
  BY <1>3, <1>l
     DEF SetHlcChargingActive, SetHlcAllowCloseContactor,
          DcRenegotiationStarted, NotifyCurrentDemandStarted, DlinkPause,
          NotifySessionStopResSent, NotifyHlcSessionStarted, SetHlcD20Active,
          UpdateDcPresentCurrent, NotifyHlcPauseNotified, FromHlc
<1>4. CASE DcOpenContactorRequest
  <2>1. left' \in LeftType  BY <1>0, <1>4, MayType DEF DcOpenContactorRequest
  <2> QED
    BY <1>0, <1>4, <1>t, <2>1 DEF DcOpenContactorRequest, RestOK, HlcPlace
<1>5. CASE DlinkTerminate
  <2>1. left' \in LeftType  BY <1>0, <1>5, MayType DEF DlinkTerminate
  <2>2. hlc' \in HlcPlace  BY <1>5 DEF DlinkTerminate, HlcPlace
  <2> QED  BY <1>0, <1>5, <1>t, <2>1, <2>2 DEF DlinkTerminate, RestOK
<1>6. CASE DlinkError
  <2>1. left' \in LeftType  BY <1>0, <1>6, MayType DEF DlinkError
  <2>2. hlc' \in HlcPlace  BY <1>6 DEF DlinkError, DlinkErrorSection, HlcPlace
  <2> QED
    BY <1>0, <1>6, <1>t, <2>1, <2>2 DEF DlinkError, DlinkErrorSection, RestOK
<1>7. CASE EnableDisableConnector
  <2>1. PICK source \in Requests : Request(source)
    BY <1>7 DEF EnableDisableConnector
  <2>2. run' \in RunType
    <3>1. run' \in {[NotRunning EXCEPT !.phase = "command"], run}
      BY <1>7 DEF EnableDisableConnector
    <3> QED  BY <1>0, <3>1 DEF NotRunning, RunType
  <2>3. left' \in LeftType
    BY <1>0, <1>7, MayType DEF EnableDisableConnector
  <2>4. source \in EnableDisableSource /\ table \in Seq(EnableDisableSource)
    BY <1>0 DEF Requests, TableTypeOK
  <2>5. table' \in Seq(EnableDisableSource)
    BY <2>1, <2>4, UpdateType DEF Request
  <2>6. Winner(table') \in EnableDisableSource  BY <2>5, WinnerRule
  <2>7. TableTypeOK'
    BY <1>0, <2>1, <2>5, <2>6 DEF Request, TableTypeOK
  <2>8. UNCHANGED <<queue, hlc, ev, cmd>>  BY <1>7 DEF EnableDisableConnector
  <2> QED  BY <1>0, <2>2, <2>3, <2>7, <2>8 DEF RestOK
<1>8. CASE SlacCall
  BY <1>8, <1>l, <1>s
     DEF SlacCall, SlacMatching, SlacMatched, SetDlinkReady, SlacUnmatched,
          SlacUnmatchedToo, RequestErrorSequence
<1> QED
  BY <1>1, <1>2, <1>3, <1>4, <1>5, <1>6, <1>7, <1>8, <1>9 DEF Command, HlcCall

-----------------------------------------------------------------------------
\* The context of a new Charger.
LEMMA NewContextGood ==
    ASSUME NEW leftover \in Leftover
    PROVE  Good(NewContext(leftover))
<1> DEFINE new == NewContext(leftover)
<1>1. IsCtx(new)
  <2>1. new = [f \in Fields |-> new[f]]
    BY DEF NewContext, Fields
  <2>2. new.timer \in [Deadlines -> TimerState]
    BY DEF NewContext, TimerState
  <2>3. (ChargeMode = "DC") \in BOOLEAN /\ AcHlc \in BOOLEAN
        /\ leftover \in HlcTerminatePause
    BY ChargerConfigAssumption DEF HlcTerminatePause
  <2>4. 0 \in 0..C_SEQU_RETRY /\ 0 \in 0..BCB_PULSES /\ 0 \in 0..2
    BY DEF C_SEQU_RETRY, BCB_PULSES
  <2>5. new.heard \in [transaction : BOOLEAN, odd : SUBSET Oddity]
    BY DEF NewContext
  <2>6. Members(new)
    BY <2>3, <2>4, <2>5
       DEF NewContext, Members, EvseState, ShutdownType, HlcTerminatePause,
            DutyCycle, Output
  <2> QED  BY <2>1, <2>2, <2>6 DEF IsCtx
<1>2. /\ ~new.allow_power_on /\ ~new.flag_transaction_active
      /\ new.current_state = "Idle"
  BY DEF NewContext
<1>3. new.heard.transaction = new.flag_transaction_active
      /\ new.heard.odd \subseteq Unavoidable
  BY DEF NewContext
<1>4. Clean(new)  BY DEF NewContext, Clean, Deadlines
<1> QED
  BY <1>1, <1>2, <1>3, <1>4
     DEF Good, Base, Permitted, AtRest, Returns, Listener

\* The invariant holds when the Charger has been set up.
LEMMA InitCInv ==
    ASSUME Init
    PROVE  CInv
<1>1. Good(ctx) /\ Between
  <2>1. PICK leftover \in Leftover : ctx = NewContext(leftover)  BY DEF Init
  <2>2. ctx.current_state = "Idle"  BY <2>1 DEF NewContext
  <2> QED  BY <2>1, <2>2, NewContextGood DEF Between
<1>2. run \in RunType  BY DEF Init, RunType, NotRunning
<1>3. queue \in Seq(CPEvent)  BY DEF Init
<1>4. hlc \in HlcPlace /\ cmd \in CmdPlace /\ ev \in EvType
  BY DEF Init, HlcPlace, CmdPlace, EvType, CpState
<1>5. left \in LeftType
  <2>1. MaxCalls \in 0..MaxCalls /\ MaxMoves \in 0..MaxMoves
    BY CallAssumption
  <2> QED  BY <2>1 DEF Init, LeftType
<1>6. TableTypeOK
  <2>1. active \in EnableDisableSource
    BY DEF Init, DefaultSource, EnableDisableSource, EnableState
  <2> QED  BY <2>1 DEF Init, TableTypeOK
<1> QED  BY <1>1, <1>2, <1>3, <1>4, <1>5, <1>6 DEF CInv, RestOK

\* Every step keeps it.
LEMMA NextCInv ==
    ASSUME CInv, [Next]_vars
    PROVE  CInv'
<1>1. Good(ctx') /\ Between'  BY ContextStep
<1>2. RestOK'
  <2>0. RestOK  BY DEF CInv
  <2>1. CASE Internal \/ Time \/ EvMoves  BY <2>0, <2>1, InternalType
  <2>2. CASE Command \/ HlcCall \/ SlacCall  BY <2>0, <2>2, CallType
  <2>3. CASE UNCHANGED vars  BY <2>0, <2>3 DEF vars, RestOK, TableTypeOK
  <2> QED  BY <2>1, <2>2, <2>3 DEF Next
<1> QED  BY <1>1, <1>2 DEF CInv

\* The invariant the theorems about the Charger rest on.
THEOREM ChargerInvariant == Spec => []CInv
<1>1. Init => CInv  BY InitCInv
<1>2. CInv /\ [Next]_vars => CInv'  BY NextCInv
<1> QED  BY <1>1, <1>2, PTL DEF Spec

\* Type correctness: whatever is called and whenever, the members of
\* shared_context and internal_context and the queues stay in their domains,
\* the retry counters within their limits.
THEOREM ChargerTypes == Spec => []ChargerTypeOK
<1>1. CInv => ChargerTypeOK
  <2> SUFFICES ASSUME CInv PROVE ChargerTypeOK
    OBVIOUS
  <2>1. ctx \in ContextType  BY CtxIsContext DEF CInv, Good, Base
  <2> QED
    BY <2>1 DEF CInv, RestOK, ChargerTypeOK, EvType, LeftType, HlcPlace,
               CmdPlace
<1> QED  BY <1>1, ChargerInvariant, PTL

\* Between two rounds of the state machine the contactors may be closed only
\* for a transaction that runs.
THEOREM PermissionNeedsTransaction == Spec => []PermissionBacked
<1>1. CInv => PermissionBacked
  BY DEF CInv, Good, Base, Permitted, PermissionBacked
<1> QED  BY <1>1, ChargerInvariant, PTL

\* Once shut_down has handled an error the permission is gone and stays away
\* until the error is cleared, whatever commands arrive.
THEOREM ErrorKeepsPowerOff == Spec => []ShutdownHolds
<1>1. CInv => ShutdownHolds
  BY DEF CInv, Good, Base, Permitted, ShutdownHolds, FatalError
<1> QED  BY <1>1, ChargerInvariant, PTL

\* No step of any thread gives the permission while an error that shuts the
\* charger down is present.
THEOREM NoGiftDuringError == Spec => NoPowerDuringError
<1>1. CInv /\ [Next]_vars
      => [~ctx.allow_power_on /\ ctx'.allow_power_on => ~FatalError(ctx')]_vars
  BY ContextStep DEF NoGift, FatalError
<1> QED  BY <1>1, ChargerInvariant, PTL DEF Spec, NoPowerDuringError

\* A session finds nothing of the one before it: Idle has cleared the reason
\* the last one ended, its deadline, its transaction and its retries.  Only
\* the first Idle, which the code does not initialize, keeps what the memory
\* held in the member without an initializer.
THEOREM IdleIsClean == Spec => []SessionStartsClean
<1>1. CInv => SessionStartsClean
  BY DEF CInv, Good, Base, AtRest, Clean, SessionStartsClean, Settled
<1> QED  BY <1>1, ChargerInvariant, PTL

\* What a listener to the session events has heard is what the Charger
\* believes, whatever is called: a transaction runs for the one iff it runs for
\* the other, started and finished alternate and lie within a session.  The
\* only order it may complain of is a session that deauthorize() ended in
\* WaitingForAuthentication while its transaction was already running.
THEOREM TransactionsArePaired == Spec => []TransactionsPaired
<1>1. CInv => TransactionsPaired
  BY DEF CInv, Good, Base, Listener, Unavoidable, TransactionsPaired
<1> QED  BY <1>1, ChargerInvariant, PTL
=============================================================================
