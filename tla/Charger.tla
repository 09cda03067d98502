------------------------------- MODULE Charger -------------------------------
(***************************************************************************)
(* The charging state machine of the EvseManager module (Charger.cpp) with *)
(* everything that calls into it:                                          *)
(*                                                                         *)
(*   the main thread, which drains bsp_event_queue and runs the state      *)
(*     machine under state_machine_mutex, one iteration of its loop a step *)
(*   the error thread, and the threads that deliver the commands of the    *)
(*     evse_manager interface and the events of SLAC and the HLC stack     *)
(*   the IEC state machine, the relays and the EV, reduced to the events   *)
(*     they put in the queue (IECStateMachine has the detail)              *)
(*                                                                         *)
(* A call that takes the mutex is one step and waits for the main thread;  *)
(* the calls that do not take it interleave with the iterations.           *)
(***************************************************************************)
EXTENDS ChargerPasses

CONSTANTS
    Calls,            \* the calls that occur in a run
    MaxCalls,         \* bound on the number of calls
    MaxMoves,         \* bound on the moves of the EV
    MaxQueue          \* bound on the events waiting in bsp_event_queue

CPEvent == {"CarPluggedIn", "CarRequestedPower", "PowerOn", "PowerOff",
            "CarRequestedStopPower", "CarUnplugged", "BCDtoE"}
CpState == {"A", "B", "C", "E", "F"}
CallName == {"authorize_eim", "authorize_pnc", "deauthorize", "cancel",
             "pause", "resume", "enable_disable", "start_reinit",
             "switch_phases", "error", "emergency", "errors_cleared",
             "max_current", "v2g_setup_finished", "hlc_contactor",
             "dc_open_contactor", "dc_renegotiation", "current_demand",
             "dlink_pause", "dlink_terminate", "dlink_error",
             "session_stop_res", "hlc_restart", "d20", "pause_notified",
             "dc_current", "slac", "slac_unmatched", "slac_error"}

ASSUME CallAssumption ==
    /\ Calls \subseteq CallName
    /\ {MaxCalls, MaxMoves, MaxQueue} \subseteq Nat

VARIABLES
    ctx,      \* the members of Charger (ContextType)
    run,      \* the section the main thread is in
    queue,    \* bsp_event_queue
    hlc,      \* where the HLC thread is in a call of several sections
    cmd,      \* what a command thread has checked and is about to store
    ev,       \* the EV, the relays, and the CP state the IEC machine saw
    left      \* calls and moves left

vars == <<ctx, run, queue, hlc, ev, left, cmd, table, active, published>>

\* phase: none, the loop's own run, a run before and one after the state
\* dependent part of event, a run on behalf of enable_disable.
\* mainloop_runs only makes the loop warn and is left out.
NoEvent == "none"
RunType == [phase : {"none", "loop", "before", "after", "command"},
            event : CPEvent \cup {NoEvent}]
NotRunning == [phase |-> "none", event |-> NoEvent]

Init ==
    /\ \E leftover \in Leftover : ctx = NewContext(leftover)
    /\ run = NotRunning
    /\ queue = <<>>
    /\ hlc = "idle"
    /\ cmd = "idle"
    /\ ev = [cp |-> "A", seen |-> "A", plugged |-> FALSE,
             simplified |-> "no", relays |-> FALSE, link |-> FALSE]
    /\ left = [calls |-> MaxCalls, moves |-> MaxMoves]
    /\ active = [DefaultSource EXCEPT !.enable_state = "Enable"]
    /\ table = <<active>>
    /\ published = TRUE

tableUnchanged == UNCHANGED <<table, active, published>>
othersUnchanged == tableUnchanged /\ UNCHANGED cmd
-----------------------------------------------------------------------------
\* Mutant: the unplug is left to the states.
IndependentEventKeepsPlug(c, e) ==
    CASE e = "CarRequestedStopPower" ->
            [c EXCEPT !.iec_allow_close_contactor = FALSE]
      [] e \in {"PowerOff", "PowerOn"} ->
            [c EXCEPT !.contactor_open = e = "PowerOff"]
      [] OTHER -> c

\* process_cp_events_independent
IndependentEvent(c, e) ==
    CASE e = "CarRequestedStopPower" ->
            [c EXCEPT !.iec_allow_close_contactor = FALSE]
      [] e = "CarUnplugged" -> [c EXCEPT !.flag_ev_plugged_in = FALSE]
      [] e = "PowerOff" -> [c EXCEPT !.contactor_open = TRUE]
      [] e = "PowerOn" -> [c EXCEPT !.contactor_open = FALSE]
      [] OTHER -> c

\* process_cp_events_state
PulseEvent(c, e, valid) ==
    IF e = "CarRequestedPower" THEN BcbStartPulse(c)
    ELSE IF e = "CarRequestedStopPower" THEN BcbStopPulse(c, valid) ELSE c

StateEvent(c, e, valid) ==
    LET state == c.current_state
        requests == [c EXCEPT !.iec_allow_close_contactor = TRUE]
        stops == [c EXCEPT !.iec_allow_close_contactor = FALSE]
    IN CASE state = "Idle" /\ e = "CarPluggedIn" ->
              Go([c EXCEPT !.flag_ev_plugged_in = TRUE],
                 "WaitingForAuthentication")
         [] state \in {"WaitingForAuthentication", "PrepareCharging"}
                /\ e = "CarRequestedPower" -> requests
         [] state = "WaitingForAuthentication"
                /\ e = "CarRequestedStopPower" -> stops
         [] state = "PrepareCharging" /\ e = "CarRequestedStopPower" ->
              Go([stops EXCEPT !.hlc_session_paused_by_evse = FALSE],
                 IF c.hlc_dc_renegotiation THEN state
                                           ELSE "ChargingPausedEVSE")
         [] state = "Charging" /\ e \in {"CarRequestedStopPower", "BCDtoE"} ->
              stops
         [] state = "ChargingPausedEV" /\ e = "CarRequestedPower" ->
              IF ChargeMode = "AC" /\ ~c.hlc_charging_active
              THEN Go(requests, "PrepareCharging")
              ELSE IF ~c.pwm_running THEN BcbStartPulse(requests) ELSE requests
         [] state = "ChargingPausedEV" /\ e = "CarRequestedStopPower" ->
              IF ~c.pwm_running /\ c.hlc_charging_active
              THEN BcbStopPulse(c, valid) ELSE c
         [] state = "StoppingCharging" ->
              IF c.hlc_charging_active /\ ~c.pwm_running
              THEN PulseEvent(c, e, valid) ELSE c
         [] OTHER -> c

\* What a pass in a state may meet outside, and whether a pulse that an event
\* ends has a valid length: a choice only where somebody looks at it.
Env(state) ==
    LET waiting == state = "WaitingForAuthentication"
        updates == ChargeMode = "AC"
                        /\ state \in {"Charging", "ChargingPausedEV"}
    IN [pp : {TRUE, ~(Socket /\ waiting)},
        meter : {TRUE, ~(MeterMayFail /\ waiting)},
        late : {TRUE, ~updates}]
Valid(e) == {TRUE, e # "CarRequestedStopPower"}

\* An iteration on behalf of phase: go on, or leave the section.
Iterate(c, phase, e, env, valid) ==
    LET next == Pass(c, env)
    IN IF ~Settled(next)
       THEN ctx' = next /\ run' = [phase |-> phase, event |-> e]
       ELSE IF phase = "before"
       THEN /\ ctx' = StateEvent(next, e, valid)
            /\ run' = [NotRunning EXCEPT !.phase = "after"]
       ELSE ctx' = next /\ run' = NotRunning

\* main_thread: its periodic run of the state machine.
MainLoop ==
    /\ run.phase = "none"
    /\ \E env \in Env(ctx.current_state) :
         Iterate(ctx, "loop", NoEvent, env, TRUE)
    /\ UNCHANGED <<queue, hlc, ev, left>> /\ othersUnchanged

\* process_event: the plain facts, a run, the state dependent part, a run.
ProcessEvent ==
    /\ run.phase = "none" /\ queue # <<>>
    /\ queue' = Tail(queue)
    /\ \E env \in Env(ctx.current_state), valid \in Valid(Head(queue)) :
         Iterate(IndependentEvent(ctx, Head(queue)), "before", Head(queue),
                 env, valid)
    /\ UNCHANGED <<hlc, ev, left>> /\ othersUnchanged

\* The next iteration of the section the main thread is in.
NextIteration ==
    /\ run.phase # "none"
    /\ \E env \in Env(ctx.current_state), valid \in Valid(run.event) :
         Iterate(ctx, run.phase, run.event, env, valid)
    /\ UNCHANGED <<queue, hlc, ev, left>> /\ othersUnchanged
-----------------------------------------------------------------------------
\* The calls.  A locked call waits for the mutex; a free one does not.
May(call) ==
    /\ call \in Calls
    /\ left.calls > 0
    /\ left' = [left EXCEPT !.calls = @ - 1]

Locked(call, c) ==
    /\ May(call)
    /\ run.phase = "none"
    /\ ctx' = c
    /\ ctx' # ctx
    /\ UNCHANGED <<run, queue, hlc, ev>> /\ othersUnchanged

\* The HLC stack has something to say once there has been a data link; from
\* then on its calls may come late, of a session that is already over.
FromHlc(call, c) == ev.link /\ Locked(call, c)

Free(call, c) ==
    /\ May(call)
    /\ ctx' = c
    /\ ctx' # ctx
    /\ UNCHANGED <<run, queue, hlc, ev>> /\ othersUnchanged

\* authorize(true, ...): not after a cancellation, while disabling, or for a
\* session that is over.
AuthorizedBy(c, pnc) ==
    IF c.flag_externally_cancelled \/ c.flag_disable_requested
         \/ (~c.session_active /\ c.current_state # "Idle")
    THEN c
    ELSE [(IF c.session_active THEN c ELSE StartSession(c))
            EXCEPT !.flag_authorized = TRUE, !.authorized_pnc = pnc]

Authorize ==
    \/ Locked("authorize_eim", AuthorizedBy(ctx, FALSE))
    \/ Locked("authorize_pnc", AuthorizedBy(ctx, TRUE))

Deauthorize == Locked("deauthorize", DeauthorizeInternal(ctx))

\* cancel_transaction
Cancelled(c) ==
    IF c.flag_transaction_active
    THEN [c EXCEPT !.flag_externally_cancelled = TRUE,
                   !.flag_authorized = FALSE, !.authorized_pnc = FALSE]
    ELSE IF c.session_active /\ c.current_state = "WaitingForAuthentication"
    THEN [c EXCEPT !.flag_externally_cancelled = TRUE]
    ELSE c

CancelTransaction == Locked("cancel", Cancelled(ctx))

\* pause_charging and resume_charging, without the mutex: the transaction they
\* have seen may be over when they store the flag.
Asks(call) ==
    /\ May(call)
    /\ cmd = "idle"
    /\ ctx.flag_transaction_active
    /\ cmd' = call
    /\ UNCHANGED <<ctx, run, queue, hlc, ev>> /\ tableUnchanged

PauseCharging == Asks("pause")
ResumeCharging == Asks("resume")

StorePaused ==
    /\ cmd # "idle"
    /\ cmd' = "idle"
    /\ ctx' = [ctx EXCEPT !.flag_paused_by_evse = cmd = "pause"]
    /\ UNCHANGED <<run, queue, hlc, ev, left>> /\ tableUnchanged

\* enable_disable: the table, the connector, and a run if the answer changed.
EnableDisableConnector ==
    \E connector_id \in {0, 1}, source \in Requests :
        LET winner == Winner(TableUpdate(table, source))
            enabled == IF connector_id # 0 THEN IsEnabled(winner)
                                             ELSE ctx.connector_enabled
            c1 == [ctx EXCEPT !.connector_enabled = enabled]
            c2 == IF ctx.current_state = "Disabled" /\ enabled
                  THEN Go([c1 EXCEPT !.flag_disable_requested = FALSE], "Idle")
                  ELSE c1
            changed == IsEnabled(winner) # IsEnabled(active)
        IN /\ May("enable_disable")
           /\ run.phase = "none"
           /\ Request(source)
           /\ ctx' = IF changed /\ ~IsEnabled(winner)
                     THEN [c2 EXCEPT !.flag_disable_requested = TRUE] ELSE c2
           /\ run' = IF changed THEN [NotRunning EXCEPT !.phase = "command"]
                                ELSE run
           /\ UNCHANGED <<queue, hlc, ev, cmd>>

\* start_reinit
ReinitRequested(c) ==
    IF c.current_state \in {"Disabled", "Idle"} \/ c.reinit_running
         \/ (ReinitMethod = "E" /\ ~SupportsE)
    THEN c ELSE [c EXCEPT !.reinit_requested = TRUE]

StartReinit == Locked("start_reinit", ReinitRequested(ctx))

\* switch_three_phases_while_charging; elsewhere the board is told directly.
SwitchThreePhases ==
    Locked("switch_phases",
           IF ~ctx.hlc_charging_active /\ ctx.current_state = "Charging"
           THEN Go([ctx EXCEPT !.switch_phases_ongoing = TRUE], "SwitchPhases")
           ELSE ctx)

\* error_thread
ErrorThread ==
    \/ Locked("error", [ctx EXCEPT !.shutdown_type = "ErrorShutdown"])
    \/ Locked("emergency", [ctx EXCEPT !.shutdown_type = "EmergencyShutdown"])
    \/ Locked("errors_cleared", [ctx EXCEPT !.shutdown_type = "None"])

\* set_max_current, inform_new_evse_max_hlc_limits, and the budget's expiry.
SetMaxCurrent ==
    \E ok \in BOOLEAN :
        Locked("max_current", [ctx EXCEPT !.max_current_ok = ok])
-----------------------------------------------------------------------------
\* The HLC stack.
SetHlcChargingActive ==
    FromHlc("v2g_setup_finished", [ctx EXCEPT !.hlc_charging_active = TRUE])

SetHlcAllowCloseContactor ==
    \E on \in BOOLEAN :
        FromHlc("hlc_contactor", [ctx EXCEPT !.hlc_allow_close_contactor = on])

\* dc_open_contactor_request: the HLC permission under the mutex, then the
\* IEC machine's without it.
DcOpenContactorRequest ==
    /\ ev.link /\ May("dc_open_contactor")
    /\ run.phase = "none" /\ hlc = "idle"
    /\ ctx' = [ctx EXCEPT !.hlc_allow_close_contactor = FALSE]
    /\ hlc' = "open"
    /\ UNCHANGED <<run, queue, ev>> /\ othersUnchanged

DcOpenContactorPower ==
    /\ hlc = "open"
    /\ ctx' = [ctx EXCEPT !.allow_power_on = FALSE]
    /\ hlc' = "idle"
    /\ UNCHANGED <<run, queue, ev, left>> /\ othersUnchanged

DcRenegotiationStarted ==
    FromHlc("dc_renegotiation",
           IF ctx.current_state # "Charging" THEN ctx
           ELSE Go([ctx EXCEPT !.hlc_dc_renegotiation = TRUE,
                               !.hlc_allow_close_contactor = FALSE,
                               !.allow_power_on = FALSE], "PrepareCharging"))

NotifyCurrentDemandStarted ==
    FromHlc("current_demand",
           IF ctx.current_state # "PrepareCharging" THEN ctx
           ELSE Go([ctx EXCEPT !.hlc_dc_renegotiation = FALSE], "Charging"))

\* Mutant: the link layer switches the oscillator off at once.
HlcEndsAtOnce(c, how) ==
    [PilotOff(c, "X1") EXCEPT !.hlc_allow_close_contactor = FALSE,
                              !.hlc_charging_terminate_pause = how]

\* The end of a session reported by the link layer.  A retain timer that is
\* armed decides alone when the oscillator stops.
HlcEnds(c, how) ==
    LET c1 == IF c.timer["retain"] = "off" THEN PilotOff(c, "X1") ELSE c
    IN [c1 EXCEPT !.hlc_allow_close_contactor = FALSE,
                  !.hlc_charging_terminate_pause = how]

\* Mutant: a late signal of an ended session is taken for the next one.
DlinkPausedAnytime(c) == HlcEnds(c, "Pause")

DlinkPaused(c) == IF c.current_state = "Idle" THEN c ELSE HlcEnds(c, "Pause")

DlinkPause == FromHlc("dlink_pause", DlinkPaused(ctx))

PncWithoutChargingLoop(c) ==
    /\ ChargeMode = "AC" /\ c.current_state = "WaitingForAuthentication"
    /\ c.flag_authorized /\ c.authorized_pnc /\ ~c.hlc_charging_active

\* Before the charging loop, and no SessionStop seen: the link was lost.
LinkLostDuringSetup(c) ==
    /\ c.current_state = "PrepareCharging" /\ c.flag_ev_plugged_in
    /\ c.hlc_charging_terminate_pause = "Unknown"
    /\ c.timer["retain"] = "off"

BackToPrepare(c) ==
    [c EXCEPT !.timer["retain"] = "off", !.hlc_allow_close_contactor = FALSE,
              !.hlc_use_5percent = FALSE, !.t_step_EF_return_pwm = "zero",
              !.t_step_EF_return_state = "PrepareCharging"]

\* dlink_terminate: the mutex is released before it calls dlink_error.
DlinkTerminate ==
    /\ ev.link /\ May("dlink_terminate")
    /\ run.phase = "none" /\ hlc = "idle"
    /\ LET c == [ctx EXCEPT !.dlink_established = FALSE]
       IN IF c.current_state = "Idle" THEN ctx' = c /\ hlc' = "idle"
          ELSE IF PncWithoutChargingLoop(c)
          THEN ctx' = Go(BackToPrepare(c), "T_step_EF") /\ hlc' = "idle"
          ELSE IF LinkLostDuringSetup(c) THEN ctx' = c /\ hlc' = "error"
          ELSE ctx' = HlcEnds(c, "Terminate") /\ hlc' = "idle"
    /\ UNCHANGED <<run, queue, ev>> /\ othersUnchanged

\* The section of dlink_error, when the error is not a late or expected one.
DlinkFailed(c) ==
    LET c1 == [c EXCEPT !.timer["retain"] = "off", !.hlc_failed = TRUE,
                        !.hlc_allow_close_contactor = FALSE]
        over == c1.current_state = "Finished"
                  \/ (c1.current_state = "StoppingCharging"
                        /\ (~c1.flag_transaction_active \/ ~c1.flag_authorized
                              \/ c1.flag_disable_requested))
        setup == c1.current_state \in {"WaitingForAuthentication",
                                       "PrepareCharging"}
        c2 == IF ChargeMode = "AC"
              THEN [c1 EXCEPT !.hlc_charging_active = FALSE] ELSE c1
        c3 == IF c2.hlc_use_5percent THEN PilotOff(c2, "X1") ELSE c2
    IN IF over
       THEN [(IF c1.pwm_running THEN PilotOff(c1, "X1") ELSE c1)
                EXCEPT !.allow_power_on = FALSE]
       ELSE IF PncWithoutChargingLoop(c1)
       THEN Go([BackToPrepare(c1) EXCEPT !.t_step_X1_until_unmatched = TRUE],
               "T_step_X1")
       ELSE IF c3.hlc_use_5percent /\ setup
       THEN Go([c3 EXCEPT
                  !.t_step_EF_return_state = "WaitingForAuthentication",
                  !.t_step_EF_return_pwm = "zero",
                  !.t_step_X1_until_unmatched = TRUE], "T_step_X1")
       ELSE c3

\* ... which goes on, without the mutex, to start_reinit.
GoesOnToReinit(c) ==
    /\ ~c.reinit_requested /\ ~c.reinit_running
    /\ c.current_state \notin {"Idle", "Finished"}
    /\ c.current_state = "StoppingCharging"
         => c.flag_transaction_active /\ c.flag_authorized
                /\ ~c.flag_disable_requested
    /\ c.current_state \in {"WaitingForAuthentication", "PrepareCharging"}
         => ~PncWithoutChargingLoop(c) /\ ~c.hlc_use_5percent

DlinkErrorSection ==
    LET c == [ctx EXCEPT !.dlink_established = FALSE]
    IN /\ run.phase = "none"
       /\ ctx' = IF c.reinit_requested \/ c.reinit_running
                        \/ c.current_state = "Idle"
                 THEN c ELSE DlinkFailed(c)
       /\ hlc' = IF GoesOnToReinit(c) THEN "reinit" ELSE "idle"
       /\ UNCHANGED <<run, queue, ev>> /\ othersUnchanged

DlinkError ==
    hlc = "idle" /\ ev.link /\ May("dlink_error") /\ DlinkErrorSection

DlinkErrorAfterTerminate ==
    hlc = "error" /\ DlinkErrorSection /\ UNCHANGED left

DlinkErrorReinit ==
    /\ hlc = "reinit" /\ run.phase = "none"
    /\ ctx' = IF ctx.hlc_use_5percent THEN ReinitRequested(ctx) ELSE ctx
    /\ hlc' = "idle"
    /\ UNCHANGED <<run, queue, ev, left>> /\ othersUnchanged

\* notify_session_stop_res_sent
SessionStopRes(c, action) ==
    LET c1 == [c EXCEPT !.hlc_allow_close_contactor = FALSE,
                        !.hlc_charging_terminate_pause =
                            IF action = "Pause" THEN "Pause" ELSE "Terminate"]
    IN IF c.current_state = "Idle" \/ ~c.hlc_charging_active THEN c
       ELSE IF action = "FailedTermination" THEN PilotOff(c1, "X1")
       ELSE [c1 EXCEPT !.timer["retain"] = "armed"]

NotifySessionStopResSent ==
    \E action \in {"Pause", "Terminate", "FailedTermination"} :
        FromHlc("session_stop_res", SessionStopRes(ctx, action))

\* notify_hlc_session_started_by_ev
NotifyHlcSessionStarted ==
    FromHlc("hlc_restart",
           IF ctx.current_state = "ChargingPausedEV"
                /\ ctx.hlc_charging_active
                /\ ctx.hlc_charging_terminate_pause # "Unknown"
           THEN [ctx EXCEPT !.hlc_session_restarted_by_ev = TRUE] ELSE ctx)

\* set_hlc_d20_active and update_dc_present_current, without the mutex.
SetHlcD20Active ==
    \E dynamic \in BOOLEAN :
        ev.link /\ Free("d20", [ctx EXCEPT !.hlc_d20_active = TRUE,
                                           !.hlc_d20_dynamic_mode = dynamic])
UpdateDcPresentCurrent ==
    \E flows \in BOOLEAN : Free("dc_current", [ctx EXCEPT !.dc_current = flows])

NotifyHlcPauseNotified ==
    FromHlc("pause_notified",
           [ctx EXCEPT !.d20_pause_confirmed = @ \/ ctx.d20_pause_requested])

\* SLAC matches with an EV that is there; the link comes up, and may be lost.
Slac(call, guard, c) ==
    /\ call \in Calls /\ guard
    /\ run.phase = "none"
    /\ ctx' = c /\ ctx' # ctx
    /\ ev' = [ev EXCEPT !.link = @ \/ c.dlink_established]
    /\ UNCHANGED <<run, queue, hlc, left>> /\ othersUnchanged

\* UNMATCHED is two sections: set_matching_started and set_slac_matched.
Unmatching == ctx.slac_matched /\ ~ctx.matching_started

\* MATCHING is two sections as well; but for the time of an UNMATCHED matched
\* implies started, so that only one of the two has something to change.
SlacMatching ==
    Slac("slac", ev.cp # "A" /\ ~Unmatching,
         [ctx EXCEPT !.slac_matched = FALSE, !.matching_started = TRUE])
SlacMatched ==
    Slac("slac", ctx.matching_started,
         [ctx EXCEPT !.slac_matched = TRUE, !.slac_retries = 0])
SetDlinkReady ==
    Slac("slac", ctx.slac_matched /\ ~Unmatching,
         [ctx EXCEPT !.dlink_established = TRUE])
SlacUnmatched ==
    Locked("slac_unmatched", [ctx EXCEPT !.matching_started = FALSE])
SlacUnmatchedToo ==
    Slac("slac", Unmatching, [ctx EXCEPT !.slac_matched = FALSE])
RequestErrorSequence ==
    ~Unmatching /\ Locked("slac_error", ErrorSequence(ctx))
-----------------------------------------------------------------------------
\* Time.  A deadline that is armed becomes due; time_in_current_state passes
\* the next threshold of the state.  T_STEP_EF and T_STEP_X1 are not shorter
\* than the minimum time in X1 that began when the state was entered.
Thresholds(state) ==
    CASE state \in {"T_step_EF", "T_step_X1", "PrepareCharging"} -> 2
      [] state \in {"WaitingForAuthentication", "SwitchPhases",
                    "StoppingCharging"} -> 1
      [] OTHER -> 0

DeadlinePasses ==
    /\ run.phase = "none"
    /\ \E d \in Deadlines :
         /\ ctx.timer[d] = "armed"
         /\ ctx' = [ctx EXCEPT !.timer[d] = "due"]
    /\ UNCHANGED <<run, queue, hlc, ev, left>> /\ othersUnchanged

StateAges ==
    /\ run.phase = "none" /\ Settled(ctx)
    /\ ctx.age < Thresholds(ctx.current_state)
    /\ ctx' = [ctx EXCEPT
                 !.age = @ + 1,
                 !.timer["x1"] =
                    IF @ = "armed"
                         /\ \/ ctx.current_state = "T_step_EF"
                            \/ ctx.current_state = "T_step_X1" /\ ctx.age = 1
                            \/ ctx.current_state \in {"PrepareCharging",
                                                      "StoppingCharging"}
                    THEN "due" ELSE @]
    /\ UNCHANGED <<run, queue, hlc, ev, left>> /\ othersUnchanged
-----------------------------------------------------------------------------
\* The IEC state machine, reduced: in E and F the pilot says nothing about
\* the EV; leaving C, and A, E and F, withdraw the permission.
Measured == IF ctx.output \in {"E", "F"} THEN ctx.output ELSE ev.cp

\* A car that is first seen in C is in simplified mode.
PlugsIn(from, to) ==
    /\ to \in {"B", "C"}
    /\ from = "A" \/ (~ev.plugged /\ (from = "F" \/ (from = "E" /\ to = "B")))

EventsOf(from, to) ==
    CASE to = "A" -> <<"CarUnplugged">>
      [] PlugsIn(from, to) -> <<"CarPluggedIn">>
      [] to = "B" /\ from = "C" -> <<"CarRequestedStopPower">>
      [] to = "C" /\ from = "B" -> <<"CarRequestedPower">>
      [] to = "E" /\ from \in {"B", "C"} /\ ctx.output # "E" -> <<"BCDtoE">>
      [] OTHER -> <<>>

\* ev_simplified_mode, and whether the running PWM has been answered with the
\* request that such a car does not make itself.
Simplified(from, to) ==
    IF PlugsIn(from, to)
    THEN IF to = "B" THEN "no"
         ELSE IF ctx.output = "PWM" THEN "told" ELSE "armed"
    ELSE IF to = "A" THEN "no" ELSE ev.simplified

IecStep ==
    LET from == ev.seen
        to == Measured
        events == EventsOf(from, to)
        off == to \in {"A", "E", "F"} \/ (from = "C" /\ to = "B")
    IN /\ to # from
       /\ Len(queue) + Len(events) <= MaxQueue
       /\ queue' = queue \o events
       /\ ev' = [ev EXCEPT !.seen = to,
                           !.plugged = PlugsIn(from, to) \/ (@ /\ to # "A"),
                           !.simplified = Simplified(from, to)]
       /\ ctx' = [ctx EXCEPT
                    !.allow_power_on = @ /\ ~off,
                    !.output = IF to \in {"A", "E"} /\ @ = "PWM"
                               THEN "X1" ELSE @]
       /\ UNCHANGED <<run, hlc, left>> /\ othersUnchanged

\* In simplified mode the start of the PWM stands for the request.
IecSimplified ==
    LET asks == ev.simplified = "armed" /\ ev.seen = "C"
    IN /\ <<ev.simplified, ctx.output = "PWM">>
               \in {<<"armed", TRUE>>, <<"told", FALSE>>}
       /\ asks => Len(queue) < MaxQueue
       /\ queue' = IF asks THEN Append(queue, "CarRequestedPower") ELSE queue
       /\ ev' = [ev EXCEPT !.simplified = IF @ = "armed" THEN "told"
                                                        ELSE "armed"]
       /\ UNCHANGED <<ctx, run, hlc, left>> /\ othersUnchanged

\* timeout_state_c1: an EV that stays in C without PWM loses its power.
IecC1Timeout ==
    /\ ev.seen = "C" /\ ctx.output = "X1" /\ ctx.allow_power_on
    /\ ctx' = [ctx EXCEPT !.allow_power_on = FALSE]
    /\ UNCHANGED <<run, queue, hlc, ev, left>> /\ othersUnchanged

\* The relays follow the permission in state C.
Relays ==
    LET on == ctx.allow_power_on /\ ev.seen = "C"
                /\ (ev.relays \/ ctx.output = "PWM")
    IN /\ ev.relays # on
       /\ Len(queue) < MaxQueue
       /\ ev' = [ev EXCEPT !.relays = on]
       /\ queue' = Append(queue, IF on THEN "PowerOn" ELSE "PowerOff")
       /\ UNCHANGED <<ctx, run, hlc, left>> /\ othersUnchanged

\* The EV moves between A, B, C and (a fault on its side) E.  The board
\* reports every state, so the IEC machine sees them one after the other,
\* unless E or F on the pilot hides them.
EvMoves ==
    /\ left.moves > 0
    /\ Measured = ev.seen
    /\ left' = [left EXCEPT !.moves = @ - 1]
    /\ \E to \in {"A", "B", "C", "E"} :
         /\ <<ev.cp, to>> \in {<<"A", "B">>, <<"B", "A">>, <<"B", "C">>,
                               <<"C", "B">>, <<"C", "A">>, <<"C", "E">>,
                               <<"E", "B">>, <<"E", "A">>}
         /\ ev' = [ev EXCEPT !.cp = to]
    /\ UNCHANGED <<ctx, run, queue, hlc>> /\ othersUnchanged

\* Everything the system does by itself, and what others ask of it.
Internal == MainLoop \/ ProcessEvent \/ NextIteration
                \/ DcOpenContactorPower \/ StorePaused
                \/ DlinkErrorAfterTerminate \/ DlinkErrorReinit
                \/ IecStep \/ IecSimplified \/ IecC1Timeout \/ Relays
Time == DeadlinePasses \/ StateAges
Command == Authorize \/ Deauthorize \/ CancelTransaction \/ PauseCharging
            \/ ResumeCharging \/ EnableDisableConnector \/ StartReinit
            \/ SwitchThreePhases \/ ErrorThread \/ SetMaxCurrent
HlcCall == SetHlcChargingActive \/ SetHlcAllowCloseContactor
            \/ DcOpenContactorRequest \/ DcRenegotiationStarted
            \/ NotifyCurrentDemandStarted \/ DlinkPause \/ DlinkTerminate
            \/ DlinkError \/ NotifySessionStopResSent
            \/ NotifyHlcSessionStarted \/ SetHlcD20Active
            \/ UpdateDcPresentCurrent \/ NotifyHlcPauseNotified
SlacCall == SlacMatching \/ SlacMatched \/ SetDlinkReady \/ SlacUnmatched
                \/ SlacUnmatchedToo \/ RequestErrorSequence

Next == Internal \/ Time \/ Command \/ HlcCall \/ SlacCall \/ EvMoves

Spec == Init /\ [][Next]_vars

\* The main thread runs and drains the queue every 100 ms, a thread that
\* waits for the mutex gets it, the IEC machine and the relays report what
\* they see, time passes.  Nobody has to call.  The main thread's part is
\* weak fairness with the enabling condition written out.
MainLoopIdle ==
    run.phase # "none" \/ \A env \in Env(ctx.current_state) : Pass(ctx, env) = ctx

Fairness ==
    /\ []<>MainLoopIdle \/ []<><<MainLoop>>_vars
    /\ []<>(run.phase # "none" \/ queue = <<>>) \/ []<><<ProcessEvent>>_vars
    /\ []<>(run.phase = "none") \/ []<><<NextIteration>>_vars
    /\ []<>(hlc = "idle") /\ []<>(cmd = "idle") /\ WF_vars(SlacUnmatchedToo)
    /\ WF_vars(IecStep) /\ WF_vars(IecSimplified)
    /\ WF_vars(IecC1Timeout) /\ WF_vars(Relays)
    /\ WF_vars(DeadlinePasses) /\ WF_vars(StateAges)

FairSpec == Spec /\ Fairness
-----------------------------------------------------------------------------
\* The variables stay in their types.
ChargerTypeOK ==
    /\ ctx \in ContextType
    /\ run \in RunType
    /\ queue \in Seq(CPEvent)
    /\ hlc \in {"idle", "open", "error", "reinit"}
    /\ cmd \in {"idle", "pause", "resume"}
    /\ ev \in [cp : CpState, seen : CpState, plugged : BOOLEAN,
              simplified : {"no", "armed", "told"},
              relays : BOOLEAN, link : BOOLEAN]
    /\ left \in [calls : 0..MaxCalls, moves : 0..MaxMoves]
    /\ TableTypeOK

\* The IEC state machine holds a permission to close the contactors only
\* while a transaction runs that can be billed.
PermissionBacked ==
    run.phase = "none" /\ ctx.allow_power_on => ctx.flag_transaction_active

\* An error thread's report stops the permission from being given, however
\* the state machine got to the state that gives it.
NoPowerDuringError ==
    [][~ctx.allow_power_on /\ ctx'.allow_power_on => ~FatalError(ctx')]_vars

\* Once the shutdown has been carried out power stays off until it is over.
ShutdownHolds ==
    run.phase = "none" /\ FatalError(ctx)
        /\ ctx.last_shutdown_type = ctx.shutdown_type
    => ~ctx.allow_power_on

\* At 5 percent the EV's own charging loop opens the way: the permission is
\* given only while the HLC stack asks for closed contactors, although the
\* state that checks it and the state that gives it are different ones.
HlcPermits ==
    [][~ctx.allow_power_on /\ ctx'.allow_power_on /\ ctx'.hlc_use_5percent
       => ctx.hlc_allow_close_contactor]_vars

\* Whoever listens to the events knows whether a transaction runs, hears its
\* start and its finish once each, and the end of the session after that of
\* its transaction, unless deauthorize() ends the session on its own.
TransactionsPaired ==
    /\ ctx.heard.transaction = ctx.flag_transaction_active
    /\ ctx.heard.odd \subseteq {"deauthorized during its transaction"}

\* The nominal PWM comes back only after the minimum time in X1.
MinimumTimeInX1 ==
    [][PwmSignalOff(ctx) /\ ~PwmSignalOff(ctx')
         /\ ctx'.last_duty_cycle = "nominal"
       => ctx.timer["x1"] # "armed"]_vars

\* The states of a session that has a transaction, outside the sequences on
\* the pilot that start the communication over.
InTransaction == {"PrepareCharging", "Charging", "ChargingPausedEV",
                  "ChargingPausedEVSE", "StoppingCharging"}

\* An HLC session that has ended does not get its oscillator back from a
\* resume, a new budget or a late event: only a new session of the EV does.
EndedStaysOff ==
    [][ctx.current_state \in InTransaction \ {"Charging"}
         /\ ctx.hlc_charging_active
         /\ ~ctx.pwm_running
         /\ ctx.hlc_charging_terminate_pause # "Unknown"
         /\ ctx'.hlc_charging_terminate_pause # "Unknown"
       => ~ctx'.pwm_running]_vars

\* The oscillator is retained after SessionStopRes, whatever the link layer,
\* the EV and the commands do meanwhile; a failed session, a reinitialization
\* and an emergency go first, and so does Charging at a nominal duty cycle when
\* its budget is gone.
RetainHolds ==
    [][{ctx.current_state, ctx'.current_state} \subseteq InTransaction
         /\ ctx.timer["retain"] = "armed" /\ ctx'.timer["retain"] = "armed"
         /\ ctx.pwm_running
         /\ ctx.shutdown_type # "EmergencyShutdown"
         /\ (ctx.current_state = "Charging"
               => PowerAvailable(ctx) \/ ctx.hlc_use_5percent)
         /\ ~NotifySessionStopResSent
       => ctx'.pwm_running]_vars


\* A late signal of the last session's link does not reach the next one, which
\* finds nothing of it; only the first session may find in the one member that
\* is never initialized what was in the memory before.
SessionStartsClean ==
    run.phase = "none" /\ Settled(ctx) /\ ctx.current_state = "Idle"
    => /\ ctx.hlc_charging_terminate_pause \in {"Unknown"} \cup Leftover
       /\ ctx.timer["retain"] = "off"
       /\ ~ctx.flag_transaction_active /\ ~ctx.allow_power_on
       /\ ~ctx.hlc_failed /\ ctx.slac_retries = 0

\* A request to disable is served, whatever the session is doing.
DisableServed ==
    ctx.flag_disable_requested
        ~> (ctx.current_state = "Disabled" \/ ~ctx.flag_disable_requested)

\* An EV that has been unplugged for good leaves the charger free.
UnplugServed ==
    ev.cp = "A" ~> (ev.cp # "A" \/ ctx.current_state \in {"Idle", "Disabled"})

\* A session paused by the charging station goes on when no reason to pause
\* is left, unless it has ended meanwhile.
PauseEnds ==
    LET reason == \/ FatalError(ctx) \/ ~PowerAvailable(ctx)
                  \/ ctx.flag_paused_by_evse
    IN ctx.current_state = "ChargingPausedEVSE" /\ ~reason
         ~> (ctx.current_state # "ChargingPausedEVSE" \/ reason)
=============================================================================
