--------------------------- MODULE IECStateMachine ---------------------------
(***************************************************************************)
(* The low level IEC 61851-1 state machine of the EvseManager module       *)
(* (IECStateMachine.cpp), at the granularity of its mutexes and threads.   *)
(*                                                                         *)
(*   bsp      the thread that delivers the board support events            *)
(*   chg      Charger: PWM, X1, E, F, power permission, authorization      *)
(*   pp       the proximity pilot subscription                             *)
(*   cmd      force_unlock and the keep_cable_locked configuration         *)
(*   c1, f, captive   the wait threads of the three AsyncTimeouts          *)
(*                                                                         *)
(* A section under state_machine_mutex is one step.  Everything done       *)
(* outside it (the BSP call of a setter, the start or stop of a timer, the *)
(* signals) is a step of its own, interleaved with all other threads.      *)
(***************************************************************************)
EXTENDS AsyncTimeout, ConnectorLock, Sequences

CONSTANTS
    LockInStateB,     \* config lock_connector_in_state_b
    UseAuthorized,    \* config unlock_when_deauthorized
    HasVentilation,   \* config has_ventilation: state D may charge
    CaptiveMode,      \* config keep_cable_locked at start
    SeatingDelay,     \* keep_cable_locked_lock_delay_ms > 0
    Inputs            \* the board events and the calls that may occur

RawCPState == {"Disabled", "A", "B", "C", "D", "E", "F"}
PilotOutput == {"X1", "PWM", "E", "F"}     \* what the BSP was told to emit
CPEvent == {"CarPluggedIn", "CarRequestedPower", "PowerOn", "PowerOff",
            "CarRequestedStopPower", "CarUnplugged", "EFtoBCD", "BCDtoEF",
            "BCDtoE"}
Timers == {"c1", "f", "captive"}
Callers == {"bsp", "chg", "pp", "cmd"}
Threads == Callers \cup Timers
ChargerCalls == {"set_pwm", "set_cp_state_X1", "set_cp_state_E",
                 "set_cp_state_F", "allow", "disallow", "authorize",
                 "deauthorize", "enable", "disable"}
OtherCalls == {"PowerOn", "PowerOff", "plug", "unplug", "force_unlock",
               "keep", "release"}

ASSUME ConfigAssumption ==
    /\ {LockInStateB, UseAuthorized, HasVentilation, CaptiveMode, SeatingDelay}
            \subseteq BOOLEAN
    /\ Inputs \subseteq RawCPState \cup ChargerCalls \cup OtherCalls
    /\ NoThread \notin Threads

VARIABLES
    iec,      \* the control pilot members (IecType)
    lk,       \* the connector lock members (LockType)
    timer,    \* timeout_state_c1, timeout_unlock_state_F, timeout_captive_lock
    mutex,    \* the thread blocked inside a state_machine() section, if any
    th,       \* per thread: program counter and locals (ThreadType)
    signalled_raw_cp_state,
    enabled,
    aborted   \* a wait thread joined itself: std::terminate

vars == <<iec, lk, timer, mutex, th, signalled_raw_cp_state, enabled, aborted>>

IecType ==
    [pwm_running : BOOLEAN, last_pwm_running : BOOLEAN,
     ev_simplified_mode : BOOLEAN, car_plugged_in : BOOLEAN,
     power_on_allowed : BOOLEAN, last_power_on_allowed : BOOLEAN,
     last_power_on_forwarded : BOOLEAN,       \* what the BSP was told
     cp_state_f_requested : BOOLEAN,
     state_e_triggered_through_handle : BOOLEAN,
     last_cp_state : RawCPState, output : PilotOutput]

PC == {"idle", "call", "feed", "timers", "join", "signal", "captive"}
Control == {"start", "stop", "nothing"}
NoCp == "nullopt"

\* call: the BSP call a setter makes next; cp: the argument of
\* feed_state_machine; todo: the timer controls still to be executed, in
\* order; events: what state_machine() returned.
ThreadType ==
    [pc : PC, call : PilotOutput, cp : RawCPState \cup {NoCp},
     todo : Seq(Timers \X {"start", "stop"}), events : Seq(CPEvent)]

Idle == [pc |-> "idle", call |-> "X1", cp |-> NoCp, todo |-> <<>>,
         events |-> <<>>]
Feeding(cp) == [Idle EXCEPT !.pc = "feed", !.cp = cp]
Calling(out) == [Idle EXCEPT !.pc = "call", !.call = out]

Init ==
    /\ iec = [pwm_running |-> FALSE, last_pwm_running |-> FALSE,
              ev_simplified_mode |-> FALSE, car_plugged_in |-> FALSE,
              power_on_allowed |-> FALSE, last_power_on_allowed |-> FALSE,
              last_power_on_forwarded |-> FALSE,
              cp_state_f_requested |-> FALSE,
              state_e_triggered_through_handle |-> FALSE,
              last_cp_state |-> "Disabled", output |-> "X1"]
    /\ lk = NewLock(UseAuthorized, CaptiveMode)
    /\ timer = [k \in Timers |-> NewTimer]
    /\ mutex = NoThread
    /\ th = [t \in Threads |-> Idle]
    /\ signalled_raw_cp_state = "Disabled"
    /\ enabled = FALSE
    /\ aborted = FALSE

-----------------------------------------------------------------------------
\* The section of state_machine(), one operator per CP state.  Each returns
\* the new members, the lock request, the C1 timer control and the events.

When(b, e) == IF b THEN <<e>> ELSE <<>>

Outcome(s, lock, c1, events) ==
    [iec |-> s, lock |-> lock, c1 |-> c1, events |-> events]

\* Mutant: the permission is dropped, the board is not told.
PowerOffUntold(s) == [s EXCEPT !.power_on_allowed = FALSE]

\* call_allow_power_on_bsp
PowerOff(s) == [s EXCEPT !.power_on_allowed = FALSE,
                         !.last_power_on_forwarded = FALSE]
PowerOn(s) == [s EXCEPT !.last_power_on_forwarded = TRUE]

\* Mutants: the flag survives the reset; the reset ignores a wanted F.
ResetPilotKeepsFlag(s) ==
    [s EXCEPT !.output = IF s.cp_state_f_requested THEN @ ELSE "X1"]
ResetPilotAlways(s) == [s EXCEPT !.pwm_running = FALSE, !.output = "X1"]

\* pwm_running = false and the automatic X1, unless F is wanted.
ResetPilot(s) ==
    [s EXCEPT !.pwm_running = FALSE,
              !.output = IF s.cp_state_f_requested THEN @ ELSE "X1"]

InDisabled(s) ==
    IF s.last_cp_state = "Disabled" THEN Outcome(s, "keep", "nothing", <<>>)
    ELSE Outcome([PowerOff(ResetPilot(s)) EXCEPT !.ev_simplified_mode = FALSE],
                 "unlock", "stop", <<>>)

InA(s) ==
    IF s.last_cp_state = "A" THEN Outcome(s, "keep", "nothing", <<>>)
    ELSE Outcome([PowerOff(ResetPilot(s)) EXCEPT !.ev_simplified_mode = FALSE,
                                                 !.car_plugged_in = FALSE],
                 "unlock", "stop",
                 When(s.last_cp_state # "Disabled", "CarUnplugged"))

InB(s) ==
    LET stopped == s.last_cp_state \in {"C", "D"}
        fromEF == s.last_cp_state \in {"E", "F"}
        plugIn == s.last_cp_state \in {"A", "Disabled"}
                    \/ (~s.car_plugged_in /\ fromEF)
        off == IF stopped THEN PowerOff(s) ELSE s
    IN Outcome(IF plugIn THEN [off EXCEPT !.car_plugged_in = TRUE,
                                          !.ev_simplified_mode = FALSE]
                         ELSE off,
               IF LockInStateB THEN "lock" ELSE "unlock",
               IF stopped THEN "stop" ELSE "nothing",
               When(stopped, "CarRequestedStopPower")
                 \o When(plugIn, "CarPluggedIn") \o When(fromEF, "EFtoBCD"))

\* c1Reached: what timeout_state_c1.reached() returns.
InC(s, c1Reached) ==
    LET plugIn == s.last_cp_state \in {"A", "Disabled"}
                    \/ (~s.car_plugged_in /\ s.last_cp_state = "F")
        paused == ~s.pwm_running /\ s.last_pwm_running
        resumed == s.pwm_running /\ ~s.last_pwm_running
        s1 == IF plugIn THEN [s EXCEPT !.car_plugged_in = TRUE,
                                       !.ev_simplified_mode = TRUE] ELSE s
        s2 == IF resumed /\ s1.power_on_allowed THEN PowerOn(s1) ELSE s1
        s3 == IF c1Reached THEN PowerOff(s2) ELSE s2
        s4 == IF s3.pwm_running /\ s3.power_on_allowed
                 /\ (~s3.last_power_on_allowed \/ s.last_cp_state = "B")
              THEN PowerOn(s3) ELSE s3
    IN Outcome(s4, "lock",
               IF paused THEN "start" ELSE IF resumed THEN "stop"
                                                      ELSE "nothing",
               When(plugIn, "CarPluggedIn")
                 \o When(s.last_cp_state = "B", "CarRequestedPower")
                 \o When(resumed /\ s1.ev_simplified_mode, "CarRequestedPower"))

InD(s, c1Reached) ==
    IF HasVentilation THEN InC(s, c1Reached)
    ELSE Outcome(PowerOff(s), "lock", "stop", <<>>)

InE(s) ==
    LET byEvse == s.state_e_triggered_through_handle
        s1 == [s EXCEPT !.state_e_triggered_through_handle = FALSE]
        off == PowerOff(IF byEvse THEN [s1 EXCEPT !.pwm_running = FALSE]
                                  ELSE ResetPilot(s1))
        lost == s.last_cp_state \in {"B", "C", "D"}
        lock == IF byEvse THEN "keep" ELSE "unlock"
    IN IF s.last_cp_state = "E" THEN Outcome(s1, lock, "nothing", <<>>)
       ELSE Outcome(off, lock, "stop",
                    When(lost, "BCDtoEF") \o When(lost /\ ~byEvse, "BCDtoE"))

\* fReached: what timeout_unlock_state_F.reached() returns.
InF(s, fReached) ==
    LET off == PowerOff(s)
    IN Outcome(IF s.last_cp_state = "F" THEN off
                                        ELSE [off EXCEPT !.pwm_running = FALSE],
               IF fReached THEN "unlock" ELSE "keep",
               "stop",
               When(s.last_cp_state \in {"B", "C", "D"}, "BCDtoEF"))

StateOutcome(s, cp, c1Reached, fReached) ==
    CASE cp = "Disabled" -> InDisabled(s)
      [] cp = "A" -> InA(s)
      [] cp = "B" -> InB(s)
      [] cp = "C" -> InC(s, c1Reached)
      [] cp = "D" -> InD(s, c1Reached)
      [] cp = "E" -> InE(s)
      [] cp = "F" -> InF(s, fReached)

\* Mutant: entering F does not start the unlock timer.
FControlStopOnly(s, cp) ==
    IF cp # "F" /\ s.last_cp_state = "F" THEN "stop" ELSE "nothing"

\* The unlock timer of state F starts on entry and stops on exit.
FControl(s, cp) ==
    IF cp = "F" /\ s.last_cp_state # "F" THEN "start"
    ELSE IF cp # "F" /\ s.last_cp_state = "F" THEN "stop" ELSE "nothing"

\* The end of the section: the last_... members.
Remember(s, cp) ==
    [s EXCEPT !.last_cp_state = cp, !.last_pwm_running = s.pwm_running,
              !.last_power_on_allowed = s.power_on_allowed]

\* Whether the section asks a timer reached(), and so needs its mutex.
Asks(cp, k) ==
    \/ k = "c1" /\ (cp = "C" \/ (cp = "D" /\ HasVentilation))
    \/ k = "f" /\ cp = "F"

Controls(c1, f) ==
    (IF c1 = "nothing" THEN <<>> ELSE <<<<"c1", c1>>>>)
        \o (IF f = "nothing" THEN <<>> ELSE <<<<"f", f>>>>)

-----------------------------------------------------------------------------
\* Threads.

\* Mutant: a pass that derived no event publishes nothing.
ResumeEventsOnly(t, l) ==
    IF l.todo # <<>> THEN [l EXCEPT !.pc = "timers"]
    ELSE IF l.events # <<>> THEN [l EXCEPT !.pc = "signal"] ELSE Idle

\* Nothing is left to do: a caller returns, a wait thread leaves its
\* callback and its thread function.
Resume(t, l) ==
    IF l.todo # <<>> THEN [l EXCEPT !.pc = "timers"]
    ELSE IF l.events # <<>> \/ l.cp \notin {NoCp, signalled_raw_cp_state}
         THEN [l EXCEPT !.pc = "signal"]
         ELSE Idle

\* ... and th and timer after thread t goes on with locals l.
Continue(t, l, tms) ==
    LET next == Resume(t, l)
    IN /\ th' = [th EXCEPT ![t] = next]
       /\ timer' = IF t \in Timers /\ next.pc = "idle"
                   THEN [tms EXCEPT ![t] = Exit(@)] ELSE tms

\* cp_state_opt.value_or(last_cp_state)
CpOf(t) == IF th[t].cp = NoCp THEN iec.last_cp_state ELSE th[t].cp

\* state_machine(): the section, when no mutex it needs is taken.
Section(t) ==
    LET cp == CpOf(t)
        out == StateOutcome(iec, cp, Reached(timer["c1"]), Reached(timer["f"]))
    IN /\ ~aborted
       /\ th[t].pc = "feed"
       /\ mutex \in {NoThread, t}
       /\ \A k \in Timers : Asks(cp, k) => timer[k].owner = NoThread
       /\ iec' = Remember(out.iec, cp)
       /\ lk' = check_connector_lock(Request(lk, out.lock))
       /\ mutex' = NoThread
       /\ Continue(t, [th[t] EXCEPT !.events = out.events,
                                    !.todo = Controls(out.c1, FControl(iec, cp))],
                   timer)
       /\ UNCHANGED <<signalled_raw_cp_state, enabled, aborted>>

\* The section blocks in reached(): the timer's mutex is taken by a thread
\* that joins the timer's wait thread.  state_machine_mutex stays locked.
Block(t) ==
    LET cp == CpOf(t)
    IN /\ ~aborted
       /\ th[t].pc = "feed"
       /\ mutex = NoThread
       /\ \E k \in Timers : Asks(cp, k) /\ timer[k].owner # NoThread
       /\ mutex' = t
       /\ UNCHANGED <<iec, lk, timer, th, signalled_raw_cp_state, enabled, aborted>>

\* AsyncTimeout::start() / stop() up to the join.
TimerControl(t) ==
    /\ ~aborted
    /\ th[t].pc = "timers"
    /\ LET k == Head(th[t].todo)[1]
           op == Head(th[t].todo)[2]
           rest == [th[t] EXCEPT !.todo = Tail(@)]
       IN /\ timer[k].owner = NoThread
          /\ \/ /\ ~timer[k].running
                /\ Continue(t, rest, IF op = "start"
                                     THEN [timer EXCEPT ![k] = Launch(@)]
                                     ELSE timer)
                /\ UNCHANGED aborted
             \/ /\ timer[k].running
                /\ t # k
                /\ timer' = [timer EXCEPT ![k] = TakeToJoin(@, t)]
                /\ th' = [th EXCEPT ![t].pc = "join"]
                /\ UNCHANGED aborted
             \/ /\ timer[k].running       \* std::thread::join on itself throws
                /\ t = k
                /\ aborted' = TRUE
                /\ UNCHANGED <<timer, th>>
    /\ UNCHANGED <<iec, lk, mutex, signalled_raw_cp_state, enabled>>

Join(t) ==
    /\ ~aborted
    /\ th[t].pc = "join"
    /\ LET k == Head(th[t].todo)[1]
           op == Head(th[t].todo)[2]
           joined == Joined(timer[k])
       IN /\ CanJoin(timer[k], t)
          /\ Continue(t, [th[t] EXCEPT !.todo = Tail(@)],
                      [timer EXCEPT ![k] = IF op = "start" THEN Launch(joined)
                                                           ELSE joined])
    /\ UNCHANGED <<iec, lk, mutex, signalled_raw_cp_state, enabled, aborted>>

\* Mutant: the argument is published without asking has_value().
SignalAnyway(t) ==
    /\ ~aborted
    /\ th[t].pc = "signal"
    /\ signalled_raw_cp_state' = th[t].cp
    /\ th' = [th EXCEPT ![t] = Idle]
    /\ timer' = IF t \in Timers THEN [timer EXCEPT ![t] = Exit(@)] ELSE timer
    /\ UNCHANGED <<iec, lk, mutex, enabled, aborted>>

\* feed_state_machine() after state_machine(): the raw state if it changed,
\* then the events, in the order they were queued.
Signal(t) ==
    /\ ~aborted
    /\ th[t].pc = "signal"
    /\ signalled_raw_cp_state' = IF th[t].cp = NoCp THEN signalled_raw_cp_state
                                                    ELSE th[t].cp
    /\ th' = [th EXCEPT ![t] = Idle]
    /\ timer' = IF t \in Timers THEN [timer EXCEPT ![t] = Exit(@)] ELSE timer
    /\ UNCHANGED <<iec, lk, mutex, enabled, aborted>>

\* The wait thread of timer k wakes up: the callbacks of timeout_state_c1
\* and timeout_unlock_state_F feed the state machine, the captive one locks.
WakeUp(k) ==
    /\ ~aborted
    /\ \/ /\ CanFire(timer[k])
          /\ timer' = [timer EXCEPT ![k] = Fire(@)]
          /\ th' = [th EXCEPT ![k] = IF k = "captive"
                                     THEN [Idle EXCEPT !.pc = "captive"]
                                     ELSE Feeding(NoCp)]
       \/ /\ CanExit(timer[k])
          /\ timer' = [timer EXCEPT ![k] = Exit(@)]
          /\ UNCHANGED th
    /\ UNCHANGED <<iec, lk, mutex, signalled_raw_cp_state, enabled, aborted>>

CaptiveReached ==
    /\ ~aborted
    /\ th["captive"].pc = "captive"
    /\ mutex = NoThread
    /\ lk' = captive_reached(lk)
    /\ th' = [th EXCEPT !["captive"] = Idle]
    /\ timer' = [timer EXCEPT !["captive"] = Exit(@)]
    /\ UNCHANGED <<iec, mutex, signalled_raw_cp_state, enabled, aborted>>

TimePasses(k) ==
    /\ ~aborted
    /\ CanElapse(timer[k])
    /\ timer' = [timer EXCEPT ![k] = Elapse(@)]
    /\ UNCHANGED <<iec, lk, mutex, th, signalled_raw_cp_state, enabled, aborted>>

-----------------------------------------------------------------------------
\* Board events.

\* A raw CP state measured by the board, while enabled.
BspCpState(cp) ==
    /\ ~aborted
    /\ cp \in Inputs
    /\ enabled
    /\ th["bsp"] = Idle
    /\ th' = [th EXCEPT !["bsp"] = Feeding(cp)]
    /\ UNCHANGED <<iec, lk, timer, mutex, signalled_raw_cp_state, enabled, aborted>>

\* PowerOn / PowerOff: the contactor as confirmed by the board.
BspPower(e) ==
    /\ ~aborted
    /\ e \in Inputs
    /\ enabled
    /\ th["bsp"] = Idle
    /\ mutex = NoThread
    /\ lk' = set_relais(lk, e = "PowerOn")
    /\ th' = [th EXCEPT !["bsp"] = [Idle EXCEPT !.pc = "signal",
                                                !.events = <<e>>]]
    /\ UNCHANGED <<iec, timer, mutex, signalled_raw_cp_state, enabled, aborted>>

\* set_pp_ampacity(): a plug appears in or leaves the socket, or the board
\* republishes an unchanged value.
BspPp(present) ==
    /\ ~aborted
    /\ (IF present THEN "plug" ELSE "unplug") \in Inputs
    /\ th["pp"] = Idle
    /\ mutex = NoThread
    /\ lk' = set_pp(lk, present, SeatingDelay)
    /\ LET op == pp_timer(lk, present, SeatingDelay)
       IN th' = IF op = "nothing" THEN th
                ELSE [th EXCEPT !["pp"] = [Idle EXCEPT !.pc = "timers",
                                           !.todo = <<<<"captive", op>>>>]]
    /\ UNCHANGED <<iec, timer, mutex, signalled_raw_cp_state, enabled, aborted>>

\* Calls of the Charger: a section, then the BSP call, then the feed.

set_pwm(s) == [s EXCEPT !.pwm_running = TRUE, !.cp_state_f_requested = FALSE]
set_cp_state_X1(s) == [s EXCEPT !.pwm_running = FALSE,
                                !.cp_state_f_requested = FALSE]
set_cp_state_F(s) == [s EXCEPT !.pwm_running = FALSE,
                               !.cp_state_f_requested = TRUE]
set_cp_state_E(s) == [s EXCEPT !.pwm_running = FALSE,
                               !.state_e_triggered_through_handle = TRUE]

\* The section of a setter of the pilot, and the BSP call that follows it.
SetPilot ==
    /\ ~aborted
    /\ th["chg"] = Idle
    /\ mutex = NoThread
    /\ \/ /\ "set_pwm" \in Inputs
          /\ iec' = set_pwm(iec)
          /\ th' = [th EXCEPT !["chg"] = Calling("PWM")]
       \/ /\ "set_cp_state_X1" \in Inputs
          /\ iec' = set_cp_state_X1(iec)
          /\ th' = [th EXCEPT !["chg"] = Calling("X1")]
       \/ /\ "set_cp_state_F" \in Inputs
          /\ iec' = set_cp_state_F(iec)
          /\ th' = [th EXCEPT !["chg"] = Calling("F")]
       \/ /\ "set_cp_state_E" \in Inputs
          /\ iec' = set_cp_state_E(iec)
          /\ th' = [th EXCEPT !["chg"] = Calling("E")]
    /\ UNCHANGED <<lk, timer, mutex, signalled_raw_cp_state, enabled, aborted>>

\* r_bsp->call_pwm_on / call_cp_state_X1 / _E / _F, outside the mutex.
CallBsp ==
    /\ ~aborted
    /\ th["chg"].pc = "call"
    /\ iec' = [iec EXCEPT !.output = th["chg"].call]
    /\ th' = [th EXCEPT !["chg"] = Feeding(NoCp)]
    /\ UNCHANGED <<lk, timer, mutex, signalled_raw_cp_state, enabled, aborted>>

allow_power_on(s, value) ==
    IF value THEN [s EXCEPT !.power_on_allowed = TRUE] ELSE PowerOff(s)

AllowPowerOn(value) ==
    /\ ~aborted
    /\ (IF value THEN "allow" ELSE "disallow") \in Inputs
    /\ th["chg"] = Idle
    /\ mutex = NoThread
    /\ iec' = allow_power_on(iec, value)
    /\ th' = [th EXCEPT !["chg"] = Feeding(NoCp)]
    /\ UNCHANGED <<lk, timer, mutex, signalled_raw_cp_state, enabled, aborted>>

\* set_authorized(): an atomic flag, written without the mutex.
SetAuthorized(a) ==
    /\ ~aborted
    /\ (IF a THEN "authorize" ELSE "deauthorize") \in Inputs
    /\ UseAuthorized
    /\ th["chg"] = Idle
    /\ lk' = [lk EXCEPT !.authorized = a]
    /\ th' = [th EXCEPT !["chg"] = Feeding(NoCp)]
    /\ UNCHANGED <<iec, timer, mutex, signalled_raw_cp_state, enabled, aborted>>

Enable(en) ==
    /\ ~aborted
    /\ (IF en THEN "enable" ELSE "disable") \in Inputs
    /\ th["chg"] = Idle
    /\ enabled' = en
    /\ UNCHANGED <<iec, lk, timer, mutex, th, signalled_raw_cp_state, aborted>>

\* Commands.

ForceUnlock ==
    /\ ~aborted
    /\ "force_unlock" \in Inputs
    /\ th["cmd"] = Idle
    /\ mutex = NoThread
    /\ lk' = force_unlock(lk, iec.last_cp_state)
    /\ UNCHANGED <<iec, timer, mutex, th, signalled_raw_cp_state, enabled, aborted>>

SetKeepCableLocked(keep) ==
    /\ ~aborted
    /\ (IF keep THEN "keep" ELSE "release") \in Inputs
    /\ th["cmd"] = Idle
    /\ mutex = NoThread
    /\ lk.keep_cable_locked # keep
    /\ lk' = set_keep(lk, keep)
    /\ th' = [th EXCEPT !["cmd"] = [Idle EXCEPT !.pc = "timers",
                                    !.todo = <<<<"captive", "stop">>>>]]
    /\ UNCHANGED <<iec, timer, mutex, signalled_raw_cp_state, enabled, aborted>>

-----------------------------------------------------------------------------
\* What a thread does once it was called, and what the timers do.
ThreadStep(t) == Section(t) \/ Block(t) \/ TimerControl(t) \/ Join(t) \/ Signal(t)
Internal ==
    \/ \E t \in Threads : ThreadStep(t)
    \/ \E k \in Timers : WakeUp(k) \/ TimePasses(k)
    \/ CaptiveReached
    \/ CallBsp

\* What the surroundings may do at any time.
External ==
    \/ \E cp \in RawCPState : BspCpState(cp)
    \/ \E e \in {"PowerOn", "PowerOff"} : BspPower(e)
    \/ \E b \in BOOLEAN :
          \/ BspPp(b)
          \/ AllowPowerOn(b)
          \/ SetAuthorized(b)
          \/ Enable(b)
          \/ SetKeepCableLocked(b)
    \/ SetPilot
    \/ ForceUnlock

Next == Internal \/ External

Spec == Init /\ [][Next]_vars

\* Threads are scheduled, sleeps end and time passes.  Nothing is assumed of
\* the board, the Charger and the commands.
Fairness ==
    /\ \A t \in Threads : WF_vars(ThreadStep(t))
    /\ \A k \in Timers : WF_vars(WakeUp(k))
    /\ \A k \in Timers : WF_vars(TimePasses(k))
    /\ WF_vars(CaptiveReached)
    /\ WF_vars(CallBsp)

FairSpec == Spec /\ Fairness

-----------------------------------------------------------------------------
\* Properties.

\* Every variable keeps its type: the members of IECStateMachine, the three
\* timers and the locals of every thread.
TypeOK ==
    /\ iec \in IecType
    /\ lk \in LockType
    /\ timer \in [Timers -> TimerType(Threads)]
    /\ mutex \in Threads \cup {NoThread}
    /\ th \in [Threads -> ThreadType]
    /\ signalled_raw_cp_state \in RawCPState
    /\ enabled \in BOOLEAN
    /\ aborted \in BOOLEAN

\* The CP states in which the EV may draw power.
PowerStates == IF HasVentilation THEN {"C", "D"} ELSE {"C"}

\* The board is told to close the contactor only while the last CP state
\* seen is one that requests power (C, or D if ventilated) and the Charger's
\* permission still stands, whatever the order of board events, Charger
\* calls and timer expiries.
PowerPermitted ==
    iec.last_power_on_forwarded =>
        iec.power_on_allowed /\ iec.last_cp_state \in PowerStates

\* While the Charger is between calls, a pilot the state machine believes is
\* running PWM is one the board really modulates: no automatic X1 slips in
\* behind the back of pwm_running.
PwmBelief ==
    th["chg"] = Idle /\ iec.pwm_running => iec.output = "PWM"

\* A requested CP state F is never undone by the automatic X1 of Disabled, A
\* and E events, even when the event races set_cp_state_F().
StateFHonoured ==
    th["chg"] = Idle /\ iec.cp_state_f_requested => iec.output \in {"F", "E"}

\* Between two board events, the CP state published to the HLC stack is the
\* one the state machine acts on.
RawInSync ==
    th["bsp"] = Idle => signalled_raw_cp_state = iec.last_cp_state

\* The connector is locked whenever the board reports the contactor closed,
\* whatever force unlock, captive mode and authorization changes do.
RelaisHoldLock == lk.relais_on => lk.is_locked

\* A locked connector has a reason to be locked: the relay, the session or
\* the captive latch.  A change of authorization may still be on its way.
LockHasReason ==
    lk.is_locked /\ th["chg"] = Idle => NormalHold(lk) \/ CaptiveHold(lk)

\* Captive mode: a removal racing the seating debounce or a force unlock
\* leaves neither a stale "seated" flag nor an open unlock window behind on
\* an empty socket.
CaptiveFlagsNeedPlug ==
    lk.keep_cable_locked /\ ~lk.pp =>
        ~lk.captive_lock_delay_elapsed /\ ~lk.captive_unlock_window

\* Captive mode: a latched lock is released by nothing but a force unlock or
\* by leaving the mode.
LatchReleased ==
    lk.captive_latched /\ ~lk'.captive_latched =>
        ForceUnlock \/ SetKeepCableLocked(FALSE)
LatchHolds == [][LatchReleased]_vars

\* A thread holds the mutex of timer k and joins its wait thread, which in
\* turn needs that mutex: in stop(), in reached(), or behind a section that
\* is blocked in reached() with state_machine_mutex locked.
JoinDeadlock(k) ==
    /\ timer[k].owner # NoThread
    /\ \/ th[k].pc = "feed" /\ mutex # NoThread
       \/ th[k].pc = "timers" /\ Head(th[k].todo)[1] = k
Stuck == aborted \/ \E k \in Timers : JoinDeadlock(k)

\* The connector does not stay locked in state F: the 5 s timer releases it
\* unless the state, the relay or captive mode says otherwise, or the threads
\* have got stuck in the join that StopReturns is about.
UnlockInF ==
    (iec.last_cp_state = "F" /\ lk.is_locked)
      ~> (iec.last_cp_state # "F" \/ ~lk.is_locked \/ lk.relais_on
            \/ CaptiveHold(lk) \/ Stuck)

\* stop() of a timer "may take up to resolution amount of time to return":
\* it never waits for a wait thread that waits for it.
StopReturns == \A k \in Timers : ~JoinDeadlock(k)
=============================================================================
