------------------------------ MODULE IECProofs ------------------------------
(***************************************************************************)
(* Proofs about IECStateMachine for every configuration and every set of   *)
(* board events and calls.                                                 *)
(***************************************************************************)
EXTENDS IECStateMachine, TLAPS

-----------------------------------------------------------------------------
\* The inductive invariant.

\* The lock members: a closed relay is locked in, the captive flags belong to
\* a plug, the latch to captive mode.
LockFlags(l) ==
    /\ l.keep_cable_locked /\ ~l.pp =>
            ~l.captive_lock_delay_elapsed /\ ~l.captive_unlock_window
    /\ l.captive_latched => l.keep_cable_locked
LockGood(l) ==
    /\ l \in LockType
    /\ LockFlags(l)
    /\ l.relais_on => l.is_locked

\* Some rule holds the connector.
Held(l) == NormalHold(l) \/ CaptiveHold(l)

\* Only a written but not yet evaluated authorization may leave the connector
\* locked with no rule that holds it.
LockReason(l, c) == l.is_locked /\ c.pc # "feed" => Held(l)

\* The pilot members s and the Charger's locals c: the board lags behind by
\* the one BSP call that the Charger is about to make.
PilotGood(s, c) ==
    /\ s.pwm_running => s.output = "PWM" \/ (c.pc = "call" /\ c.call = "PWM")
    /\ c.pc = "call" /\ c.call # "PWM" => ~s.pwm_running
    /\ s.cp_state_f_requested =>
            s.output \in {"F", "E"} \/ (c.pc = "call" /\ c.call = "F")
    /\ c.pc = "call" /\ c.call \in {"PWM", "X1"} => ~s.cp_state_f_requested

\* A thread that controls a timer has a timer control to execute.
ThreadGood(l) == l \in ThreadType /\ (l.pc \in {"timers", "join"} => l.todo # <<>>)

IInv ==
    /\ TypeOK
    /\ \A t \in Threads : ThreadGood(th[t])
    /\ PowerPermitted
    /\ PilotGood(iec, th["chg"])
    /\ LockGood(lk)
    /\ LockReason(lk, th["chg"])

-----------------------------------------------------------------------------
\* The connector lock operators.

\* check_connector_lock() leaves the lock members good if the captive flags
\* were, gives the lock a reason, and never drops the latch.
LEMMA CheckLock ==
    ASSUME NEW l \in LockType, LockFlags(l)
    PROVE  LET n == check_connector_lock(l)
           IN LockGood(n) /\ (n.is_locked => Held(n))
                          /\ (l.captive_latched => n.captive_latched)
  BY DEF LockType, check_connector_lock, NormalHold, CaptiveHold, LockGood,
         LockFlags, Held

\* The lock part of a section.
LEMMA SectionLock ==
    ASSUME NEW l, LockGood(l), NEW r \in {"lock", "unlock", "keep"}
    PROVE  LET n == check_connector_lock(Request(l, r))
           IN LockGood(n) /\ (n.is_locked => Held(n))
                          /\ (l.captive_latched => n.captive_latched)
  <1> DEFINE q == Request(l, r)
  <1>1. q \in LockType /\ LockFlags(q) /\ q.captive_latched = l.captive_latched
    BY DEF LockType, LockGood, LockFlags, Request
  <1> HIDE DEF q
  <1>2. LET n == check_connector_lock(q)
        IN LockGood(n) /\ (n.is_locked => Held(n))
                       /\ (q.captive_latched => n.captive_latched)
    BY <1>1, CheckLock
  <1> QED BY <1>1, <1>2 DEF q

\* PowerOn and PowerOff.
LEMMA RelaisLock ==
    ASSUME NEW l, LockGood(l), NEW on \in BOOLEAN
    PROVE  LET n == set_relais(l, on)
           IN LockGood(n) /\ (n.is_locked => Held(n))
                          /\ (l.captive_latched => n.captive_latched)
  <1> DEFINE q == [l EXCEPT !.relais_on = on]
  <1>1. q \in LockType /\ LockFlags(q) /\ q.captive_latched = l.captive_latched
    BY DEF LockType, LockGood, LockFlags
  <1> HIDE DEF q
  <1> QED BY <1>1, CheckLock DEF set_relais, q

\* The seating debounce.
LEMMA CaptiveReachedLock ==
    ASSUME NEW l, LockGood(l)
    PROVE  LET n == captive_reached(l)
           IN LockGood(n) /\ (n.is_locked => Held(n))
                          /\ (l.captive_latched => n.captive_latched)
  <1> DEFINE q == [l EXCEPT !.captive_lock_delay_elapsed = @ \/ l.pp]
  <1>1. q \in LockType /\ LockFlags(q) /\ q.captive_latched = l.captive_latched
    BY DEF LockType, LockGood, LockFlags
  <1> HIDE DEF q
  <1> QED BY <1>1, CheckLock DEF captive_reached, q

\* Leaving or entering captive mode.
LEMMA KeepLock ==
    ASSUME NEW l, LockGood(l), NEW keep \in BOOLEAN
    PROVE  LET n == set_keep(l, keep)
           IN LockGood(n) /\ (n.is_locked => Held(n))
  <1> DEFINE q == [l EXCEPT !.keep_cable_locked = keep,
                            !.captive_unlock_window = FALSE,
                            !.captive_latched = FALSE,
                            !.captive_lock_delay_elapsed = l.pp]
  <1>1. q \in LockType /\ LockFlags(q)
    BY DEF LockType, LockGood, LockFlags
  <1> HIDE DEF q
  <1> QED BY <1>1, CheckLock DEF set_keep, q

\* A plug appears or disappears; outside captive mode nothing is evaluated.
LEMMA PlugLock ==
    ASSUME NEW l, LockGood(l), NEW present \in BOOLEAN, NEW delayed \in BOOLEAN
    PROVE  LET n == set_pp(l, present, delayed)
           IN /\ LockGood(n)
              /\ (l.is_locked => Held(l)) => (n.is_locked => Held(n))
              /\ l.captive_latched => n.captive_latched
  <1> DEFINE seen == [l EXCEPT !.pp = present]
             q == [seen EXCEPT
                     !.captive_unlock_window = @ /\ present,
                     !.captive_lock_delay_elapsed =
                         present /\ (@ \/ (~l.pp /\ ~delayed))]
  <1>0. /\ seen \in LockType
        /\ \A x \in {"should_be_locked", "force_unlocked", "authorized",
                     "relais_on", "is_locked", "keep_cable_locked",
                     "captive_unlock_window", "captive_lock_delay_elapsed",
                     "captive_latched"} : seen[x] = l[x]
        /\ seen.pp = present
    BY DEF LockType, LockGood
  <1>1. CASE l.keep_cable_locked
    <2>1. set_pp(l, present, delayed) = check_connector_lock(q)
      BY <1>1 DEF set_pp
    <2> HIDE DEF seen
    <2>2. q \in LockType /\ LockFlags(q) /\ q.captive_latched = l.captive_latched
      BY <1>0, <1>1 DEF LockType, LockGood, LockFlags
    <2> HIDE DEF q
    <2> QED BY <2>1, <2>2, CheckLock
  <1>2. CASE ~l.keep_cable_locked
    <2>1. set_pp(l, present, delayed) = seen
      BY <1>2 DEF set_pp
    <2> HIDE DEF seen
    <2>2. LockGood(seen) /\ seen.captive_latched = l.captive_latched
      BY <1>0, <1>2 DEF LockGood, LockFlags
    <2>3. (l.is_locked => Held(l)) => (seen.is_locked => Held(seen))
      BY <1>0, <1>2 DEF Held, NormalHold, CaptiveHold
    <2> QED BY <2>1, <2>2, <2>3
  <1> QED BY <1>1, <1>2 DEF LockGood, LockType

\* A force unlock.
LEMMA ForceUnlockLock ==
    ASSUME NEW l, LockGood(l), NEW cp
    PROVE  LET n == force_unlock(l, cp)
           IN /\ LockGood(n)
              /\ n.is_locked => Held(n)
  <1> DEFINE q == [l EXCEPT
                     !.captive_unlock_window = @ \/ (l.keep_cable_locked /\ l.pp),
                     !.captive_latched = @ /\ ~l.keep_cable_locked,
                     !.is_locked = @ /\ l.relais_on]
             f == [q EXCEPT !.force_unlocked = TRUE]
  <1>1. LockGood(q) /\ (q.is_locked => Held(q))
    BY DEF LockType, LockGood, LockFlags, Held, NormalHold
  <1>2. CASE cp \in {"B", "C"}
    <2>1. force_unlock(l, cp) = check_connector_lock(f)
      BY <1>2 DEF force_unlock
    <2> HIDE DEF q
    <2>2. f \in LockType /\ LockFlags(f)
      BY <1>1 DEF LockType, LockGood, LockFlags
    <2> HIDE DEF f
    <2> QED BY <2>1, <2>2, CheckLock
  <1>3. CASE cp \notin {"B", "C"}
    <2>1. force_unlock(l, cp) = q
      BY <1>3 DEF force_unlock
    <2> HIDE DEF q
    <2> QED BY <1>1, <2>1
  <1> QED BY <1>2, <1>3

-----------------------------------------------------------------------------
\* The section of state_machine().

LEMMA NoEvents == <<>> \in Seq(CPEvent)
  OBVIOUS

LEMMA ConcatSeq ==
    ASSUME NEW a \in Seq(CPEvent), NEW b \in Seq(CPEvent)
    PROVE  a \o b \in Seq(CPEvent)
  OBVIOUS

LEMMA WhenSeq ==
    ASSUME NEW b, NEW e \in CPEvent
    PROVE  When(b, e) \in Seq(CPEvent)
  BY DEF When

\* What a section may make of members s when it ends in CP state cp.
Sound(s, cp, out) ==
    /\ out.iec \in IecType
    /\ out.lock \in {"lock", "unlock", "keep"}
    /\ out.c1 \in Control
    /\ out.events \in Seq(CPEvent)
    /\ out.iec.last_power_on_forwarded =>
            out.iec.power_on_allowed /\ cp \in PowerStates
    /\ out.iec.pwm_running => s.pwm_running /\ out.iec.output = s.output
    /\ out.iec.cp_state_f_requested =>
            s.cp_state_f_requested /\ out.iec.output = s.output

\* The members before a section: well typed, and powered only as permitted.
Powered(s) ==
    s.last_power_on_forwarded =>
        s.power_on_allowed /\ s.last_cp_state \in PowerStates

LEMMA PowerOffFields ==
    ASSUME NEW s \in IecType
    PROVE  /\ PowerOff(s) \in IecType
           /\ ~PowerOff(s).last_power_on_forwarded
           /\ PowerOff(s).pwm_running = s.pwm_running
           /\ PowerOff(s).output = s.output
           /\ PowerOff(s).cp_state_f_requested = s.cp_state_f_requested
           /\ PowerOff(s).last_cp_state = s.last_cp_state
  BY DEF PowerOff, IecType

LEMMA PowerOnFields ==
    ASSUME NEW s \in IecType
    PROVE  /\ PowerOn(s) \in IecType
           /\ PowerOn(s).power_on_allowed = s.power_on_allowed
           /\ PowerOn(s).pwm_running = s.pwm_running
           /\ PowerOn(s).output = s.output
           /\ PowerOn(s).cp_state_f_requested = s.cp_state_f_requested
           /\ PowerOn(s).last_power_on_allowed = s.last_power_on_allowed
  BY DEF PowerOn, IecType

LEMMA ResetPilotFields ==
    ASSUME NEW s \in IecType
    PROVE  /\ ResetPilot(s) \in IecType
           /\ ~ResetPilot(s).pwm_running
           /\ ResetPilot(s).cp_state_f_requested = s.cp_state_f_requested
           /\ s.cp_state_f_requested => ResetPilot(s).output = s.output
  <1>1. CASE s.cp_state_f_requested
    BY <1>1 DEF ResetPilot, IecType, PilotOutput
  <1>2. CASE ~s.cp_state_f_requested
    BY <1>2 DEF ResetPilot, IecType, PilotOutput
  <1> QED BY <1>1, <1>2

\* The two together, as the Disabled, A and E states use them.
LEMMA ShutDownFields ==
    ASSUME NEW s \in IecType
    PROVE  LET off == PowerOff(ResetPilot(s))
           IN /\ off \in IecType
              /\ ~off.last_power_on_forwarded
              /\ ~off.pwm_running
              /\ off.cp_state_f_requested = s.cp_state_f_requested
              /\ s.cp_state_f_requested => off.output = s.output
  BY ResetPilotFields, PowerOffFields

LEMMA SoundOutcome ==
    ASSUME NEW s \in IecType, NEW cp \in RawCPState, NEW n \in IecType,
           NEW lock \in {"lock", "unlock", "keep"}, NEW c1 \in Control,
           NEW events \in Seq(CPEvent),
           n.last_power_on_forwarded => n.power_on_allowed /\ cp \in PowerStates,
           n.pwm_running => s.pwm_running /\ n.output = s.output,
           n.cp_state_f_requested =>
                s.cp_state_f_requested /\ n.output = s.output
    PROVE  Sound(s, cp, Outcome(n, lock, c1, events))
  BY DEF Sound, Outcome

LEMMA SoundDisabled ==
    ASSUME NEW s \in IecType, Powered(s)
    PROVE  Sound(s, "Disabled", InDisabled(s))
  <1>1. CASE s.last_cp_state = "Disabled"
    <2>1. ~s.last_power_on_forwarded
      BY <1>1 DEF Powered, PowerStates
    <2> QED
      BY <1>1, <2>1, SoundOutcome, NoEvents DEF InDisabled, Control, RawCPState
  <1>2. CASE s.last_cp_state # "Disabled"
    <2> DEFINE off == PowerOff(ResetPilot(s))
               n == [off EXCEPT !.ev_simplified_mode = FALSE]
    <2>1. /\ off \in IecType
          /\ ~off.last_power_on_forwarded
          /\ ~off.pwm_running
          /\ off.cp_state_f_requested = s.cp_state_f_requested
          /\ s.cp_state_f_requested => off.output = s.output
      BY ShutDownFields
    <2> HIDE DEF off
    <2>2. /\ n \in IecType
          /\ ~n.last_power_on_forwarded
          /\ ~n.pwm_running
          /\ n.cp_state_f_requested = off.cp_state_f_requested
          /\ n.output = off.output
      BY <2>1 DEF IecType
    <2> HIDE DEF n
    <2>3. Sound(s, "Disabled", Outcome(n, "unlock", "stop", <<>>))
      BY <2>1, <2>2, SoundOutcome, NoEvents DEF Control, RawCPState
    <2> QED BY <1>2, <2>3 DEF InDisabled, n, off
  <1> QED BY <1>1, <1>2

LEMMA SoundA ==
    ASSUME NEW s \in IecType, Powered(s)
    PROVE  Sound(s, "A", InA(s))
  <1>1. CASE s.last_cp_state = "A"
    <2>1. ~s.last_power_on_forwarded
      BY <1>1 DEF Powered, PowerStates
    <2> QED
      BY <1>1, <2>1, SoundOutcome, NoEvents DEF InA, Control, RawCPState
  <1>2. CASE s.last_cp_state # "A"
    <2> DEFINE off == PowerOff(ResetPilot(s))
               n == [off EXCEPT !.ev_simplified_mode = FALSE,
                                !.car_plugged_in = FALSE]
               ev == When(s.last_cp_state # "Disabled", "CarUnplugged")
    <2>1. /\ off \in IecType
          /\ ~off.last_power_on_forwarded
          /\ ~off.pwm_running
          /\ off.cp_state_f_requested = s.cp_state_f_requested
          /\ s.cp_state_f_requested => off.output = s.output
      BY ShutDownFields
    <2> HIDE DEF off
    <2>2. /\ n \in IecType
          /\ ~n.last_power_on_forwarded
          /\ ~n.pwm_running
          /\ n.cp_state_f_requested = off.cp_state_f_requested
          /\ n.output = off.output
      BY <2>1 DEF IecType
    <2>3. ev \in Seq(CPEvent)
      BY WhenSeq DEF CPEvent
    <2> HIDE DEF n, ev
    <2>4. Sound(s, "A", Outcome(n, "unlock", "stop", ev))
      BY <2>1, <2>2, <2>3, SoundOutcome DEF Control, RawCPState
    <2> QED BY <1>2, <2>4 DEF InA, n, off, ev
  <1> QED BY <1>1, <1>2

LEMMA SoundB ==
    ASSUME NEW s \in IecType, Powered(s)
    PROVE  Sound(s, "B", InB(s))
  <1> DEFINE stopped == s.last_cp_state \in {"C", "D"}
             fromEF == s.last_cp_state \in {"E", "F"}
             plugIn == s.last_cp_state \in {"A", "Disabled"}
                         \/ (~s.car_plugged_in /\ fromEF)
             off == IF stopped THEN PowerOff(s) ELSE s
             n == IF plugIn THEN [off EXCEPT !.car_plugged_in = TRUE,
                                             !.ev_simplified_mode = FALSE]
                            ELSE off
             lock == IF LockInStateB THEN "lock" ELSE "unlock"
             c1 == IF stopped THEN "stop" ELSE "nothing"
             ev == When(stopped, "CarRequestedStopPower")
                     \o When(plugIn, "CarPluggedIn") \o When(fromEF, "EFtoBCD")
  <1>1. /\ off \in IecType
        /\ ~off.last_power_on_forwarded
        /\ off.pwm_running = s.pwm_running
        /\ off.output = s.output
        /\ off.cp_state_f_requested = s.cp_state_f_requested
    <2>1. CASE stopped
      BY <2>1, PowerOffFields
    <2>2. CASE ~stopped
      <3>1. ~s.last_power_on_forwarded
        BY <2>2 DEF Powered, PowerStates
      <3> QED BY <2>2, <3>1
    <2> QED BY <2>1, <2>2
  <1> HIDE DEF off
  <1>2. /\ n \in IecType
        /\ ~n.last_power_on_forwarded
        /\ n.pwm_running = s.pwm_running
        /\ n.output = s.output
        /\ n.cp_state_f_requested = s.cp_state_f_requested
    <2>1. CASE plugIn
      <3> DEFINE m == [off EXCEPT !.car_plugged_in = TRUE,
                                  !.ev_simplified_mode = FALSE]
      <3>1. /\ m \in IecType
            /\ ~m.last_power_on_forwarded
            /\ m.pwm_running = s.pwm_running
            /\ m.output = s.output
            /\ m.cp_state_f_requested = s.cp_state_f_requested
        BY <1>1 DEF IecType
      <3> HIDE DEF m
      <3>2. n = m
        BY <2>1 DEF m
      <3> QED BY <3>1, <3>2
    <2>2. CASE ~plugIn
      BY <1>1, <2>2
    <2> QED BY <2>1, <2>2
  <1>3. ev \in Seq(CPEvent)
    <2>1. When(stopped, "CarRequestedStopPower") \in Seq(CPEvent)
      BY WhenSeq DEF CPEvent
    <2>2. When(plugIn, "CarPluggedIn") \in Seq(CPEvent)
      BY WhenSeq DEF CPEvent
    <2>3. When(fromEF, "EFtoBCD") \in Seq(CPEvent)
      BY WhenSeq DEF CPEvent
    <2> HIDE DEF stopped, plugIn, fromEF
    <2> QED BY <2>1, <2>2, <2>3, ConcatSeq
  <1>4. lock \in {"lock", "unlock", "keep"} /\ c1 \in Control
    BY DEF Control
  <1>5. InB(s) = Outcome(n, lock, c1, ev)
    BY DEF InB, off
  <1> HIDE DEF n, ev, lock, c1
  <1> QED BY <1>2, <1>3, <1>4, <1>5, SoundOutcome DEF RawCPState

\* State C, and D with ventilation: cp is the state the section ends in.
LEMMA SoundC ==
    ASSUME NEW s \in IecType, Powered(s), NEW r \in BOOLEAN,
           NEW cp \in PowerStates
    PROVE  Sound(s, cp, InC(s, r))
  <1> DEFINE plugIn == s.last_cp_state \in {"A", "Disabled"}
                         \/ (~s.car_plugged_in /\ s.last_cp_state = "F")
             paused == ~s.pwm_running /\ s.last_pwm_running
             resumed == s.pwm_running /\ ~s.last_pwm_running
             m1 == [s EXCEPT !.car_plugged_in = TRUE, !.ev_simplified_mode = TRUE]
             s1 == IF plugIn THEN m1 ELSE s
             s2 == IF resumed /\ s1.power_on_allowed THEN PowerOn(s1) ELSE s1
             s3 == IF r THEN PowerOff(s2) ELSE s2
             s4 == IF s3.pwm_running /\ s3.power_on_allowed
                      /\ (~s3.last_power_on_allowed \/ s.last_cp_state = "B")
                   THEN PowerOn(s3) ELSE s3
             c1 == IF paused THEN "start" ELSE IF resumed THEN "stop"
                                                          ELSE "nothing"
             ev == When(plugIn, "CarPluggedIn")
                     \o When(s.last_cp_state = "B", "CarRequestedPower")
                     \o When(resumed /\ s1.ev_simplified_mode,
                             "CarRequestedPower")
             Keeps(n) == /\ n \in IecType
                         /\ n.last_power_on_forwarded => n.power_on_allowed
                         /\ n.pwm_running = s.pwm_running
                         /\ n.output = s.output
                         /\ n.cp_state_f_requested = s.cp_state_f_requested
  <1>1. Keeps(s1)
    <2>1. Keeps(m1)
      BY DEF IecType, Powered
    <2>2. Keeps(s)
      BY DEF Powered
    <2> HIDE DEF m1, Keeps
    <2> QED BY <2>1, <2>2
  <1> HIDE DEF s1
  <1>2. Keeps(s2)
    BY <1>1, PowerOnFields
  <1> HIDE DEF s2
  <1>3. Keeps(s3)
    BY <1>2, PowerOffFields
  <1> HIDE DEF s3
  <1>4. Keeps(s4)
    BY <1>3, PowerOnFields
  <1>5. ev \in Seq(CPEvent)
    <2>1. When(plugIn, "CarPluggedIn") \in Seq(CPEvent)
      BY WhenSeq DEF CPEvent
    <2>2. When(s.last_cp_state = "B", "CarRequestedPower") \in Seq(CPEvent)
      BY WhenSeq DEF CPEvent
    <2>3. When(resumed /\ s1.ev_simplified_mode, "CarRequestedPower")
            \in Seq(CPEvent)
      BY WhenSeq DEF CPEvent
    <2> HIDE DEF plugIn, resumed
    <2> QED BY <2>1, <2>2, <2>3, ConcatSeq
  <1>6. c1 \in Control
    BY DEF Control
  <1>7. InC(s, r) = Outcome(s4, "lock", c1, ev)
    BY DEF InC, s1, s2, s3
  <1>8. cp \in RawCPState
    BY DEF PowerStates, RawCPState
  <1> HIDE DEF s4, ev, c1
  <1> QED BY <1>4, <1>5, <1>6, <1>7, <1>8, SoundOutcome

LEMMA SoundD ==
    ASSUME NEW s \in IecType, Powered(s), NEW r \in BOOLEAN
    PROVE  Sound(s, "D", InD(s, r))
  <1>1. CASE HasVentilation
    BY <1>1, SoundC DEF InD, PowerStates
  <1>2. CASE ~HasVentilation
    BY <1>2, PowerOffFields, SoundOutcome, NoEvents DEF InD, Control, RawCPState
  <1> QED BY <1>1, <1>2

LEMMA SoundE ==
    ASSUME NEW s \in IecType, Powered(s)
    PROVE  Sound(s, "E", InE(s))
  <1> DEFINE byEvse == s.state_e_triggered_through_handle
             s1 == [s EXCEPT !.state_e_triggered_through_handle = FALSE]
             m1 == [s1 EXCEPT !.pwm_running = FALSE]
             s2 == IF byEvse THEN m1 ELSE ResetPilot(s1)
             lost == s.last_cp_state \in {"B", "C", "D"}
             lock == IF byEvse THEN "keep" ELSE "unlock"
             ev == When(lost, "BCDtoEF") \o When(lost /\ ~byEvse, "BCDtoE")
  <1>1. /\ s1 \in IecType
        /\ s1.pwm_running = s.pwm_running
        /\ s1.output = s.output
        /\ s1.cp_state_f_requested = s.cp_state_f_requested
        /\ s1.last_power_on_forwarded = s.last_power_on_forwarded
    BY DEF IecType
  <1>2. lock \in {"lock", "unlock", "keep"}
    OBVIOUS
  <1>3. CASE s.last_cp_state = "E"
    <2>1. ~s1.last_power_on_forwarded
      BY <1>1, <1>3 DEF Powered, PowerStates
    <2>2. InE(s) = Outcome(s1, lock, "nothing", <<>>)
      BY <1>3 DEF InE
    <2> HIDE DEF s1, lock
    <2> QED BY <1>1, <1>2, <2>1, <2>2, SoundOutcome, NoEvents
            DEF Control, RawCPState
  <1>4. CASE s.last_cp_state # "E"
    <2>0. InE(s) = Outcome(PowerOff(s2), lock, "stop", ev)
      BY <1>4 DEF InE
    <2> HIDE DEF s1
    <2>1. /\ s2 \in IecType
          /\ ~s2.pwm_running
          /\ s2.cp_state_f_requested = s.cp_state_f_requested
          /\ s.cp_state_f_requested => s2.output = s.output
      <3>1. /\ m1 \in IecType
            /\ ~m1.pwm_running
            /\ m1.cp_state_f_requested = s.cp_state_f_requested
            /\ m1.output = s.output
        BY <1>1 DEF IecType
      <3> HIDE DEF m1
      <3> QED BY <1>1, <3>1, ResetPilotFields
    <2>2. ev \in Seq(CPEvent)
      <3>1. When(lost, "BCDtoEF") \in Seq(CPEvent)
        BY WhenSeq DEF CPEvent
      <3>2. When(lost /\ ~byEvse, "BCDtoE") \in Seq(CPEvent)
        BY WhenSeq DEF CPEvent
      <3> HIDE DEF lost, byEvse
      <3> QED BY <3>1, <3>2, ConcatSeq
    <2> HIDE DEF s2, lock, ev
    <2>3. /\ PowerOff(s2) \in IecType
          /\ ~PowerOff(s2).last_power_on_forwarded
          /\ PowerOff(s2).pwm_running = s2.pwm_running
          /\ PowerOff(s2).output = s2.output
          /\ PowerOff(s2).cp_state_f_requested = s2.cp_state_f_requested
      BY <2>1, PowerOffFields
    <2> QED BY <1>2, <2>0, <2>1, <2>2, <2>3, SoundOutcome
            DEF Control, RawCPState
  <1> QED BY <1>3, <1>4

LEMMA SoundF ==
    ASSUME NEW s \in IecType, Powered(s), NEW r \in BOOLEAN
    PROVE  Sound(s, "F", InF(s, r))
  <1> DEFINE off == PowerOff(s)
             m == [off EXCEPT !.pwm_running = FALSE]
             n == IF s.last_cp_state = "F" THEN off ELSE m
             lock == IF r THEN "unlock" ELSE "keep"
             ev == When(s.last_cp_state \in {"B", "C", "D"}, "BCDtoEF")
  <1>1. /\ off \in IecType
        /\ ~off.last_power_on_forwarded
        /\ off.pwm_running = s.pwm_running
        /\ off.output = s.output
        /\ off.cp_state_f_requested = s.cp_state_f_requested
    BY PowerOffFields
  <1> HIDE DEF off
  <1>2. /\ m \in IecType
        /\ ~m.last_power_on_forwarded
        /\ ~m.pwm_running
        /\ m.output = s.output
        /\ m.cp_state_f_requested = s.cp_state_f_requested
    BY <1>1 DEF IecType
  <1> HIDE DEF m
  <1>3. /\ n \in IecType
        /\ ~n.last_power_on_forwarded
        /\ n.pwm_running => s.pwm_running
        /\ n.output = s.output
        /\ n.cp_state_f_requested = s.cp_state_f_requested
    BY <1>1, <1>2
  <1>4. ev \in Seq(CPEvent) /\ lock \in {"lock", "unlock", "keep"}
    BY WhenSeq DEF CPEvent
  <1>5. InF(s, r) = Outcome(n, lock, "stop", ev)
    BY DEF InF, off, m
  <1> HIDE DEF n, lock, ev
  <1> QED BY <1>3, <1>4, <1>5, SoundOutcome DEF Control, RawCPState

\* Every section of state_machine() is sound.
LEMMA SoundSection ==
    ASSUME NEW s \in IecType, Powered(s), NEW cp \in RawCPState,
           NEW c \in BOOLEAN, NEW f \in BOOLEAN
    PROVE  Sound(s, cp, StateOutcome(s, cp, c, f))
  <1>1. CASE cp = "Disabled"
    BY <1>1, SoundDisabled DEF StateOutcome
  <1>2. CASE cp = "A"
    BY <1>2, SoundA DEF StateOutcome
  <1>3. CASE cp = "B"
    BY <1>3, SoundB DEF StateOutcome
  <1>4. CASE cp = "C"
    <2>1. "C" \in PowerStates
      BY DEF PowerStates
    <2> QED BY <1>4, <2>1, SoundC DEF StateOutcome
  <1>5. CASE cp = "D"
    BY <1>5, SoundD DEF StateOutcome
  <1>6. CASE cp = "E"
    BY <1>6, SoundE DEF StateOutcome
  <1>7. CASE cp = "F"
    BY <1>7, SoundF DEF StateOutcome
  <1> QED BY <1>1, <1>2, <1>3, <1>4, <1>5, <1>6, <1>7 DEF RawCPState

-----------------------------------------------------------------------------
\* Threads and timers.

TimersType == [Timers -> TimerType(Threads)]

LEMMA LocalsGood ==
    /\ ThreadGood(Idle)
    /\ \A cp \in RawCPState \cup {NoCp} : ThreadGood(Feeding(cp))
    /\ \A out \in PilotOutput : ThreadGood(Calling(out))
    /\ \A k \in Timers, op \in {"start", "stop"} :
          ThreadGood([Idle EXCEPT !.pc = "timers", !.todo = <<<<k, op>>>>])
    /\ \A e \in CPEvent :
          ThreadGood([Idle EXCEPT !.pc = "signal", !.events = <<e>>])
    /\ ThreadGood([Idle EXCEPT !.pc = "captive"])
  <1>0. /\ Idle \in ThreadType
        /\ Idle.pc = "idle" /\ Idle.todo = <<>> /\ Idle.events = <<>>
    BY DEF Idle, ThreadType, PC, PilotOutput, NoCp
  <1>1. ThreadGood(Idle)
    BY <1>0 DEF ThreadGood
  <1>2. ASSUME NEW cp \in RawCPState \cup {NoCp} PROVE ThreadGood(Feeding(cp))
    BY <1>0 DEF Feeding, ThreadGood, ThreadType, PC
  <1>3. ASSUME NEW out \in PilotOutput PROVE ThreadGood(Calling(out))
    BY <1>0 DEF Calling, ThreadGood, ThreadType, PC
  <1>4. ASSUME NEW k \in Timers, NEW op \in {"start", "stop"}
        PROVE  ThreadGood([Idle EXCEPT !.pc = "timers", !.todo = <<<<k, op>>>>])
    <2> DEFINE todo == <<<<k, op>>>>
    <2>1. todo \in Seq(Timers \X {"start", "stop"}) /\ todo # <<>>
      OBVIOUS
    <2> HIDE DEF todo
    <2>2. ThreadGood([Idle EXCEPT !.pc = "timers", !.todo = todo])
      BY <1>0, <2>1 DEF ThreadGood, ThreadType, PC
    <2> QED BY <2>2 DEF todo
  <1>5. ASSUME NEW e \in CPEvent
        PROVE  ThreadGood([Idle EXCEPT !.pc = "signal", !.events = <<e>>])
    <2> DEFINE events == <<e>>
    <2>1. events \in Seq(CPEvent)
      OBVIOUS
    <2> HIDE DEF events
    <2>2. ThreadGood([Idle EXCEPT !.pc = "signal", !.events = events])
      BY <1>0, <2>1 DEF ThreadGood, ThreadType, PC
    <2> QED BY <2>2 DEF events
  <1>6. ThreadGood([Idle EXCEPT !.pc = "captive"])
    BY <1>0 DEF ThreadGood, ThreadType, PC
  <1> QED BY <1>1, <1>2, <1>3, <1>4, <1>5, <1>6

\* The timer operators keep a timer a timer.
LEMMA TimerOps ==
    ASSUME NEW tm \in TimerType(Threads), NEW t \in Threads
    PROVE  /\ Launch(tm) \in TimerType(Threads)
           /\ TakeToJoin(tm, t) \in TimerType(Threads)
           /\ Joined(tm) \in TimerType(Threads)
           /\ Fire(tm) \in TimerType(Threads)
           /\ Exit(tm) \in TimerType(Threads)
           /\ Elapse(tm) \in TimerType(Threads)
           /\ Reached(tm) \in BOOLEAN
  BY DEF TimerType, Launch, TakeToJoin, Joined, Fire, Exit, Elapse, Reached,
         WaitStates

\* A thread that goes on is neither inside a BSP call nor before a section.
LEMMA Continues ==
    ASSUME NEW t \in Threads, NEW l \in ThreadType, NEW tms \in TimersType,
           th \in [Threads -> ThreadType],
           \A x \in Threads : ThreadGood(th[x]),
           Continue(t, l, tms)
    PROVE  /\ timer' \in TimersType
           /\ th' \in [Threads -> ThreadType]
           /\ \A x \in Threads : ThreadGood(th'[x])
           /\ \A x \in Threads \ {t} : th'[x] = th[x]
           /\ th'[t].pc \notin {"call", "feed"}
  <1> DEFINE next == Resume(t, l)
  <1>1. ThreadGood(next) /\ next.pc \notin {"call", "feed"}
    <2>1. CASE l.todo # <<>>
      BY <2>1 DEF Resume, ThreadGood, ThreadType, PC
    <2>2. CASE l.todo = <<>>
      <3>1. ThreadGood(Idle) /\ Idle.pc \notin {"call", "feed"}
        BY LocalsGood DEF Idle
      <3>2. LET m == [l EXCEPT !.pc = "signal"]
            IN ThreadGood(m) /\ m.pc \notin {"call", "feed"}
        BY DEF ThreadGood, ThreadType, PC
      <3> QED BY <2>2, <3>1, <3>2 DEF Resume
    <2> QED BY <2>1, <2>2
  <1>2. th' = [th EXCEPT ![t] = next]
    BY DEF Continue
  <1>3. timer' \in TimersType
    <2>1. CASE t \in Timers /\ next.pc = "idle"
      <3>1. timer' = [tms EXCEPT ![t] = Exit(@)]
        BY <2>1 DEF Continue
      <3>2. Exit(tms[t]) \in TimerType(Threads)
        BY <2>1, TimerOps DEF TimersType
      <3> QED BY <3>1, <3>2 DEF TimersType
    <2>2. CASE ~(t \in Timers /\ next.pc = "idle")
      BY <2>2 DEF Continue
    <2> QED BY <2>1, <2>2
  <1> HIDE DEF next
  <1> QED BY <1>1, <1>2, <1>3 DEF ThreadGood

-----------------------------------------------------------------------------
\* The initial states and the steps.

LEMMA InitInv == Init => IInv
  <1> SUFFICES ASSUME Init PROVE IInv
    OBVIOUS
  <1>1. iec \in IecType /\ PowerPermitted
    BY DEF Init, IecType, RawCPState, PilotOutput, PowerPermitted
  <1>2. LockGood(lk) /\ ~lk.is_locked
    BY ConfigAssumption
    DEF Init, NewLock, LockGood, LockType, LockFlags, ConfigAssumption
  <1>3. timer \in TimersType
    BY DEF Init, TimersType, TimerType, NewTimer, WaitStates
  <1>4. \A t \in Threads : th[t] = Idle
    BY DEF Init
  <1>5. th \in [Threads -> ThreadType] /\ \A t \in Threads : ThreadGood(th[t])
    BY LocalsGood DEF Init, ThreadGood
  <1>6. /\ mutex \in Threads \cup {NoThread}
        /\ signalled_raw_cp_state \in RawCPState
        /\ enabled \in BOOLEAN
        /\ aborted \in BOOLEAN
    BY DEF Init, RawCPState
  <1>7. PilotGood(iec, th["chg"])
    BY <1>4 DEF Init, PilotGood, Idle, Threads, Callers
  <1>8. LockReason(lk, th["chg"])
    BY <1>2 DEF LockReason
  <1> QED
    BY <1>1, <1>2, <1>3, <1>5, <1>6, <1>7, <1>8
    DEF IInv, TypeOK, TimersType, LockGood

\* What a step leaves of the invariant when it keeps the types of the
\* threads and timers and the other members.
LEMMA Rebuild ==
    ASSUME iec' \in IecType, PowerPermitted',
           LockGood(lk'), LockReason(lk', th'["chg"]),
           timer' \in TimersType,
           th' \in [Threads -> ThreadType],
           \A t \in Threads : ThreadGood(th'[t]),
           PilotGood(iec', th'["chg"]),
           mutex' \in Threads \cup {NoThread},
           signalled_raw_cp_state' \in RawCPState,
           enabled' \in BOOLEAN, aborted' \in BOOLEAN
    PROVE  IInv'
  BY DEF IInv, TypeOK, TimersType, LockGood

LEMMA SectionStep ==
    ASSUME IInv, NEW t \in Threads, Section(t)
    PROVE  IInv'
  <1> DEFINE cp == CpOf(t)
             c == Reached(timer["c1"])
             f == Reached(timer["f"])
             out == StateOutcome(iec, cp, c, f)
             todo == Controls(out.c1, FControl(iec, cp))
             l == [th[t] EXCEPT !.events = out.events, !.todo = todo]
  <1>1. /\ iec \in IecType
        /\ Powered(iec)
        /\ th \in [Threads -> ThreadType]
        /\ \A x \in Threads : ThreadGood(th[x])
        /\ timer \in TimersType
    BY DEF IInv, TypeOK, PowerPermitted, Powered, TimersType
  <1>2. cp \in RawCPState
    BY <1>1 DEF CpOf, ThreadType, IecType
  <1>3. c \in BOOLEAN /\ f \in BOOLEAN
    BY DEF Reached
  <1>4. Sound(iec, cp, out)
    BY <1>1, <1>2, <1>3, SoundSection
  <1>5. /\ iec' = Remember(out.iec, cp)
        /\ lk' = check_connector_lock(Request(lk, out.lock))
        /\ mutex' = NoThread
        /\ Continue(t, l, timer)
        /\ UNCHANGED <<signalled_raw_cp_state, enabled, aborted>>
    BY DEF Section
  <1>6. FControl(iec, cp) \in Control
    BY DEF FControl, Control
  <1> HIDE DEF cp, c, f, out
  <1>7. todo \in Seq(Timers \X {"start", "stop"})
    BY <1>4, <1>6 DEF Sound, Controls, Control, Timers
  <1> HIDE DEF todo
  <1>8. l \in ThreadType
    BY <1>1, <1>4, <1>7 DEF ThreadType, Sound
  <1> HIDE DEF l
  <1>9. /\ timer' \in TimersType
        /\ th' \in [Threads -> ThreadType]
        /\ \A x \in Threads : ThreadGood(th'[x])
        /\ \A x \in Threads \ {t} : th'[x] = th[x]
        /\ th'[t].pc \notin {"call", "feed"}
    BY <1>1, <1>5, <1>8, Continues
  <1>10. /\ iec' \in IecType
         /\ iec'.last_cp_state = cp
         /\ \A x \in {"power_on_allowed", "last_power_on_forwarded",
                      "pwm_running", "output", "cp_state_f_requested"} :
               iec'[x] = out.iec[x]
    BY <1>2, <1>4, <1>5 DEF Sound, Remember, IecType
  <1>11. PowerPermitted'
    BY <1>4, <1>10 DEF Sound, PowerPermitted, PowerStates
  <1>12. /\ LockGood(lk')
         /\ lk'.is_locked => Held(lk')
    BY <1>4, <1>5, SectionLock DEF IInv, Sound
  <1>13. LockReason(lk', th'["chg"])
    BY <1>12 DEF LockReason
  <1>14. PilotGood(iec', th'["chg"])
    <2>1. th["chg"].pc = "call" => t # "chg"
      BY DEF Section
    <2>2. "chg" \in Threads
      BY DEF Threads, Callers
    <2>3. th["chg"].pc = "call" => th'["chg"] = th["chg"]
      BY <1>9, <2>1, <2>2
    <2>4. th["chg"].pc # "call" => th'["chg"].pc # "call"
      BY <1>9, <2>2
    <2>5. PilotGood(iec, th["chg"])
      BY DEF IInv
    <2> QED BY <1>4, <1>10, <2>3, <2>4, <2>5 DEF Sound, PilotGood
  <1>15. /\ mutex' \in Threads \cup {NoThread}
         /\ signalled_raw_cp_state' \in RawCPState
         /\ enabled' \in BOOLEAN /\ aborted' \in BOOLEAN
    BY <1>5 DEF IInv, TypeOK
  <1> QED BY <1>9, <1>10, <1>11, <1>12, <1>13, <1>14, <1>15, Rebuild

\* A step of a thread that touches neither the pilot nor the lock members,
\* and does not take the Charger into or out of a call or a section.
LEMMA Quiet ==
    ASSUME IInv, UNCHANGED <<iec, lk, enabled>>,
           timer' \in TimersType,
           th' \in [Threads -> ThreadType],
           \A t \in Threads : ThreadGood(th'[t]),
           \/ th'["chg"] = th["chg"]
           \/ /\ th["chg"].pc \notin {"call", "feed"}
              /\ th'["chg"].pc \notin {"call", "feed"},
           mutex' \in Threads \cup {NoThread},
           signalled_raw_cp_state' \in RawCPState, aborted' \in BOOLEAN
    PROVE  IInv'
  <1>1. iec' \in IecType /\ LockGood(lk') /\ enabled' \in BOOLEAN
    BY DEF IInv, TypeOK
  <1>2. PowerPermitted'
    BY DEF IInv, PowerPermitted, PowerStates
  <1>3. PilotGood(iec', th'["chg"])
    BY DEF IInv, PilotGood
  <1>4. LockReason(lk', th'["chg"])
    BY DEF IInv, LockReason
  <1> QED BY <1>1, <1>2, <1>3, <1>4, Rebuild

\* The facts about threads and timers that every step starts from.
LEMMA Start ==
    ASSUME IInv
    PROVE  /\ th \in [Threads -> ThreadType]
           /\ \A t \in Threads : ThreadGood(th[t])
           /\ timer \in TimersType
           /\ "chg" \in Threads /\ Timers \subseteq Threads
           /\ mutex \in Threads \cup {NoThread}
           /\ signalled_raw_cp_state \in RawCPState
           /\ enabled \in BOOLEAN /\ aborted \in BOOLEAN
           /\ iec \in IecType /\ LockGood(lk)
  BY DEF IInv, TypeOK, TimersType, Threads, Callers

LEMMA BlockStep ==
    ASSUME IInv, NEW t \in Threads, Block(t)
    PROVE  IInv'
  BY Start, Quiet DEF Block

LEMMA SignalStep ==
    ASSUME IInv, NEW t \in Threads, Signal(t)
    PROVE  IInv'
  <1>1. /\ th' = [th EXCEPT ![t] = Idle]
        /\ th[t].pc = "signal"
        /\ UNCHANGED <<iec, lk, mutex, enabled, aborted>>
    BY DEF Signal
  <1>2. /\ th' \in [Threads -> ThreadType]
        /\ \A x \in Threads : ThreadGood(th'[x])
    BY <1>1, Start, LocalsGood DEF ThreadGood
  <1>3. timer' \in TimersType
    <2>1. CASE t \in Timers
      <3>1. timer' = [timer EXCEPT ![t] = Exit(@)]
        BY <2>1 DEF Signal
      <3>2. Exit(timer[t]) \in TimerType(Threads)
        BY <2>1, Start, TimerOps DEF TimersType
      <3> QED BY <3>1, <3>2, Start DEF TimersType
    <2>2. CASE t \notin Timers
      BY <2>2, Start DEF Signal
    <2> QED BY <2>1, <2>2
  <1>4. signalled_raw_cp_state' \in RawCPState
    <2>1. th[t].cp \in RawCPState \cup {NoCp}
      BY Start DEF ThreadType
    <2> QED BY <2>1, Start DEF Signal
  <1>5. \/ th'["chg"] = th["chg"]
        \/ /\ th["chg"].pc \notin {"call", "feed"}
           /\ th'["chg"].pc \notin {"call", "feed"}
    BY <1>1, Start DEF Idle
  <1> QED BY <1>1, <1>2, <1>3, <1>4, <1>5, Start, Quiet

\* The first timer control of a thread that has one, and what remains.
LEMMA Controlling ==
    ASSUME NEW l, ThreadGood(l), l.pc \in {"timers", "join"}
    PROVE  /\ Head(l.todo)[1] \in Timers
           /\ [l EXCEPT !.todo = Tail(@)] \in ThreadType
  <1>1. l \in ThreadType /\ l.todo # <<>>
    BY DEF ThreadGood
  <1>2. l.todo \in Seq(Timers \X {"start", "stop"})
    BY <1>1 DEF ThreadType
  <1>3. /\ Head(l.todo) \in Timers \X {"start", "stop"}
        /\ Tail(l.todo) \in Seq(Timers \X {"start", "stop"})
    BY <1>1, <1>2
  <1> QED BY <1>1, <1>3 DEF ThreadType

\* A thread goes on after a timer control, with timers tms.
LEMMA Controlled ==
    ASSUME IInv, NEW t \in Threads, th[t].pc \in {"timers", "join"},
           NEW tms \in TimersType,
           Continue(t, [th[t] EXCEPT !.todo = Tail(@)], tms),
           UNCHANGED <<iec, lk, mutex, signalled_raw_cp_state, enabled>>,
           aborted' \in BOOLEAN
    PROVE  IInv'
  <1> DEFINE l == [th[t] EXCEPT !.todo = Tail(@)]
  <1>1. l \in ThreadType
    BY Start, Controlling
  <1> HIDE DEF l
  <1>2. Continue(t, l, tms)
    BY DEF l
  <1>3. /\ timer' \in TimersType
        /\ th' \in [Threads -> ThreadType]
        /\ \A x \in Threads : ThreadGood(th'[x])
        /\ \A x \in Threads \ {t} : th'[x] = th[x]
        /\ th'[t].pc \notin {"call", "feed"}
    BY <1>1, <1>2, Start, Continues
  <1>4. \/ th'["chg"] = th["chg"]
        \/ /\ th["chg"].pc \notin {"call", "feed"}
           /\ th'["chg"].pc \notin {"call", "feed"}
    BY <1>3, Start
  <1> QED BY <1>3, <1>4, Start, Quiet

LEMMA TimerControlStep ==
    ASSUME IInv, NEW t \in Threads, TimerControl(t)
    PROVE  IInv'
  <1> DEFINE k == Head(th[t].todo)[1]
             op == Head(th[t].todo)[2]
  <1>1. /\ th[t].pc = "timers"
        /\ UNCHANGED <<iec, lk, mutex, signalled_raw_cp_state, enabled>>
    BY DEF TimerControl
  <1>2. k \in Timers
    BY <1>1, Start, Controlling
  <1>3. timer[k] \in TimerType(Threads)
    BY <1>2, Start DEF TimersType
  <1> HIDE DEF k
  <1>4. CASE /\ Continue(t, [th[t] EXCEPT !.todo = Tail(@)],
                         IF op = "start" THEN [timer EXCEPT ![k] = Launch(@)]
                                         ELSE timer)
             /\ UNCHANGED aborted
    <2> DEFINE tms == IF op = "start" THEN [timer EXCEPT ![k] = Launch(@)]
                                      ELSE timer
    <2>1. Launch(timer[k]) \in TimerType(Threads)
      BY <1>3, TimerOps
    <2>2. tms \in TimersType
      BY <1>2, <2>1, Start DEF TimersType
    <2> HIDE DEF tms
    <2>3. Continue(t, [th[t] EXCEPT !.todo = Tail(@)], tms)
      BY <1>4 DEF tms
    <2> QED BY <1>1, <1>4, <2>2, <2>3, Start, Controlled
  <1>5. CASE /\ timer' = [timer EXCEPT ![k] = TakeToJoin(@, t)]
             /\ th' = [th EXCEPT ![t].pc = "join"]
             /\ UNCHANGED aborted
    <2>1. TakeToJoin(timer[k], t) \in TimerType(Threads)
      BY <1>3, TimerOps
    <2>2. timer' \in TimersType
      BY <1>2, <1>5, <2>1, Start DEF TimersType
    <2> DEFINE l == [th[t] EXCEPT !.pc = "join"]
    <2>3. ThreadGood(l) /\ l.pc = "join"
      BY <1>1, Start DEF ThreadGood, ThreadType, PC
    <2>4. th' = [th EXCEPT ![t] = l]
      BY <1>5
    <2> HIDE DEF l
    <2>5. /\ th' \in [Threads -> ThreadType]
          /\ \A x \in Threads : ThreadGood(th'[x])
      BY <2>3, <2>4, Start DEF ThreadGood
    <2>6. \/ th'["chg"] = th["chg"]
          \/ /\ th["chg"].pc \notin {"call", "feed"}
             /\ th'["chg"].pc \notin {"call", "feed"}
      BY <1>1, <2>3, <2>4, Start
    <2> QED BY <1>1, <1>5, <2>2, <2>5, <2>6, Start, Quiet
  <1>6. CASE aborted' = TRUE /\ UNCHANGED <<timer, th>>
    BY <1>1, <1>6, Start, Quiet
  <1> QED BY <1>4, <1>5, <1>6 DEF TimerControl, k

LEMMA JoinStep ==
    ASSUME IInv, NEW t \in Threads, Join(t)
    PROVE  IInv'
  <1> DEFINE k == Head(th[t].todo)[1]
             op == Head(th[t].todo)[2]
             joined == Joined(timer[k])
             next == IF op = "start" THEN Launch(joined) ELSE joined
             tms == [timer EXCEPT ![k] = next]
  <1>1. /\ th[t].pc = "join"
        /\ Continue(t, [th[t] EXCEPT !.todo = Tail(@)], tms)
        /\ UNCHANGED <<iec, lk, mutex, signalled_raw_cp_state, enabled, aborted>>
    BY DEF Join
  <1>2. k \in Timers
    BY <1>1, Start, Controlling
  <1>3. timer[k] \in TimerType(Threads)
    BY <1>2, Start DEF TimersType
  <1> HIDE DEF k
  <1>4. joined \in TimerType(Threads)
    BY <1>3, TimerOps
  <1> HIDE DEF joined
  <1>5. next \in TimerType(Threads)
    BY <1>4, TimerOps
  <1> HIDE DEF next
  <1>6. tms \in TimersType
    BY <1>2, <1>5, Start DEF TimersType
  <1> HIDE DEF tms
  <1> QED BY <1>1, <1>6, Start, Controlled

LEMMA WakeUpStep ==
    ASSUME IInv, NEW k \in Timers, WakeUp(k)
    PROVE  IInv'
  <1>1. UNCHANGED <<iec, lk, mutex, signalled_raw_cp_state, enabled, aborted>>
    BY DEF WakeUp
  <1>2. Fire(timer[k]) \in TimerType(Threads) /\ Exit(timer[k]) \in TimerType(Threads)
    BY Start, TimerOps DEF TimersType
  <1>3. timer' \in TimersType
    BY <1>2, Start DEF WakeUp, TimersType
  <1>4. CASE UNCHANGED th
    BY <1>1, <1>3, <1>4, Start, Quiet
  <1>5. CASE th' = [th EXCEPT ![k] = IF k = "captive"
                                     THEN [Idle EXCEPT !.pc = "captive"]
                                     ELSE Feeding(NoCp)]
    <2> DEFINE l == IF k = "captive" THEN [Idle EXCEPT !.pc = "captive"]
                                     ELSE Feeding(NoCp)
    <2>1. ThreadGood(l)
      BY LocalsGood
    <2>2. th' = [th EXCEPT ![k] = l]
      BY <1>5
    <2> HIDE DEF l
    <2>3. /\ th' \in [Threads -> ThreadType]
          /\ \A x \in Threads : ThreadGood(th'[x])
      BY <2>1, <2>2, Start DEF ThreadGood
    <2>4. th'["chg"] = th["chg"]
      BY <2>2, Start DEF Timers
    <2> QED BY <1>1, <1>3, <2>3, <2>4, Start, Quiet
  <1> QED BY <1>4, <1>5 DEF WakeUp

LEMMA TimePassesStep ==
    ASSUME IInv, NEW k \in Timers, TimePasses(k)
    PROVE  IInv'
  <1>1. Elapse(timer[k]) \in TimerType(Threads)
    BY Start, TimerOps DEF TimersType
  <1>2. timer' \in TimersType
    BY <1>1, Start DEF TimePasses, TimersType
  <1> QED BY <1>2, Start, Quiet DEF TimePasses

\* A step that puts a thread other than the Charger to new locals l, may
\* change the lock and the timers, and leaves the pilot alone.
LEMMA LockStep ==
    ASSUME IInv, NEW t \in Threads \ {"chg"}, NEW l, ThreadGood(l),
           th' = [th EXCEPT ![t] = l],
           LockGood(lk'),
           (lk.is_locked => Held(lk)) => (lk'.is_locked => Held(lk')),
           timer' \in TimersType,
           UNCHANGED <<iec, mutex, signalled_raw_cp_state, enabled, aborted>>
    PROVE  IInv'
  <1>1. /\ th' \in [Threads -> ThreadType]
        /\ \A x \in Threads : ThreadGood(th'[x])
        /\ th'["chg"] = th["chg"]
    BY Start DEF ThreadGood
  <1>2. LockReason(lk', th'["chg"])
    BY <1>1 DEF IInv, LockReason
  <1>3. PilotGood(iec', th'["chg"])
    BY <1>1 DEF IInv
  <1>4. PowerPermitted'
    BY DEF IInv, PowerPermitted, PowerStates
  <1> QED BY <1>1, <1>2, <1>3, <1>4, Start, Rebuild

LEMMA CaptiveReachedStep ==
    ASSUME IInv, CaptiveReached
    PROVE  IInv'
  <1>1. /\ lk' = captive_reached(lk)
        /\ th' = [th EXCEPT !["captive"] = Idle]
        /\ timer' = [timer EXCEPT !["captive"] = Exit(@)]
        /\ UNCHANGED <<iec, mutex, signalled_raw_cp_state, enabled, aborted>>
    BY DEF CaptiveReached
  <1>2. "captive" \in Timers /\ "captive" \in Threads \ {"chg"}
    BY DEF Timers, Threads
  <1>3. Exit(timer["captive"]) \in TimerType(Threads)
    BY <1>2, Start, TimerOps DEF TimersType
  <1>4. timer' \in TimersType
    BY <1>1, <1>3, Start DEF TimersType
  <1>5. LockGood(lk') /\ (lk'.is_locked => Held(lk'))
    BY <1>1, Start, CaptiveReachedLock
  <1> QED BY <1>1, <1>2, <1>4, <1>5, LocalsGood, LockStep

LEMMA BspCpStateStep ==
    ASSUME IInv, NEW cp \in RawCPState, BspCpState(cp)
    PROVE  IInv'
  <1>1. "bsp" \in Threads \ {"chg"}
    BY DEF Threads, Callers
  <1>2. /\ th' = [th EXCEPT !["bsp"] = Feeding(cp)]
        /\ UNCHANGED <<iec, lk, timer, mutex, signalled_raw_cp_state, enabled, aborted>>
    BY DEF BspCpState
  <1> QED BY <1>1, <1>2, LocalsGood, Start, LockStep

LEMMA BspPowerStep ==
    ASSUME IInv, NEW e \in {"PowerOn", "PowerOff"}, BspPower(e)
    PROVE  IInv'
  <1>1. "bsp" \in Threads \ {"chg"} /\ e \in CPEvent
    BY DEF Threads, Callers, CPEvent
  <1> DEFINE l == [Idle EXCEPT !.pc = "signal", !.events = <<e>>]
  <1>2. /\ th' = [th EXCEPT !["bsp"] = l]
        /\ lk' = set_relais(lk, e = "PowerOn")
        /\ UNCHANGED <<iec, timer, mutex, signalled_raw_cp_state, enabled, aborted>>
    BY DEF BspPower
  <1>3. ThreadGood(l)
    BY <1>1, LocalsGood
  <1> HIDE DEF l
  <1>4. LockGood(lk') /\ (lk'.is_locked => Held(lk'))
    BY <1>2, Start, RelaisLock
  <1> QED BY <1>1, <1>2, <1>3, <1>4, Start, LockStep

LEMMA BspPpStep ==
    ASSUME IInv, NEW present \in BOOLEAN, BspPp(present)
    PROVE  IInv'
  <1> DEFINE op == pp_timer(lk, present, SeatingDelay)
             l == IF op = "nothing" THEN th["pp"]
                  ELSE [Idle EXCEPT !.pc = "timers", !.todo = <<<<"captive", op>>>>]
  <1>1. "pp" \in Threads \ {"chg"} /\ "captive" \in Timers
    BY DEF Threads, Callers, Timers
  <1>2. /\ lk' = set_pp(lk, present, SeatingDelay)
        /\ UNCHANGED <<iec, timer, mutex, signalled_raw_cp_state, enabled, aborted>>
    BY DEF BspPp
  <1>3. SeatingDelay \in BOOLEAN
    BY ConfigAssumption DEF ConfigAssumption
  <1>4. lk.keep_cable_locked \in BOOLEAN
    BY Start DEF LockGood, LockType
  <1>5. op \in Control
    BY <1>4 DEF pp_timer, Control
  <1>6. th' = [th EXCEPT !["pp"] = l]
    <2>1. CASE op = "nothing"
      BY <2>1, <1>1, Start DEF BspPp
    <2>2. CASE op # "nothing"
      BY <2>2 DEF BspPp
    <2> QED BY <2>1, <2>2
  <1> HIDE DEF op
  <1>7. ThreadGood(l)
    BY <1>1, <1>5, Start, LocalsGood DEF Control
  <1> HIDE DEF l
  <1>8. /\ LockGood(lk')
        /\ (lk.is_locked => Held(lk)) => (lk'.is_locked => Held(lk'))
    BY <1>2, <1>3, Start, PlugLock
  <1> QED BY <1>1, <1>2, <1>6, <1>7, <1>8, Start, LockStep

LEMMA ForceUnlockStep ==
    ASSUME IInv, ForceUnlock
    PROVE  IInv'
  <1>1. "cmd" \in Threads \ {"chg"}
    BY DEF Threads, Callers
  <1>2. /\ lk' = force_unlock(lk, iec.last_cp_state)
        /\ th' = [th EXCEPT !["cmd"] = th["cmd"]]
        /\ UNCHANGED <<iec, timer, mutex, signalled_raw_cp_state, enabled, aborted>>
    BY <1>1, Start DEF ForceUnlock
  <1>3. LockGood(lk') /\ (lk'.is_locked => Held(lk'))
    BY <1>2, Start, ForceUnlockLock
  <1> QED BY <1>1, <1>2, <1>3, Start, LockStep

LEMMA SetKeepCableLockedStep ==
    ASSUME IInv, NEW keep \in BOOLEAN, SetKeepCableLocked(keep)
    PROVE  IInv'
  <1> DEFINE l == [Idle EXCEPT !.pc = "timers", !.todo = <<<<"captive", "stop">>>>]
  <1>1. "cmd" \in Threads \ {"chg"} /\ "captive" \in Timers
    BY DEF Threads, Callers, Timers
  <1>2. /\ lk' = set_keep(lk, keep)
        /\ th' = [th EXCEPT !["cmd"] = l]
        /\ UNCHANGED <<iec, timer, mutex, signalled_raw_cp_state, enabled, aborted>>
    BY DEF SetKeepCableLocked
  <1>3. ThreadGood(l)
    BY <1>1, LocalsGood
  <1> HIDE DEF l
  <1>4. LockGood(lk') /\ (lk'.is_locked => Held(lk'))
    BY <1>2, Start, KeepLock
  <1> QED BY <1>1, <1>2, <1>3, <1>4, Start, LockStep

\* A step of the Charger: new locals l, new pilot members.
LEMMA ChargerStep ==
    ASSUME IInv, NEW l, ThreadGood(l),
           th' = [th EXCEPT !["chg"] = l],
           iec' \in IecType, PowerPermitted', PilotGood(iec', l),
           LockGood(lk'), LockReason(lk', l),
           UNCHANGED <<timer, mutex, signalled_raw_cp_state, enabled, aborted>>
    PROVE  IInv'
  <1>1. /\ th' \in [Threads -> ThreadType]
        /\ \A x \in Threads : ThreadGood(th'[x])
        /\ th'["chg"] = l
    BY Start DEF ThreadGood
  <1> QED BY <1>1, Start, Rebuild

\* A setter that only changes the pilot requests, and announces the call out.
LEMMA SetterStep ==
    ASSUME IInv, NEW out \in PilotOutput, th["chg"] = Idle,
           th' = [th EXCEPT !["chg"] = Calling(out)],
           iec' \in IecType,
           \A x \in {"last_power_on_forwarded", "power_on_allowed",
                     "last_cp_state", "output"} : iec'[x] = iec[x],
           iec'.pwm_running => out = "PWM",
           iec'.cp_state_f_requested =>
                out = "F" \/ (out = "E" /\ iec.cp_state_f_requested),
           UNCHANGED <<lk, timer, mutex, signalled_raw_cp_state, enabled, aborted>>
    PROVE  IInv'
  <1> DEFINE l == Calling(out)
  <1>1. l.pc = "call" /\ l.call = out /\ ThreadGood(l)
    BY LocalsGood DEF Calling, Idle
  <1>2. Idle.pc = "idle"
    BY DEF Idle
  <1> HIDE DEF l
  <1>3. PowerPermitted'
    BY DEF IInv, PowerPermitted, PowerStates
  <1>4. PilotGood(iec', l)
    BY <1>1, <1>2 DEF IInv, PilotGood
  <1>5. LockGood(lk') /\ LockReason(lk', l)
    BY <1>2 DEF IInv, LockReason
  <1>6. th' = [th EXCEPT !["chg"] = l]
    BY DEF l
  <1> QED BY <1>1, <1>3, <1>4, <1>5, <1>6, ChargerStep

LEMMA SetPilotStep ==
    ASSUME IInv, SetPilot
    PROVE  IInv'
  <1>0. /\ th["chg"] = Idle
        /\ UNCHANGED <<lk, timer, mutex, signalled_raw_cp_state, enabled, aborted>>
    BY DEF SetPilot
  <1> DEFINE same(n) == \A x \in {"last_power_on_forwarded", "power_on_allowed",
                                  "last_cp_state", "output"} : n[x] = iec[x]
  <1>1. CASE iec' = set_pwm(iec) /\ th' = [th EXCEPT !["chg"] = Calling("PWM")]
    <2>1. iec' \in IecType /\ same(iec') /\ ~iec'.cp_state_f_requested
      BY <1>1, Start DEF IecType, set_pwm
    <2> QED BY <1>0, <1>1, <2>1, SetterStep DEF PilotOutput
  <1>2. CASE iec' = set_cp_state_X1(iec) /\ th' = [th EXCEPT !["chg"] = Calling("X1")]
    <2>1. /\ iec' \in IecType /\ same(iec')
          /\ ~iec'.pwm_running /\ ~iec'.cp_state_f_requested
      BY <1>2, Start DEF IecType, set_cp_state_X1
    <2> QED BY <1>0, <1>2, <2>1, SetterStep DEF PilotOutput
  <1>3. CASE iec' = set_cp_state_F(iec) /\ th' = [th EXCEPT !["chg"] = Calling("F")]
    <2>1. iec' \in IecType /\ same(iec') /\ ~iec'.pwm_running
      BY <1>3, Start DEF IecType, set_cp_state_F
    <2> QED BY <1>0, <1>3, <2>1, SetterStep DEF PilotOutput
  <1>4. CASE iec' = set_cp_state_E(iec) /\ th' = [th EXCEPT !["chg"] = Calling("E")]
    <2>1. /\ iec' \in IecType /\ same(iec') /\ ~iec'.pwm_running
          /\ iec'.cp_state_f_requested = iec.cp_state_f_requested
      BY <1>4, Start DEF IecType, set_cp_state_E
    <2> QED BY <1>0, <1>4, <2>1, SetterStep DEF PilotOutput
  <1> QED BY <1>1, <1>2, <1>3, <1>4 DEF SetPilot

LEMMA CallBspStep ==
    ASSUME IInv, CallBsp
    PROVE  IInv'
  <1> DEFINE l == Feeding(NoCp)
             out == th["chg"].call
  <1>1. l.pc = "feed" /\ ThreadGood(l)
    BY LocalsGood DEF Feeding, Idle
  <1>2. /\ th' = [th EXCEPT !["chg"] = l]
        /\ th["chg"].pc = "call"
        /\ iec' = [iec EXCEPT !.output = out]
        /\ UNCHANGED <<lk, timer, mutex, signalled_raw_cp_state, enabled, aborted>>
    BY DEF CallBsp
  <1> HIDE DEF l
  <1>3. out \in PilotOutput
    BY Start DEF ThreadType
  <1>4. /\ iec' \in IecType
        /\ iec'.output = out
        /\ \A x \in {"last_power_on_forwarded", "power_on_allowed",
                     "last_cp_state", "pwm_running", "cp_state_f_requested"} :
              iec'[x] = iec[x]
    BY <1>2, <1>3, Start DEF IecType
  <1>5. PowerPermitted'
    BY <1>4 DEF IInv, PowerPermitted, PowerStates
  <1>6. PilotGood(iec', l)
    BY <1>1, <1>2, <1>3, <1>4 DEF IInv, PilotGood, PilotOutput
  <1>7. LockGood(lk') /\ LockReason(lk', l)
    BY <1>1, <1>2 DEF IInv, LockReason
  <1> QED BY <1>1, <1>2, <1>4, <1>5, <1>6, <1>7, ChargerStep

LEMMA AllowPowerOnStep ==
    ASSUME IInv, NEW value \in BOOLEAN, AllowPowerOn(value)
    PROVE  IInv'
  <1> DEFINE l == Feeding(NoCp)
  <1>1. l.pc = "feed" /\ ThreadGood(l) /\ Idle.pc = "idle"
    BY LocalsGood DEF Feeding, Idle
  <1>2. /\ th' = [th EXCEPT !["chg"] = l]
        /\ th["chg"] = Idle
        /\ iec' = allow_power_on(iec, value)
        /\ UNCHANGED <<lk, timer, mutex, signalled_raw_cp_state, enabled, aborted>>
    BY DEF AllowPowerOn
  <1> HIDE DEF l
  <1>3. /\ iec' \in IecType
        /\ iec'.last_power_on_forwarded =>
              iec'.power_on_allowed /\ iec.last_power_on_forwarded
        /\ \A x \in {"last_cp_state", "pwm_running", "output",
                     "cp_state_f_requested"} : iec'[x] = iec[x]
    BY <1>2, Start DEF IecType, allow_power_on, PowerOff
  <1>4. PowerPermitted'
    BY <1>3 DEF IInv, PowerPermitted, PowerStates
  <1>5. PilotGood(iec', l)
    BY <1>1, <1>2, <1>3 DEF IInv, PilotGood
  <1>6. LockGood(lk') /\ LockReason(lk', l)
    BY <1>1, <1>2 DEF IInv, LockReason
  <1> QED BY <1>1, <1>2, <1>3, <1>4, <1>5, <1>6, ChargerStep

LEMMA SetAuthorizedStep ==
    ASSUME IInv, NEW a \in BOOLEAN, SetAuthorized(a)
    PROVE  IInv'
  <1> DEFINE l == Feeding(NoCp)
  <1>1. l.pc = "feed" /\ ThreadGood(l) /\ Idle.pc = "idle"
    BY LocalsGood DEF Feeding, Idle
  <1>2. /\ th' = [th EXCEPT !["chg"] = l]
        /\ th["chg"] = Idle
        /\ lk' = [lk EXCEPT !.authorized = a]
        /\ UNCHANGED <<iec, timer, mutex, signalled_raw_cp_state, enabled, aborted>>
    BY DEF SetAuthorized
  <1> HIDE DEF l
  <1>3. PowerPermitted'
    BY <1>2 DEF IInv, PowerPermitted, PowerStates
  <1>4. PilotGood(iec', l)
    BY <1>1, <1>2 DEF IInv, PilotGood
  <1>5. LockGood(lk') /\ LockReason(lk', l)
    BY <1>1, <1>2, Start DEF LockGood, LockType, LockFlags, LockReason
  <1> QED BY <1>1, <1>2, <1>3, <1>4, <1>5, Start, ChargerStep

LEMMA EnableStep ==
    ASSUME IInv, NEW en \in BOOLEAN, Enable(en)
    PROVE  IInv'
  BY DEF Enable, IInv, TypeOK, PowerPermitted, PowerStates

LEMMA StutterStep ==
    ASSUME IInv, UNCHANGED vars
    PROVE  IInv'
  BY DEF vars, IInv, TypeOK, PowerPermitted, PowerStates

\* IInv is inductive.
LEMMA NextInv == IInv /\ [Next]_vars => IInv'
  <1> SUFFICES ASSUME IInv, [Next]_vars PROVE IInv'
    OBVIOUS
  <1>1. CASE \E t \in Threads : ThreadStep(t)
    BY <1>1, SectionStep, BlockStep, TimerControlStep, JoinStep, SignalStep
    DEF ThreadStep
  <1>2. CASE \E k \in Timers : WakeUp(k) \/ TimePasses(k)
    BY <1>2, WakeUpStep, TimePassesStep
  <1>3. CASE CaptiveReached \/ CallBsp \/ SetPilot \/ ForceUnlock
    BY <1>3, CaptiveReachedStep, CallBspStep, SetPilotStep, ForceUnlockStep
  <1>4. CASE \E cp \in RawCPState : BspCpState(cp)
    BY <1>4, BspCpStateStep
  <1>5. CASE \E e \in {"PowerOn", "PowerOff"} : BspPower(e)
    BY <1>5, BspPowerStep
  <1>6. CASE \E b \in BOOLEAN : \/ BspPp(b)
                                \/ AllowPowerOn(b)
                                \/ SetAuthorized(b)
                                \/ Enable(b)
                                \/ SetKeepCableLocked(b)
    BY <1>6, BspPpStep, AllowPowerOnStep, SetAuthorizedStep, EnableStep,
       SetKeepCableLockedStep
  <1>7. CASE UNCHANGED vars
    BY <1>7, StutterStep
  <1> QED BY <1>1, <1>2, <1>3, <1>4, <1>5, <1>6, <1>7
          DEF Next, Internal, External

LEMMA Invariance == Spec => []IInv
  BY InitInv, NextInv, PTL DEF Spec

-----------------------------------------------------------------------------
\* The theorems.

\* Every member of IECStateMachine, every timer and every thread's locals
\* keep their type.
THEOREM TypeCorrect == Spec => []TypeOK
  <1>1. IInv => TypeOK
    BY DEF IInv
  <1> QED BY <1>1, Invariance, PTL

\* call_allow_power_on_bsp(true) is in force only while the Charger's
\* permission stands and the last CP state seen requests power: for every
\* configuration and whatever the board and the Charger do.
THEOREM PowerSafety == Spec => []PowerPermitted
  <1>1. IInv => PowerPermitted
    BY DEF IInv
  <1> QED BY <1>1, Invariance, PTL

\* pwm_running is never set behind the back of an automatic X1.
THEOREM PwmSafety == Spec => []PwmBelief
  <1>1. IInv => PwmBelief
    BY DEF IInv, PilotGood, PwmBelief, Idle
  <1> QED BY <1>1, Invariance, PTL

\* A requested state F survives the automatic X1.
THEOREM StateFSafety == Spec => []StateFHonoured
  <1>1. IInv => StateFHonoured
    BY DEF IInv, PilotGood, StateFHonoured, Idle
  <1> QED BY <1>1, Invariance, PTL

\* check_connector_lock() never lets go of a live connector.
THEOREM LockSafety == Spec => []RelaisHoldLock
  <1>1. IInv => RelaisHoldLock
    BY DEF IInv, LockGood, RelaisHoldLock
  <1> QED BY <1>1, Invariance, PTL

\* ... and never holds it without a reason.
THEOREM LockReasonSafety == Spec => []LockHasReason
  <1>1. IInv => LockHasReason
    BY DEF IInv, LockReason, LockHasReason, Held, Idle
  <1> QED BY <1>1, Invariance, PTL

\* Removal of the plug leaves no captive flag behind.
THEOREM CaptiveSafety == Spec => []CaptiveFlagsNeedPlug
  <1>1. IInv => CaptiveFlagsNeedPlug
    BY DEF IInv, LockGood, LockFlags, CaptiveFlagsNeedPlug
  <1> QED BY <1>1, Invariance, PTL

\* Only a force unlock or leaving captive mode releases a latched lock: no
\* section, debounce callback, relay event or proximity reading does.
THEOREM LatchTheorem == Spec => LatchHolds
  <1>1. IInv /\ [Next]_vars => [LatchReleased]_vars
    <2> SUFFICES ASSUME IInv, [Next]_vars,
                        lk.captive_latched, ~lk'.captive_latched
                 PROVE  ForceUnlock \/ SetKeepCableLocked(FALSE)
      BY DEF LatchReleased
    <2>1. LockGood(lk) /\ lk # lk'
      BY DEF IInv
    <2>2. ASSUME NEW t \in Threads PROVE ~ThreadStep(t)
      <3>1. CASE Section(t)
        <4> DEFINE cp == CpOf(t)
                   c == Reached(timer["c1"])
                   f == Reached(timer["f"])
                   out == StateOutcome(iec, cp, c, f)
        <4>1. cp \in RawCPState /\ iec \in IecType /\ Powered(iec)
          BY DEF IInv, TypeOK, PowerPermitted, Powered, CpOf, ThreadType, IecType
        <4>2. c \in BOOLEAN /\ f \in BOOLEAN
          BY DEF Reached
        <4>3. Sound(iec, cp, out)
          BY <4>1, <4>2, SoundSection
        <4>4. lk' = check_connector_lock(Request(lk, out.lock))
          BY <3>1 DEF Section
        <4> HIDE DEF out
        <4> QED BY <2>1, <4>3, <4>4, SectionLock DEF Sound
      <3>2. CASE Block(t) \/ TimerControl(t) \/ Join(t) \/ Signal(t)
        BY <2>1, <3>2 DEF Block, TimerControl, Join, Signal
      <3> QED BY <3>1, <3>2 DEF ThreadStep
    <2>3. ASSUME NEW k \in Timers PROVE ~(WakeUp(k) \/ TimePasses(k))
      BY <2>1 DEF WakeUp, TimePasses
    <2>4. ~CaptiveReached
      BY <2>1, CaptiveReachedLock DEF CaptiveReached
    <2>5. ~CallBsp /\ ~SetPilot /\ ~(\E cp \in RawCPState : BspCpState(cp))
      BY <2>1 DEF CallBsp, SetPilot, BspCpState
    <2>6. ASSUME NEW e \in {"PowerOn", "PowerOff"} PROVE ~BspPower(e)
      BY <2>1, RelaisLock DEF BspPower
    <2>7. ASSUME NEW b \in BOOLEAN
          PROVE  ~(BspPp(b) \/ AllowPowerOn(b) \/ SetAuthorized(b) \/ Enable(b))
      <3>1. ~BspPp(b)
        <4>1. SeatingDelay \in BOOLEAN
          BY ConfigAssumption DEF ConfigAssumption
        <4> QED BY <2>1, <4>1, PlugLock DEF BspPp
      <3>2. ~AllowPowerOn(b) /\ ~Enable(b)
        BY <2>1 DEF AllowPowerOn, Enable
      <3>3. ~SetAuthorized(b)
        BY <2>1 DEF SetAuthorized, LockGood, LockType
      <3> QED BY <3>1, <3>2, <3>3
    <2>8. ~SetKeepCableLocked(TRUE)
      <3>1. lk.keep_cable_locked = TRUE
        BY <2>1 DEF LockGood, LockFlags, LockType
      <3> QED BY <3>1 DEF SetKeepCableLocked
    <2>9. ~UNCHANGED vars
      BY <2>1 DEF vars
    <2> QED BY <2>2, <2>3, <2>4, <2>5, <2>6, <2>7, <2>8, <2>9
            DEF Next, Internal, External
  <1> QED BY <1>1, Invariance, PTL DEF Spec, LatchHolds

-----------------------------------------------------------------------------
\* The published CP state.

\* Only the board thread brings a CP state of its own.  Before its section,
\* and whenever it has none, the published state is the one acted on; after
\* the section the one acted on is the one it still has to publish.
Published(l, signalled, last) ==
    IF l.pc = "feed" \/ l.cp = NoCp THEN signalled = last ELSE last = l.cp

RawGood ==
    /\ \A t \in Threads \ {"bsp"} : th[t].cp = NoCp
    /\ Published(th["bsp"], signalled_raw_cp_state, iec.last_cp_state)

\* The locals a thread starts with carry no CP state, but for a board event.
LEMMA LocalsCp ==
    /\ Idle.cp = NoCp /\ Idle.pc = "idle"
    /\ \A cp : Feeding(cp).cp = cp /\ Feeding(cp).pc = "feed"
    /\ \A out : Calling(out).cp = NoCp
    /\ \A todo : [Idle EXCEPT !.pc = "timers", !.todo = todo].cp = NoCp
    /\ \A ev : [Idle EXCEPT !.pc = "signal", !.events = ev].cp = NoCp
    /\ [Idle EXCEPT !.pc = "captive"].cp = NoCp
  BY DEF Idle, Feeding, Calling

\* A step that gives one thread locals without a CP state and leaves the CP
\* states alone: the board thread only when it had none either.
LEMMA RawQuiet ==
    ASSUME IInv, RawGood, NEW t \in Threads, NEW l,
           th' = [th EXCEPT ![t] = l], l.cp = NoCp,
           t = "bsp" => th["bsp"] = Idle,
           signalled_raw_cp_state' = signalled_raw_cp_state,
           iec'.last_cp_state = iec.last_cp_state
    PROVE  RawGood'
  <1>1. \A x \in Threads : th'[x] = IF x = t THEN l ELSE th[x]
    BY Start
  <1>2. "bsp" \in Threads
    BY DEF Threads, Callers
  <1> QED BY <1>1, <1>2, LocalsCp DEF RawGood, Published

\* A step that leaves the threads and the CP states alone.
LEMMA RawStill ==
    ASSUME RawGood, th' = th,
           signalled_raw_cp_state' = signalled_raw_cp_state,
           iec'.last_cp_state = iec.last_cp_state
    PROVE  RawGood'
  BY DEF RawGood, Published

\* A thread goes on with locals l after its section, or after a timer control:
\* it keeps its CP state until nothing is left to be published.
LEMMA RawContinues ==
    ASSUME NEW t \in Threads, NEW l \in ThreadType, NEW tms,
           th \in [Threads -> ThreadType], Continue(t, l, tms)
    PROVE  /\ \A x \in Threads \ {t} : th'[x] = th[x]
           /\ \/ th'[t].cp = l.cp /\ th'[t].pc # "feed"
              \/ th'[t].cp = NoCp /\ l.cp \in {NoCp, signalled_raw_cp_state}
  <1> DEFINE next == Resume(t, l)
  <1>1. th' = [th EXCEPT ![t] = next]
    BY DEF Continue
  <1>2. \/ next.cp = l.cp /\ next.pc # "feed"
        \/ next.cp = NoCp /\ l.cp \in {NoCp, signalled_raw_cp_state}
    BY LocalsCp DEF Resume, ThreadType
  <1> HIDE DEF next
  <1> QED BY <1>1, <1>2

\* The section leaves last_cp_state at the CP state it was run for.
LEMMA RawSection ==
    ASSUME IInv, RawGood, NEW t \in Threads, Section(t)
    PROVE  RawGood'
  <1> DEFINE cp == CpOf(t)
             out == StateOutcome(iec, cp, Reached(timer["c1"]), Reached(timer["f"]))
             todo == Controls(out.c1, FControl(iec, cp))
             l == [th[t] EXCEPT !.events = out.events, !.todo = todo]
  <1>1. /\ th[t].pc = "feed"
        /\ iec' = Remember(out.iec, cp)
        /\ Continue(t, l, timer)
        /\ signalled_raw_cp_state' = signalled_raw_cp_state
    BY DEF Section
  <1>2. cp \in RawCPState /\ iec \in IecType /\ Powered(iec)
    BY DEF IInv, TypeOK, PowerPermitted, Powered, CpOf, ThreadType, IecType
  <1>3. Sound(iec, cp, out)
    BY <1>2, SoundSection DEF Reached
  <1>4. out.iec \in IecType /\ out.events \in Seq(CPEvent)
    BY <1>3 DEF Sound
  <1>5. iec'.last_cp_state = cp
    <2> HIDE DEF cp, out
    <2> QED BY <1>1, <1>4 DEF Remember, IecType
  <1>6. l \in ThreadType /\ l.cp = th[t].cp
    <2>1. todo \in Seq(Timers \X {"start", "stop"})
      <3>1. out.c1 \in Control /\ FControl(iec, cp) \in Control
        BY <1>3 DEF Sound, FControl, Control
      <3> HIDE DEF out, cp
      <3> DEFINE f == FControl(iec, cp)
                 a == IF out.c1 = "nothing" THEN <<>> ELSE <<<<"c1", out.c1>>>>
                 b == IF f = "nothing" THEN <<>> ELSE <<<<"f", f>>>>
      <3>2. a \in Seq(Timers \X {"start", "stop"})
        BY <3>1 DEF Control, Timers
      <3>3. b \in Seq(Timers \X {"start", "stop"})
        BY <3>1 DEF Control, Timers
      <3>4. todo = a \o b
        BY DEF Controls
      <3> HIDE DEF a, b, todo
      <3> QED BY <3>2, <3>3, <3>4
    <2>2. th[t] \in ThreadType
      BY Start
    <2> HIDE DEF todo, out
    <2> QED BY <1>4, <2>1, <2>2 DEF ThreadType
  <1>7. th \in [Threads -> ThreadType] /\ "bsp" \in Threads
    BY Start DEF Threads, Callers
  <1>8. cp = IF th[t].cp = NoCp THEN iec.last_cp_state ELSE th[t].cp
    BY DEF CpOf
  <1> HIDE DEF l, cp
  <1>9. /\ \A x \in Threads \ {t} : th'[x] = th[x]
        /\ \/ th'[t].cp = l.cp /\ th'[t].pc # "feed"
           \/ th'[t].cp = NoCp /\ l.cp \in {NoCp, signalled_raw_cp_state}
    BY <1>1, <1>6, <1>7, RawContinues
  <1>10. CASE t = "bsp"
    <2>1. Published(th'["bsp"], signalled_raw_cp_state', iec'.last_cp_state)
      BY <1>1, <1>5, <1>6, <1>8, <1>9, <1>10 DEF RawGood, Published
    <2> QED BY <1>9, <1>10, <2>1 DEF RawGood
  <1>11. CASE t # "bsp"
    <2>1. th[t].cp = NoCp
      BY <1>11 DEF RawGood
    <2>2. th'["bsp"] = th["bsp"]
      BY <1>7, <1>9, <1>11
    <2>3. iec'.last_cp_state = iec.last_cp_state
      BY <1>5, <1>8, <2>1
    <2> QED BY <1>1, <1>6, <1>9, <2>1, <2>2, <2>3 DEF RawGood
  <1> QED BY <1>10, <1>11

\* A timer control between the section and the signals changes no CP state.
LEMMA RawControl ==
    ASSUME IInv, RawGood, NEW t \in Threads, TimerControl(t) \/ Join(t)
    PROVE  RawGood'
  <1> DEFINE rest == [th[t] EXCEPT !.todo = Tail(@)]
  <1>1. /\ th[t].pc \in {"timers", "join"}
        /\ iec' = iec /\ signalled_raw_cp_state' = signalled_raw_cp_state
    BY DEF TimerControl, Join
  <1>2. th \in [Threads -> ThreadType] /\ "bsp" \in Threads
    BY Start DEF Threads, Callers
  <1>3. rest \in ThreadType /\ rest.cp = th[t].cp
    <2>1. rest \in ThreadType
      BY <1>1, Start, Controlling
    <2> QED BY <1>2, <2>1 DEF ThreadType
  <1>4. \/ \E tms : Continue(t, rest, tms)
        \/ th' = [th EXCEPT ![t].pc = "join"]
        \/ th' = th
    BY DEF TimerControl, Join
  <1> HIDE DEF rest
  <1>5. CASE \E tms : Continue(t, rest, tms)
    <2>1. /\ \A x \in Threads \ {t} : th'[x] = th[x]
          /\ \/ th'[t].cp = rest.cp /\ th'[t].pc # "feed"
             \/ th'[t].cp = NoCp /\ rest.cp \in {NoCp, signalled_raw_cp_state}
      BY <1>2, <1>3, <1>5, RawContinues
    <2>2. CASE t = "bsp"
      BY <1>1, <1>3, <2>1, <2>2 DEF RawGood, Published
    <2>3. CASE t # "bsp"
      <3>1. th'["bsp"] = th["bsp"] /\ rest.cp = NoCp
        BY <1>2, <1>3, <2>1, <2>3 DEF RawGood
      <3> QED BY <1>1, <2>1, <3>1 DEF RawGood
    <2> QED BY <2>2, <2>3
  <1>6. CASE th' = [th EXCEPT ![t].pc = "join"]
    <2> DEFINE l == [th[t] EXCEPT !.pc = "join"]
    <2>1. l.cp = th[t].cp /\ l.pc = "join"
      BY <1>2 DEF ThreadType
    <2>2. th' = [th EXCEPT ![t] = l]
      BY <1>6
    <2> HIDE DEF l
    <2>3. \A x \in Threads : th'[x] = IF x = t THEN l ELSE th[x]
      BY <1>2, <2>2
    <2> QED BY <1>1, <1>2, <2>1, <2>3 DEF RawGood, Published
  <1>7. CASE th' = th
    BY <1>1, <1>7, RawStill
  <1> QED BY <1>4, <1>5, <1>6, <1>7

\* The board thread publishes the state it fed; no other thread publishes one.
LEMMA RawSignal ==
    ASSUME IInv, RawGood, NEW t \in Threads, Signal(t)
    PROVE  RawGood'
  <1>1. /\ th[t].pc = "signal"
        /\ signalled_raw_cp_state' = IF th[t].cp = NoCp
                                     THEN signalled_raw_cp_state ELSE th[t].cp
        /\ th' = [th EXCEPT ![t] = Idle]
        /\ iec' = iec
    BY DEF Signal
  <1>2. /\ "bsp" \in Threads
        /\ \A x \in Threads : th'[x] = IF x = t THEN Idle ELSE th[x]
    BY <1>1, Start DEF Threads, Callers
  <1>3. CASE t = "bsp"
    BY <1>1, <1>2, <1>3, LocalsCp DEF RawGood, Published
  <1>4. CASE t # "bsp"
    <2>1. th[t].cp = NoCp
      BY <1>4 DEF RawGood
    <2> QED BY <1>1, <1>2, <1>4, <2>1, LocalsCp DEF RawGood
  <1> QED BY <1>3, <1>4

\* RawGood is inductive relative to IInv.
LEMMA NextRaw == IInv /\ RawGood /\ [Next]_vars => RawGood'
  <1> SUFFICES ASSUME IInv, RawGood, [Next]_vars PROVE RawGood'
    OBVIOUS
  <1>0. /\ Timers \subseteq Threads /\ Callers \subseteq Threads
        /\ "bsp" \notin Timers /\ "captive" \in Threads
        /\ {"bsp", "chg", "pp", "cmd"} \subseteq Threads
    BY DEF Timers, Threads, Callers
  <1>1. CASE \E t \in Threads : ThreadStep(t)
    <2> PICK t \in Threads : ThreadStep(t)
      BY <1>1
    <2>1. CASE Block(t)
      BY <2>1, RawStill DEF Block
    <2> QED BY <2>1, RawSection, RawControl, RawSignal DEF ThreadStep
  <1>2. CASE \E k \in Timers : WakeUp(k) \/ TimePasses(k)
    <2> PICK k \in Timers : WakeUp(k) \/ TimePasses(k)
      BY <1>2
    <2>1. iec' = iec /\ signalled_raw_cp_state' = signalled_raw_cp_state
      BY DEF WakeUp, TimePasses
    <2>2. CASE th' = th
      BY <2>1, <2>2, RawStill
    <2>3. CASE th' = [th EXCEPT ![k] = IF k = "captive"
                                     THEN [Idle EXCEPT !.pc = "captive"]
                                     ELSE Feeding(NoCp)]
      <3> DEFINE l == IF k = "captive" THEN [Idle EXCEPT !.pc = "captive"]
                                       ELSE Feeding(NoCp)
      <3>1. l.cp = NoCp
        BY LocalsCp
      <3>2. th' = [th EXCEPT ![k] = l]
        BY <2>3
      <3> HIDE DEF l
      <3> QED BY <1>0, <2>1, <3>1, <3>2, RawQuiet
    <2> QED BY <2>2, <2>3 DEF WakeUp, TimePasses
  <1>3. CASE CaptiveReached
    BY <1>0, <1>3, LocalsCp, RawQuiet DEF CaptiveReached
  <1>4. CASE CallBsp
    <2>1. /\ th' = [th EXCEPT !["chg"] = Feeding(NoCp)]
          /\ iec'.last_cp_state = iec.last_cp_state
          /\ signalled_raw_cp_state' = signalled_raw_cp_state
      BY <1>4, Start DEF CallBsp, IecType
    <2> QED BY <1>0, <2>1, LocalsCp, RawQuiet
  <1>5. CASE SetPilot
    <2>1. /\ \E out : th' = [th EXCEPT !["chg"] = Calling(out)]
          /\ signalled_raw_cp_state' = signalled_raw_cp_state
      BY <1>5 DEF SetPilot
    <2>2. iec'.last_cp_state = iec.last_cp_state
      BY <1>5, Start DEF SetPilot, IecType, set_pwm, set_cp_state_X1,
                         set_cp_state_F, set_cp_state_E
    <2>3. PICK out : th' = [th EXCEPT !["chg"] = Calling(out)]
      BY <2>1
    <2>4. Calling(out).cp = NoCp
      BY LocalsCp
    <2> QED BY <1>0, <2>1, <2>2, <2>3, <2>4, RawQuiet
  <1>6. CASE ForceUnlock
    BY <1>6, RawStill DEF ForceUnlock
  <1>7. CASE \E cp \in RawCPState : BspCpState(cp)
    <2> PICK cp \in RawCPState : BspCpState(cp)
      BY <1>7
    <2>1. /\ th["bsp"] = Idle
          /\ th' = [th EXCEPT !["bsp"] = Feeding(cp)]
          /\ iec' = iec /\ signalled_raw_cp_state' = signalled_raw_cp_state
      BY DEF BspCpState
    <2>2. \A x \in Threads : th'[x] = IF x = "bsp" THEN Feeding(cp) ELSE th[x]
      BY <2>1, Start
    <2> QED BY <1>0, <2>1, <2>2, LocalsCp DEF RawGood, Published
  <1>8. CASE \E e \in {"PowerOn", "PowerOff"} : BspPower(e)
    <2> PICK e \in {"PowerOn", "PowerOff"} : BspPower(e)
      BY <1>8
    <2> DEFINE l == [Idle EXCEPT !.pc = "signal", !.events = <<e>>]
    <2>1. /\ th["bsp"] = Idle /\ th' = [th EXCEPT !["bsp"] = l]
          /\ iec' = iec /\ signalled_raw_cp_state' = signalled_raw_cp_state
      BY DEF BspPower
    <2>2. l.cp = NoCp
      BY LocalsCp
    <2> HIDE DEF l
    <2> QED BY <1>0, <2>1, <2>2, RawQuiet
  <1>9. ASSUME NEW b \in BOOLEAN PROVE
           /\ BspPp(b) => RawGood'
           /\ AllowPowerOn(b) => RawGood'
           /\ SetAuthorized(b) => RawGood'
           /\ Enable(b) => RawGood'
           /\ SetKeepCableLocked(b) => RawGood'
    <2>1. CASE BspPp(b)
      <3> DEFINE op == pp_timer(lk, b, SeatingDelay)
                 l == [Idle EXCEPT !.pc = "timers", !.todo = <<<<"captive", op>>>>]
      <3>1. /\ iec' = iec /\ signalled_raw_cp_state' = signalled_raw_cp_state
            /\ th' = th \/ th' = [th EXCEPT !["pp"] = l]
        BY <2>1 DEF BspPp
      <3>2. l.cp = NoCp
        BY LocalsCp
      <3> HIDE DEF l
      <3> QED BY <1>0, <3>1, <3>2, RawQuiet, RawStill
    <2>2. CASE AllowPowerOn(b)
      <3>1. iec'.last_cp_state = iec.last_cp_state
        BY <2>2, Start DEF AllowPowerOn, allow_power_on, PowerOff, IecType
      <3> QED BY <1>0, <2>2, <3>1, LocalsCp, RawQuiet DEF AllowPowerOn
    <2>3. CASE SetAuthorized(b)
      BY <1>0, <2>3, LocalsCp, RawQuiet DEF SetAuthorized
    <2>4. CASE Enable(b)
      BY <2>4, RawStill DEF Enable
    <2>5. CASE SetKeepCableLocked(b)
      <3> DEFINE l == [Idle EXCEPT !.pc = "timers", !.todo = <<<<"captive", "stop">>>>]
      <3>1. /\ iec' = iec /\ signalled_raw_cp_state' = signalled_raw_cp_state
            /\ th' = [th EXCEPT !["cmd"] = l]
        BY <2>5 DEF SetKeepCableLocked
      <3>2. l.cp = NoCp
        BY LocalsCp
      <3> HIDE DEF l
      <3> QED BY <1>0, <3>1, <3>2, RawQuiet
    <2> QED BY <2>1, <2>2, <2>3, <2>4, <2>5
  <1>10. CASE UNCHANGED vars
    BY <1>10, RawStill DEF vars
  <1> QED BY <1>1, <1>2, <1>3, <1>4, <1>5, <1>6, <1>7, <1>8, <1>9, <1>10
          DEF Next, Internal, External

\* Between two board events the CP state published to the HLC stack is the one
\* the state machine acts on, however the timer callbacks and the Charger's
\* calls, which feed the machine without a state, interleave with the event.
THEOREM RawSafety == Spec => []RawInSync
  <1>1. Init => RawGood
    BY LocalsCp DEF Init, RawGood, Published, Threads, Callers
  <1>2. RawGood => RawInSync
    BY LocalsCp DEF RawGood, RawInSync, Published
  <1> QED BY <1>1, <1>2, NextRaw, Invariance, PTL DEF Spec
=============================================================================
