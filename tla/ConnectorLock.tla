---------------------------- MODULE ConnectorLock ----------------------------
(***************************************************************************)
(* The connector lock members of IECStateMachine and the functions that    *)
(* change them, all of them called under state_machine_mutex.  A value lk  *)
(* of LockType holds the members; pp stands for pp_ampacity > 0 (a plug is *)
(* seen in the socket).  is_locked is what the lock motor was last told by *)
(* signal_lock / signal_unlock.                                            *)
(***************************************************************************)

LockType ==
    [should_be_locked : BOOLEAN, force_unlocked : BOOLEAN, authorized : BOOLEAN,
     relais_on : BOOLEAN, is_locked : BOOLEAN, pp : BOOLEAN,
     keep_cable_locked : BOOLEAN, captive_unlock_window : BOOLEAN,
     captive_lock_delay_elapsed : BOOLEAN, captive_latched : BOOLEAN]

\* The constructor: authorized starts as !use_authorized.
NewLock(useAuthorized, keepCableLocked) ==
    [should_be_locked |-> FALSE, force_unlocked |-> FALSE,
     authorized |-> ~useAuthorized, relais_on |-> FALSE, is_locked |-> FALSE,
     pp |-> FALSE, keep_cable_locked |-> keepCableLocked,
     captive_unlock_window |-> FALSE, captive_lock_delay_elapsed |-> FALSE,
     captive_latched |-> FALSE]

\* connector_lock(), connector_unlock() and a state that calls neither.
Request(lk, r) ==
    CASE r = "lock"   -> [lk EXCEPT !.should_be_locked = TRUE]
      [] r = "unlock" -> [lk EXCEPT !.should_be_locked = FALSE,
                                    !.force_unlocked = FALSE]
      [] r = "keep"   -> lk

\* The rules that hold the connector in either mode.
NormalHold(lk) ==
    \/ lk.relais_on
    \/ lk.should_be_locked /\ ~lk.force_unlocked /\ lk.authorized

\* Captive mode holds a plug once the seating debounce has elapsed, until a
\* force unlock opens the window; the hold is latched.
CaptiveHold(lk) ==
    /\ lk.keep_cable_locked
    /\ \/ lk.captive_latched
       \/ lk.pp /\ lk.captive_lock_delay_elapsed /\ ~lk.captive_unlock_window

\* Mutants: the lock is only ever engaged; the latch follows the plug.
check_lock_only(lk) ==
    [lk EXCEPT !.captive_latched = @ \/ CaptiveHold(lk),
               !.is_locked = @ \/ NormalHold(lk) \/ CaptiveHold(lk)]
check_unlatched(lk) ==
    [lk EXCEPT !.captive_latched = CaptiveHold(lk) /\ lk.pp,
               !.is_locked = NormalHold(lk) \/ CaptiveHold(lk)]

check_connector_lock(lk) ==
    [lk EXCEPT !.captive_latched = @ \/ CaptiveHold(lk),
               !.is_locked = NormalHold(lk) \/ CaptiveHold(lk)]

\* PowerOn / PowerOff of the BSP.
set_relais(lk, on) == check_connector_lock([lk EXCEPT !.relais_on = on])

\* set_pp_ampacity(): delayed says whether the seating delay is positive.
set_pp(lk, present, delayed) ==
    LET seen == [lk EXCEPT !.pp = present]
        captive ==
            [seen EXCEPT
                !.captive_unlock_window = @ /\ present,
                !.captive_lock_delay_elapsed =
                    present /\ (@ \/ (~lk.pp /\ ~delayed))]
    IN IF lk.keep_cable_locked THEN check_connector_lock(captive) ELSE seen

\* The timer control that set_pp_ampacity() requests.
pp_timer(lk, present, delayed) ==
    CASE ~lk.keep_cable_locked -> "nothing"
      [] lk.keep_cable_locked /\ ~present -> "stop"
      [] lk.keep_cable_locked /\ present ->
            IF ~lk.pp /\ ~lk.captive_lock_delay_elapsed /\ delayed
            THEN "start" ELSE "nothing"

\* Mutant: the callback does not ask whether the plug is still there.
captive_reached_blindly(lk) ==
    check_connector_lock([lk EXCEPT !.captive_lock_delay_elapsed = TRUE])

\* The debounce timer's callback.
captive_reached(lk) ==
    check_connector_lock([lk EXCEPT !.captive_lock_delay_elapsed = @ \/ lk.pp])

\* Mutant: a force unlock that ignores the relay.
force_unlock_live(lk, cp) ==
    [lk EXCEPT !.captive_latched = @ /\ ~lk.keep_cable_locked,
               !.is_locked = FALSE]

\* connector_force_unlock() in CP state cp.
force_unlock(lk, cp) ==
    LET opened == [lk EXCEPT
            !.captive_unlock_window = @ \/ (lk.keep_cable_locked /\ lk.pp),
            !.captive_latched = @ /\ ~lk.keep_cable_locked,
            !.is_locked = @ /\ lk.relais_on]
    IN IF cp \in {"B", "C"}
       THEN check_connector_lock([opened EXCEPT !.force_unlocked = TRUE])
       ELSE opened

\* set_keep_cable_locked(keep) when the mode changes.
set_keep(lk, keep) ==
    check_connector_lock(
        [lk EXCEPT !.keep_cable_locked = keep,
                   !.captive_unlock_window = FALSE,
                   !.captive_latched = FALSE,
                   !.captive_lock_delay_elapsed = lk.pp])
=============================================================================
