---------------------------- MODULE AsyncTimeout ----------------------------
(***************************************************************************)
(* The timeout with an internal thread of EvseManager/Timeout.hpp and the  *)
(* Everest::Thread it runs on, as operators on one timer record:           *)
(*                                                                         *)
(*   running  the member of the same name                                  *)
(*   elapsed  steady_clock::now() - start_time > t                         *)
(*   exit     Everest::Thread::exit_signal                                 *)
(*   wait     where the wait thread is: "none" (never created or joined),  *)
(*            "sleep" (in sleep_for), "callback" (inside signal_reached),  *)
(*            "done" (returned, not yet joined)                            *)
(*   owner    who holds the timer's own mutex                              *)
(*                                                                         *)
(* start() and stop() hold that mutex while they join the wait thread, so  *)
(* each is two steps: Take..., then Joined....  Threads are named by the   *)
(* user of the timer; nobody is NoThread.                                  *)
(***************************************************************************)
EXTENDS Naturals

CONSTANT NoThread      \* the owner of a mutex that is free

WaitStates == {"none", "sleep", "callback", "done"}

\* The timer records whose mutex is held by a member of Owners (or by nobody).
TimerType(Owners) ==
    [running : BOOLEAN, elapsed : BOOLEAN, exit : BOOLEAN,
     wait : WaitStates, owner : Owners \cup {NoThread}]

NewTimer == [running |-> FALSE, elapsed |-> FALSE, exit |-> FALSE,
             wait |-> "none", owner |-> NoThread]

\* reached_nolock(): what the wait thread polls, and what reached() returns.
Reached(tm) == tm.running /\ tm.elapsed

\* start_time := now, running := true, and a fresh wait thread.
Launch(tm) == [tm EXCEPT !.running = TRUE, !.elapsed = FALSE,
                         !.exit = FALSE, !.wait = "sleep", !.owner = NoThread]

\* start() or stop() on a timer that runs: take the mutex, set exit_signal
\* and wait in join().
TakeToJoin(tm, t) == [tm EXCEPT !.exit = TRUE, !.owner = t]

\* The join() of stop() or start() can return.
CanJoin(tm, t) == tm.owner = t /\ tm.wait = "done"

\* ... and did: stop() clears running and releases the mutex.
Joined(tm) == [tm EXCEPT !.running = FALSE, !.exit = FALSE,
                         !.wait = "none", !.owner = NoThread]

\* The wait thread wakes up after the timeout: it calls signal_reached(),
\* whether or not it was asked to exit during its sleep.
CanFire(tm) == tm.wait = "sleep" /\ Reached(tm)
Fire(tm) == [tm EXCEPT !.wait = "callback"]

\* It wakes up before the timeout and leaves if it was asked to.
CanExit(tm) == tm.wait = "sleep" /\ ~Reached(tm) /\ tm.exit
\* The thread function returned: after an exit request, or after the
\* callbacks (the break that follows signal_reached()).
Exit(tm) == [tm EXCEPT !.wait = "done"]

\* Time passes beyond the timeout.
CanElapse(tm) == tm.running /\ ~tm.elapsed
Elapse(tm) == [tm EXCEPT !.elapsed = TRUE]
=============================================================================
