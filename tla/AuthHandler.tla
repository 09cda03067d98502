----------------------------- MODULE AuthHandler -----------------------------
(***************************************************************************)
(* The authorization handler of the Auth module (AuthHandler.cpp), with    *)
(* the EvseManagers it talks to as far as its calls and their session      *)
(* events go.                                                              *)
(*                                                                         *)
(* event_mutex protects everything, so a step reaches from one point where *)
(* a thread gives it up to the next: while a token is validated, while     *)
(* select_evse waits for a plug-in, and wherever a thread waits for a      *)
(* timer callback (timeout_in_progress).  Each token has a thread of its   *)
(* own, so has each EVSE's timer; the events of an EVSE are handled one by *)
(* one; withdrawals are served one at a time (withdraw_mutex).  Commands   *)
(* to an EvseManager return while the mutex is held, its events come later.*)
(*                                                                         *)
(* Every EVSE has one connector.  Tokens without references to EVSEs and   *)
(* tokens for one EVSE are the ones provided.                              *)
(***************************************************************************)
EXTENDS Naturals, FiniteSets, Sequences, SequencesExt, Functions,
        ConnectorStateMachine

CONSTANTS
    Evses,              \* the EVSEs, in the order of their ids
    Tokens,
    None,
    Cards,              \* tokens of type RFID or BankCard: they may stop
    ParentOf,           \* parent id of a token, known once it is validated
    MasterPass,         \* master_pass_group_id, or None
    Results,            \* what the validators, asked in turn, may answer
    SelectionAlgorithm, \* "PlugEvents", "PlugEventsLIFO" or "FindFirst"
    Prioritize,         \* prioritize_authorization_over_stopping_transaction
    StopOnReswipe,      \* stop_transaction_on_reswipe
    PlugInTimeout,      \* plug_in_timeout_enabled
    Provided,           \* the references a provided token may have
    Withdrawals,        \* requests to withdraw that may be made
    Visited,            \* bound: the EVSEs where EVs are plugged in
    MaxTokens,          \* bound: tokens provided
    MaxMoves            \* bound: plug-ins, EVSEs disabled, faults raised and
                        \* requests to withdraw

Answers == {"Accepted", "Elsewhere", "Invalid"}

\* The session events handle_session_event acts on.
SessionEvent == {"SessionStarted", "SessionFinished", "TransactionStarted",
                 "TransactionFinished", "Deauthorized", "Disabled", "Enabled"}

ASSUME AuthAssumption ==
    /\ Evses \subseteq Nat /\ IsFiniteSet(Evses)
    /\ None \notin Tokens \union SessionEvent
    /\ Cards \subseteq Tokens /\ DOMAIN ParentOf = Tokens
    /\ Results \subseteq Seq(Answers)
    /\ SelectionAlgorithm \in {"PlugEvents", "PlugEventsLIFO", "FindFirst"}
    /\ {Prioritize, StopOnReswipe, PlugInTimeout} \subseteq BOOLEAN
    /\ Provided \subseteq SUBSET Evses /\ Visited \subseteq Evses
    /\ Withdrawals \subseteq [evse : Evses \union {None},
                              token : Tokens \union {None}]

VARIABLES
    evse,           \* evses: the EVSEContext of every EVSE
    plug_in_queue,
    req,            \* tokens_in_process, and where their threads are
    withdraw,       \* withdraw_request, or None
    timer,          \* timeout_timer of every EVSE
    callback,       \* its callback, from the expiry to its end
    handler,        \* the session event whose handler waits, or None
    em,             \* the EvseManagers
    events,         \* their session events on the way
    left            \* what the bounds leave

vars == <<evse, plug_in_queue, req, withdraw, timer, callback, handler, em,
          events, left>>
-----------------------------------------------------------------------------
(* EVSEContext *)

\* EVSEContext::is_unavailable, EVSEContext::is_available
IsUnavailable(e) == evse[e].connector \in {"UNAVAILABLE", "UNAVAILABLE_FAULTED"}
IsAvailable(e) ==
    /\ ~evse[e].plug_in_timeout
    /\ evse[e].identifier = None
    /\ evse[e].connector \in {"AVAILABLE", "UNAVAILABLE_FAULTED"}

AnyAvailable(es) == \E e \in es : IsAvailable(e)
First(es) == CHOOSE e \in es : \A f \in es : e <= f

\* plug_in_queue.remove_if
Without(e) ==
    LET pass(kept, f) == IF f = e THEN kept ELSE Append(kept, f)
    IN FoldLeft(pass, <<>>, plug_in_queue)

\* get_referenced_evses
Referenced(given) == {e \in given : ~IsUnavailable(e)}

\* used_for_transaction: the EVSEs among es whose identifier is id, or has
\* it as its parent.
UsedFor(es, id) ==
    {e \in es : /\ evse[e].identifier # None
                /\ id \in {evse[e].identifier, ParentOf[evse[e].identifier]}}
AnyParentPresent(es) ==
    \E e \in es : evse[e].identifier # None /\ ParentOf[evse[e].identifier] # None

\* is_token_already_in_process
AlreadyInProcess(t, es) ==
    \/ req[t].at # "idle"
    \/ \E e \in es : evse[e].identifier = t /\ ~evse[e].transaction_active
-----------------------------------------------------------------------------
(* The EvseManager: what its Charger does at a command, and the session     *)
(* events it sends.  "over": the session can only end (state Finished, or   *)
(* cancelled from outside).  "crossed" is history: the EVSE got a token     *)
(* while a SessionStarted was still on its way.                             *)

Idle == [plugged |-> FALSE, enabled |-> TRUE, session |-> FALSE,
         token |-> None, transaction |-> FALSE, over |-> FALSE,
         crossed |-> FALSE]

\* Charger::authorize: ignored when the session was cancelled, when the EVSE
\* is disabled, or when the EV of a session that has ended is still there.
EmAuthorize(m, t) ==
    IF m.over \/ ~m.enabled \/ (m.plugged /\ ~m.session) THEN m
    ELSE [m EXCEPT !.session = TRUE, !.token = t]

\* Charger::deauthorize_internal: the authorization is removed unless it is
\* in use, and the session with it.  The pass that starts a transaction also
\* leaves WaitingForAuthentication, as it does in AC without ISO 15118; after
\* a cancellation the pass that does so may be still to come (finished).
EmWithdraw(m, finished) ==
    IF m.session /\ ~m.transaction /\ ~(m.over /\ finished) /\ m.token # None
    THEN [m EXCEPT !.session = FALSE, !.token = None, !.over = FALSE] ELSE m
EmWithdrawEvents(m, finished) ==
    IF ~m.session THEN <<>>
    ELSE IF EmWithdraw(m, finished) = m THEN <<"Deauthorized">>
    ELSE <<"Deauthorized", "SessionFinished">>

\* Charger::cancel_transaction
EmStop(m) ==
    IF m.transaction THEN [m EXCEPT !.token = None, !.over = TRUE]
    ELSE [m EXCEPT !.over = m.over \/ (m.session /\ m.plugged)]

Send(e, es) == events' = [events EXCEPT ![e] = @ \o es]

\* An EV is plugged in: a session starts unless a token already started one.
PlugIn(e) ==
    /\ e \in Visited /\ left.moves > 0 /\ ~em[e].plugged /\ em[e].enabled
    /\ left' = [left EXCEPT !.moves = @ - 1]
    /\ em' = [em EXCEPT ![e].plugged = TRUE, ![e].session = TRUE]
    /\ Send(e, IF em[e].session THEN <<>> ELSE <<"SessionStarted">>)
    /\ UNCHANGED <<evse, plug_in_queue, req, withdraw, timer, callback, handler>>

\* The transaction starts when the Charger finds an authorized EV, and ends
\* after it was cancelled.
TransactionStarts(e) ==
    /\ em[e].plugged /\ em[e].session /\ em[e].token # None
    /\ ~em[e].transaction /\ ~em[e].over
    /\ em' = [em EXCEPT ![e].transaction = TRUE]
    /\ Send(e, <<"TransactionStarted">>)
    /\ UNCHANGED <<evse, plug_in_queue, req, withdraw, timer, callback, handler, left>>
TransactionEnds(e) ==
    /\ em[e].transaction /\ em[e].over
    /\ em' = [em EXCEPT ![e].transaction = FALSE]
    /\ Send(e, <<"TransactionFinished">>)
    /\ UNCHANGED <<evse, plug_in_queue, req, withdraw, timer, callback, handler, left>>

\* The EV is unplugged: Finished ends what there is, and says so.
Unplug(e) ==
    /\ em[e].plugged
    /\ em' = [em EXCEPT ![e] = Idle]
    /\ Send(e, (IF em[e].transaction THEN <<"TransactionFinished">> ELSE <<>>)
                 \o <<"SessionFinished">>)
    /\ UNCHANGED <<evse, plug_in_queue, req, withdraw, timer, callback, handler, left>>

\* The EVSE is disabled, while no EV is there, and enabled again: on its way
\* back to Idle the Charger removes an authorization it still has.
DisableEvse(e) ==
    /\ left.moves > 0 /\ em[e].enabled /\ ~em[e].plugged
    /\ left' = [left EXCEPT !.moves = @ - 1]
    /\ em' = [em EXCEPT ![e].enabled = FALSE]
    /\ Send(e, <<"Disabled">>)
    /\ UNCHANGED <<evse, plug_in_queue, req, withdraw, timer, callback, handler>>
EnableEvse(e) ==
    /\ ~em[e].enabled
    /\ em' = [em EXCEPT ![e] = [EmWithdraw(@, TRUE) EXCEPT !.enabled = TRUE]]
    /\ Send(e, <<"Enabled">> \o EmWithdrawEvents(em[e], TRUE))
    /\ UNCHANGED <<evse, plug_in_queue, req, withdraw, timer, callback, handler, left>>
-----------------------------------------------------------------------------
(* Tokens *)

NoRequest == [at |-> "idle", given |-> {}, refs |-> {}, results |-> <<>>,
              evse |-> None]

\* does_withdraw_request_match, is_authorization_withdrawn
WithdrawMatches(w, es, t) ==
    /\ w.token \in {None, t}
    /\ w.evse \in es \union {None}
Withdrawn(es, t) == withdraw # None /\ WithdrawMatches(withdraw, es, t)

\* get_oldest_plugin, get_last_plugin: the pending plug-ins at es, in order.
Pending(es) == SelectSeq(plug_in_queue, LAMBDA e : e \in es)

\* select_evse for a request that may have the EVSEs in es: does it wait for
\* a plug-in, and which one does it take (none: {}).
Waits(es) ==
    Cardinality(es) > 1 /\ SelectionAlgorithm # "FindFirst" /\ Pending(es) = <<>>
SelectEvse(es) ==
    LET pending == Pending(es)
        free    == {e \in es : IsAvailable(e)}
    IN CASE Cardinality(es) = 1 -> es
         [] Cardinality(es) > 1 /\ SelectionAlgorithm = "PlugEvents" -> {Head(pending)}
         [] Cardinality(es) > 1 /\ SelectionAlgorithm = "PlugEventsLIFO" -> {Last(pending)}
         [] OTHER ->
                IF pending # <<>> /\ ~evse[Head(pending)].transaction_active
                THEN {Head(pending)}
                ELSE {e \in free : e = First(free)}

Finish(t) == req' = [req EXCEPT ![t] = NoRequest]

\* stop_transaction_callback for every EVSE of es
StopAt(es) == em' = [e \in Evses |-> IF e \in es THEN EmStop(em[e]) ELSE em[e]]

\* A token is provided (on_token, handle_token up to the validation).  One
\* that is already in process, or has no EVSE to hope for, has no effect.
\* A card that was used for a transaction stops it ...
TokenStops(t, given) ==
    LET es == Referenced(given)
    IN /\ left.tokens > 0 /\ ~AlreadyInProcess(t, es)
       /\ t \in Cards /\ UsedFor(es, t) # {} /\ StopOnReswipe
       /\ StopAt({First(UsedFor(es, t))})
       /\ left' = [left EXCEPT !.tokens = @ - 1]
       /\ UNCHANGED <<evse, plug_in_queue, req, withdraw, timer, callback, handler, events>>

\* ... any other token is sent to the validators, with the EVSEs it refers
\* to at this moment.
TokenProvided(t, given) ==
    LET es == Referenced(given)
    IN /\ left.tokens > 0 /\ ~AlreadyInProcess(t, es)
       /\ ~(t \in Cards /\ UsedFor(es, t) # {})
       /\ es # {} /\ (AnyAvailable(es) \/ AnyParentPresent(es) \/ MasterPass # None)
       /\ req' = [req EXCEPT ![t] = 
              [NoRequest EXCEPT !.at = "validating", !.given = given, !.refs = es]]
       /\ left' = [left EXCEPT !.tokens = @ - 1]
       /\ UNCHANGED <<evse, plug_in_queue, withdraw, timer, callback, handler, em, events>>

\* The answers let the parent id stop transactions, when it should.
Accepted(answers) == \E i \in DOMAIN answers : answers[i] # "Invalid"
MayStop(t, answers) ==
    /\ ~Prioritize \/ ~AnyAvailable(req[t].refs)
    /\ Accepted(answers) /\ ParentOf[t] # None
StoppedByParent(t) ==
    IF ParentOf[t] = MasterPass
    THEN {e \in req[t].refs : evse[e].transaction_active}
    ELSE LET used == UsedFor(req[t].refs, ParentOf[t])
         IN {e \in used : e = First(used) /\ evse[e].transaction_active /\ StopOnReswipe}

\* The validators have answered: a parent id that is the master pass or is
\* known at an EVSE ends the request, with or without something to stop;
ValidationStops(t) ==
    /\ req[t].at = "validating"
    /\ \E answers \in Results :
        /\ MayStop(t, answers)
        /\ ParentOf[t] = MasterPass \/ UsedFor(req[t].refs, ParentOf[t]) # {}
    /\ StopAt(StoppedByParent(t))
    /\ Finish(t)
    /\ UNCHANGED <<evse, plug_in_queue, withdraw, timer, callback, handler, events, left>>

\* The history of tokens and plug-ins that crossed each other.
Crossing(m, sent) ==
    [m EXCEPT !.crossed = @ \/ "SessionStarted" \in Range(sent)]

\* Mutant: the plug-in of the EV that gets the token stays pending.
NotifyEvseKeepsPlugIn(t, e) ==
    /\ timer' = [timer EXCEPT ![e] = "authorization"]
    /\ em' = [em EXCEPT ![e] = Crossing(EmAuthorize(@, t), events[e])]
    /\ Finish(t)
    /\ UNCHANGED plug_in_queue

\* notify_evse, once no timer callback is running: the authorization gets its
\* timeout, the plug-in is no longer pending and the EvseManager is told.
NotifyEvse(t, e) ==
    /\ timer' = [timer EXCEPT ![e] = "authorization"]
    /\ plug_in_queue' = Without(e)
    /\ em' = [em EXCEPT ![e] = Crossing(EmAuthorize(@, t), events[e])]
    /\ Finish(t)

\* The EVSE gets the token as its identifier before notify_evse waits for a
\* timer callback that is running.
Grant(t, e) ==
    /\ evse' = [evse EXCEPT ![e].identifier = t]
    /\ IF callback[e].running
       THEN /\ req' = [req EXCEPT ![t] =
                    [NoRequest EXCEPT !.at = "notifying", !.given = req[t].given, !.evse = e]]
            /\ UNCHANGED <<timer, plug_in_queue, em>>
       ELSE NotifyEvse(t, e)

\* What is left of handle_token when an EVSE was selected: the answers are
\* gone through until one lets the token charge there.
Decide(t, answers, e) ==
    IF \E i \in DOMAIN answers : answers[i] = "Accepted" THEN Grant(t, e)
    ELSE Finish(t) /\ UNCHANGED <<evse, timer, plug_in_queue, em>>

\* select_evse for the EVSEs es, up to the wait: a request that was withdrawn
\* is interrupted where the algorithm might have waited.
Interrupted(t, es) ==
    /\ Cardinality(es) > 1 /\ SelectionAlgorithm # "FindFirst"
    /\ Withdrawn(es, t)

Select(t, answers, es) ==
    \/ /\ Waits(es)
       /\ req' = [req EXCEPT ![t].at = "selecting", ![t].refs = es,
                              ![t].results = answers]
       /\ UNCHANGED <<evse, timer, plug_in_queue, em>>
    \/ /\ ~Waits(es) /\ (Interrupted(t, es) \/ SelectEvse(es) = {})
       /\ Finish(t)
       /\ UNCHANGED <<evse, timer, plug_in_queue, em>>
    \/ /\ ~Waits(es) /\ ~Interrupted(t, es)
       /\ \E e \in SelectEvse(es) : Decide(t, answers, e)

\* otherwise one of the EVSEs without an identifier is selected, if the token
\* may start a transaction at all.
ValidationSelects(t) ==
    LET open == {e \in req[t].refs : evse[e].identifier = None}
    IN /\ req[t].at = "validating"
       /\ \E answers \in Results :
            /\ ~(/\ MayStop(t, answers)
                 /\ \/ ParentOf[t] = MasterPass
                    \/ UsedFor(req[t].refs, ParentOf[t]) # {})
            /\ \/ /\ AnyAvailable(req[t].refs) /\ open # {} /\ Accepted(answers)
                  /\ ParentOf[t] = None \/ ParentOf[t] # MasterPass
                  /\ Select(t, answers, open)
               \/ /\ \/ ~AnyAvailable(req[t].refs) \/ open = {}
                     \/ ~Accepted(answers)
                     \/ ParentOf[t] # None /\ ParentOf[t] = MasterPass
                  /\ Finish(t)
                  /\ UNCHANGED <<evse, timer, plug_in_queue, em>>
       /\ UNCHANGED <<withdraw, callback, handler, events, left>>

\* Mutant: the wait for a plug-in has no timeout.
SelectWaitsOn(t) == FALSE /\ UNCHANGED vars

\* The wait of select_evse ends: with a plug-in, because of a withdrawal, or
\* when connection_timeout has passed with neither.
SelectWakes(t) ==
    LET es == req[t].refs
    IN /\ req[t].at = "selecting"
       /\ \/ /\ Withdrawn(es, t)
             /\ Finish(t)
             /\ UNCHANGED <<evse, timer, plug_in_queue, em>>
          \/ /\ ~Withdrawn(es, t) /\ Pending(es) # <<>>
             /\ \E e \in SelectEvse(es) : Decide(t, req[t].results, e)
       /\ UNCHANGED <<withdraw, callback, handler, events, left>>
SelectTimesOut(t) ==
    /\ req[t].at = "selecting"
    /\ Pending(req[t].refs) = <<>> /\ ~Withdrawn(req[t].refs, t)
    /\ Finish(t)
    /\ UNCHANGED <<evse, plug_in_queue, withdraw, timer, callback, handler, em, events, left>>

\* notify_evse goes on after the timer callback.
NotifyWakes(t) ==
    /\ req[t].at = "notifying" /\ ~callback[req[t].evse].running
    /\ NotifyEvse(t, req[t].evse)
    /\ UNCHANGED <<evse, withdraw, callback, handler, events, left>>
-----------------------------------------------------------------------------
(* The timer of an EVSE: an expired timer can no longer be stopped, and its *)
(* callback says that it is running before it waits for event_mutex.        *)

TimerExpires(e) ==
    /\ timer[e] # "off" /\ callback[e].kind = "off"
    /\ timer' = [timer EXCEPT ![e] = "off"]
    /\ callback' = [callback EXCEPT ![e] = [kind |-> timer[e], running |-> FALSE]]
    /\ UNCHANGED <<evse, plug_in_queue, req, withdraw, handler, em, events, left>>
CallbackStarts(e) ==
    /\ callback[e].kind # "off" /\ ~callback[e].running
    /\ callback' = [callback EXCEPT ![e].running = TRUE]
    /\ UNCHANGED <<evse, plug_in_queue, req, withdraw, timer, handler, em, events, left>>

\* The callbacks of notify_evse and of the plug-in.
CallbackRuns(e) ==
    /\ callback[e].running
    /\ callback' = [callback EXCEPT ![e] = [kind |-> "off", running |-> FALSE]]
    /\ \E finished \in BOOLEAN :
           /\ em' = [em EXCEPT ![e] = EmWithdraw(@, finished)]
           /\ Send(e, EmWithdrawEvents(em[e], finished))
    /\ \/ /\ callback[e].kind = "authorization"
          /\ evse' = [evse EXCEPT ![e].identifier = None]
          /\ UNCHANGED plug_in_queue
       \/ /\ callback[e].kind = "plug_in"
          /\ evse' = [evse EXCEPT ![e].plug_in_timeout = TRUE]
          /\ plug_in_queue' = Without(e)
    /\ UNCHANGED <<req, withdraw, timer, handler, left>>
-----------------------------------------------------------------------------
(* Session events and faults *)

\* Mutant: the end of a transaction is only seen at the end of the session.
AfterEventKeepsTransaction(v, event) ==
    CASE event = "SessionStarted" -> [v EXCEPT !.plugged_in = TRUE]
      [] event = "TransactionStarted" ->
            [v EXCEPT !.plugged_in = TRUE, !.transaction_active = TRUE,
                      !.connector = ConnectorNext(@, "TRANSACTION_STARTED")]
      [] event \in {"TransactionFinished", "Deauthorized"} -> [v EXCEPT !.identifier = None]
      [] event = "SessionFinished" ->
            [v EXCEPT !.plugged_in = FALSE, !.plug_in_timeout = FALSE,
                      !.transaction_active = FALSE, !.identifier = None,
                      !.connector = ConnectorNext(@, "SESSION_FINISHED")]
      [] event = "Disabled" -> [v EXCEPT !.connector = ConnectorNext(@, "DISABLE")]
      [] event = "Enabled" -> [v EXCEPT !.connector = ConnectorNext(@, "ENABLE")]

\* handle_session_event: what an event does to the EVSE before the handler
\* may have to wait for a timer callback.
AfterEvent(v, event) ==
    CASE event = "SessionStarted" -> [v EXCEPT !.plugged_in = TRUE]
      [] event = "TransactionStarted" ->
            [v EXCEPT !.plugged_in = TRUE, !.transaction_active = TRUE,
                      !.connector = ConnectorNext(@, "TRANSACTION_STARTED")]
      [] event = "TransactionFinished" ->
            [v EXCEPT !.transaction_active = FALSE, !.identifier = None]
      [] event = "SessionFinished" ->
            [v EXCEPT !.plugged_in = FALSE, !.plug_in_timeout = FALSE,
                      !.identifier = None,
                      !.connector = ConnectorNext(@, "SESSION_FINISHED")]
      [] event = "Deauthorized" -> [v EXCEPT !.identifier = None]
      [] event = "Disabled" -> [v EXCEPT !.connector = ConnectorNext(@, "DISABLE")]
      [] event = "Enabled" -> [v EXCEPT !.connector = ConnectorNext(@, "ENABLE")]

\* The part after the wait.
TimerStopped(e, event) ==
    /\ timer' = [timer EXCEPT ![e] = "off"]
    /\ plug_in_queue' = IF event = "SessionFinished" THEN Without(e) ELSE plug_in_queue

HandleSessionEvent(e) ==
    LET event == Head(events[e])
    IN /\ handler[e] = None /\ events[e] # <<>>
       /\ events' = [events EXCEPT ![e] = Tail(@)]
       /\ evse' = [evse EXCEPT ![e] = AfterEvent(@, event)]
       /\ \/ /\ event = "SessionStarted"
             /\ plug_in_queue' = Append(plug_in_queue, e)
             /\ timer' = [timer EXCEPT ![e] =
                    IF PlugInTimeout /\ Cardinality(Evses) > 1 THEN "plug_in" ELSE @]
             /\ UNCHANGED handler
          \/ /\ event \in {"TransactionStarted", "SessionFinished", "Deauthorized"}
             /\ ~callback[e].running
             /\ TimerStopped(e, event)
             /\ UNCHANGED handler
          \/ /\ event \in {"TransactionStarted", "SessionFinished", "Deauthorized"}
             /\ callback[e].running
             /\ handler' = [handler EXCEPT ![e] = event]
             /\ UNCHANGED <<timer, plug_in_queue>>
          \/ /\ event \in {"TransactionFinished", "Disabled", "Enabled"}
             /\ UNCHANGED <<timer, plug_in_queue, handler>>
       /\ UNCHANGED <<req, withdraw, callback, em, left>>
HandlerWakes(e) ==
    /\ handler[e] # None /\ ~callback[e].running
    /\ TimerStopped(e, handler[e])
    /\ handler' = [handler EXCEPT ![e] = None]
    /\ UNCHANGED <<evse, req, withdraw, callback, em, events, left>>

\* handle_permanent_fault_raised, handle_permanent_fault_cleared
FaultRaised(e) ==
    /\ left.moves > 0
    /\ evse[e].connector \in {"AVAILABLE", "OCCUPIED", "UNAVAILABLE"}
    /\ evse' = [evse EXCEPT ![e].connector = ConnectorNext(@, "FAULTED")]
    /\ left' = [left EXCEPT !.moves = @ - 1]
    /\ UNCHANGED <<plug_in_queue, req, withdraw, timer, callback, handler, em, events>>
FaultCleared(e) ==
    /\ evse[e].connector \in {"FAULTED", "FAULTED_OCCUPIED", "UNAVAILABLE_FAULTED"}
    /\ evse' = [evse EXCEPT ![e].connector = ConnectorNext(@, "ERROR_CLEARED")]
    /\ UNCHANGED <<plug_in_queue, req, withdraw, timer, callback, handler, em, events, left>>
-----------------------------------------------------------------------------
(* handle_withdraw_authorization *)

\* Mutant: the request also waits for the authorizations that were granted.
TargetsGranted(w) ==
    \/ \E t \in Tokens : /\ req[t].at # "idle"
                         /\ WithdrawMatches(w, Referenced(req[t].given), t)
    \/ \E e \in Evses : /\ evse[e].identifier # None
                        /\ WithdrawMatches(w, {e}, evse[e].identifier)

\* Does the request concern a token in process?
Targets(w) ==
    \E t \in Tokens : /\ req[t].at # "idle"
                      /\ WithdrawMatches(w, Referenced(req[t].given), t)

\* The authorizations that were granted: what is used is stopped, the rest is
\* withdrawn at the EvseManager, whose events will reset the identifier.
WithdrawGranted(w) ==
    LET es == {e \in Evses : /\ evse[e].identifier # None
                             /\ w.evse \in {None, e}
                             /\ w.token \in {None, evse[e].identifier}}
    IN \E finished \in SUBSET es :
         /\ em' = [e \in Evses |->
                      IF e \notin es THEN em[e]
                      ELSE IF evse[e].transaction_active THEN EmStop(em[e])
                      ELSE EmWithdraw(em[e], e \in finished)]
         /\ events' = [e \in Evses |->
                          IF e \in es /\ ~evse[e].transaction_active
                          THEN events[e] \o EmWithdrawEvents(em[e], e \in finished)
                          ELSE events[e]]

\* The request interrupts the tokens in process that it concerns, and waits
\* until there are none.
WithdrawRequested(w) ==
    /\ withdraw = None /\ left.moves > 0
    /\ left' = [left EXCEPT !.moves = @ - 1]
    /\ \/ /\ Targets(w)
          /\ withdraw' = w
          /\ UNCHANGED <<em, events>>
       \/ /\ ~Targets(w)
          /\ WithdrawGranted(w)
          /\ UNCHANGED withdraw
    /\ UNCHANGED <<evse, plug_in_queue, req, timer, callback, handler>>
WithdrawReturns ==
    /\ withdraw # None /\ ~Targets(withdraw)
    /\ WithdrawGranted(withdraw)
    /\ withdraw' = None
    /\ UNCHANGED <<evse, plug_in_queue, req, timer, callback, handler, left>>
-----------------------------------------------------------------------------
Init ==
    /\ evse = [e \in Evses |-> [identifier |-> None, transaction_active |-> FALSE,
                                plugged_in |-> FALSE, plug_in_timeout |-> FALSE,
                                connector |-> "AVAILABLE"]]
    /\ plug_in_queue = <<>>
    /\ req = [t \in Tokens |-> NoRequest]
    /\ withdraw = None
    /\ timer = [e \in Evses |-> "off"]
    /\ callback = [e \in Evses |-> [kind |-> "off", running |-> FALSE]]
    /\ handler = [e \in Evses |-> None]
    /\ em = [e \in Evses |-> Idle]
    /\ events = [e \in Evses |-> <<>>]
    /\ left = [tokens |-> MaxTokens, moves |-> MaxMoves]

TokenThread(t) == \/ ValidationStops(t) \/ ValidationSelects(t)
                  \/ SelectWakes(t) \/ SelectTimesOut(t) \/ NotifyWakes(t)
Timeout(e) == TimerExpires(e) \/ CallbackStarts(e) \/ CallbackRuns(e)
EventThread(e) == HandleSessionEvent(e) \/ HandlerWakes(e)
EvseManager(e) == \/ PlugIn(e) \/ Unplug(e)
                  \/ TransactionStarts(e) \/ TransactionEnds(e)
                  \/ DisableEvse(e) \/ EnableEvse(e)

Next ==
    \/ \E t \in Tokens : \/ TokenThread(t)
                         \/ \E given \in Provided : TokenStops(t, given) \/ TokenProvided(t, given)
    \/ \E e \in Evses : \/ Timeout(e) \/ EventThread(e) \/ EvseManager(e)
                        \/ FaultRaised(e) \/ FaultCleared(e)
    \/ \E w \in Withdrawals : WithdrawRequested(w)
    \/ WithdrawReturns

Spec == Init /\ [][Next]_vars

\* Threads that can go on do so, validators answer, a timer that runs expires
\* and events are delivered.  Nothing is assumed of drivers and operators.
FairSpec ==
    /\ Spec
    /\ \A t \in Tokens : WF_vars(TokenThread(t))
    /\ \A e \in Evses : WF_vars(Timeout(e)) /\ WF_vars(EventThread(e))
    /\ \A e \in Evses : WF_vars(TransactionEnds(e))
    /\ WF_vars(WithdrawReturns)
-----------------------------------------------------------------------------
(* Properties *)

\* Nothing is on its way between the Auth module and the EvseManagers.
Quiet ==
    /\ \A t \in Tokens : req[t].at = "idle"
    /\ \A e \in Evses : events[e] = <<>> /\ handler[e] = None /\ callback[e].kind = "off"

\* However events, timeouts, requests and withdrawals crossed each other: when
\* nothing is on its way any more, the Auth module knows a transaction as
\* active exactly when the EvseManager has one.
TransactionAgrees ==
    Quiet => \A e \in Evses : evse[e].transaction_active = em[e].transaction

\* When nothing is on its way, the plug-ins offered to the next token are those
\* of EVs that are there and have not been given one, unless that token and
\* the plug-in crossed each other; and every EV that waits is offered, unless
\* a plug-in timeout was noted at its EVSE (which may be that of the EV before
\* it, noted late).
PendingPlugIns ==
    Quiet => \A e \in Evses :
        /\ e \in Range(plug_in_queue)
           => /\ em[e].plugged /\ em[e].session
              /\ em[e].token = None \/ em[e].crossed
        /\ /\ em[e].plugged /\ em[e].session /\ em[e].token = None /\ ~em[e].over
           /\ ~evse[e].plug_in_timeout
           => e \in Range(plug_in_queue)

\* When nothing is on its way, the connector is unavailable exactly when the
\* EVSE is disabled, whatever faults came and went, and occupied only while an
\* EV is there.
ConnectorAgrees ==
    Quiet => \A e \in Evses :
        /\ IsUnavailable(e) <=> ~em[e].enabled
        /\ evse[e].connector \in {"OCCUPIED", "FAULTED_OCCUPIED"} => em[e].plugged

\* Every token that is provided gets its answer: neither the wait for a plug-in
\* nor the wait for a timer callback keeps it in process for ever.
TokenAnswered == \A t \in Tokens : req[t].at # "idle" ~> req[t].at = "idle"

\* A request to withdraw an authorization returns: the tokens it waits for
\* finish, and new ones do not hold it up.
WithdrawalReturns == withdraw # None ~> withdraw = None
=============================================================================
