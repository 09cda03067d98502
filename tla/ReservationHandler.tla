------------------------- MODULE ReservationHandler -------------------------
(***************************************************************************)
(* The reservations of the Auth module (ReservationHandler.cpp and the     *)
(* callers in AuthHandler.cpp), with the EvseManagers that are told of     *)
(* them and the store they are reloaded from.                              *)
(*                                                                         *)
(* A reservation is for one EVSE, or "global": for any EVSE with a         *)
(* connector of its type.  ReservationHandler::event_mutex makes each of   *)
(* its operations one step, and the callbacks it calls run in it.  Placing *)
(* and cancelling (one command of each kind at a time) and applying a      *)
(* restored reservation take several such steps, with the EvseManager's    *)
(* answer in between; expired timers run one after the other in a thread   *)
(* of their own.  What an EvseManager reports arrives later, in order.     *)
(*                                                                         *)
(* Every EVSE has one connector; parent ids match the way ids do and are   *)
(* left out, and so are faults, which AuthHandler has: what they do here   *)
(* is what disabling does.                                                 *)
(***************************************************************************)
EXTENDS Naturals, FiniteSets, Sequences, SequencesExt, Functions, TLC,
        ConnectorStateMachine

CONSTANTS
    Evses,          \* the EVSEs, in the order of their ids
    TypeOf,         \* connector type of an EVSE, "Unknown" when not configured
    Requests,       \* reservations that may be asked for: id, evse or None,
                    \* type or None, token
    Tokens,         \* tokens that may be presented
    None,
    Visited,        \* bound: the EVSEs that drivers and operators come to
    MaxPlaced,      \* bound: reservations asked for
    MaxMoves,       \* bound: cancellations, tokens, plug-ins, EVSEs disabled
    MaxRestarts,    \* bound: restarts
    MaxAll          \* bound: all of these together

Ids == {r.id : r \in Requests}

ASSUME ReservationAssumption ==
    /\ Evses \subseteq Nat /\ IsFiniteSet(Evses) /\ IsFiniteSet(Requests)
    /\ DOMAIN TypeOf = Evses
    /\ \A r \in Requests : DOMAIN r = {"id", "evse", "type", "token"}
    /\ \A r \in Requests : r.evse \in Evses \union {None} /\ r.token \in Tokens
    /\ Ids \intersect {None, "Global"} = {} /\ None \notin Requests
    /\ Visited \subseteq Evses /\ None \notin Evses /\ MaxRestarts \in Nat

VARIABLES
    st,         \* what the handler, the store and the EvseManagers keep
    expired,    \* timers that have expired, their callbacks still to run
    phase,      \* "booting", "loading" or "up"
    loading,    \* stored reservations still to load
    place,      \* the reserve_now command being served
    cancel,     \* the cancel_reservation command being served
    apply,      \* the restored reservation being applied at an EVSE
    past,       \* ids of the reservations whose expiry time has passed
    over,       \* history: ids of reservations that were ended
    hist,       \* history: what was announced as ended but was not
    left        \* what the bounds leave

vars == <<st, expired, phase, loading, place, cancel, apply, past, over, hist, left>>
-----------------------------------------------------------------------------
(* st has the handler's evse_reservations, global_reservations, timers (the *)
(* ids in the timer map, and those among them that are armed), restored     *)
(* reservations and last reserved status; the store; seen, what the Auth    *)
(* module knows of the EVSEs; em, the EvseManagers; and their events.       *)

InForce(s) ==
    {r.id : r \in ({s.evse_reservations[e] : e \in Evses} \ {None})
                      \union Range(s.global_reservations)}
ReservedEvses(s) == {e \in Evses : s.evse_reservations[e] # None}
TypesOf(rs) == [i \in DOMAIN rs |-> rs[i].type]
ListIds(rs) == {rs[i].id : i \in DOMAIN rs}

\* has_evse_connector_type; None stands for a type that is not given
Suitable(e, type) == type = None \/ TypeOf[e] \in {"Unknown", type}

\* get_evse_connector_state_reservation_result and
\* get_connector_availability_reservation_result are both Accepted.
Free(s, e) == ~s.seen[e].plugged_in /\ s.seen[e].connector = "AVAILABLE"

\* can_virtual_car_arrive: cars arrive in this order, the first of them where
\* it likes among the EVSEs that are neither used nor reserved.
CanArrive(s, order, reserved) ==
    LET arrive[i \in 1..Len(order)] ==
            [used \in SUBSET Evses |->
               LET choice == {e \in Evses \ (used \union reserved) :
                                 Free(s, e) /\ Suitable(e, order[i])}
               IN /\ choice # {}
                  /\ i < Len(order) => \A e \in choice : arrive[i + 1][used \union {e}]]
    IN arrive[1][{}]

\* Mutant: the cars come in the order of their reservations.
IsPossibleInOrder(s, types, reserved) ==
    /\ Len(types) + Cardinality(reserved) <= Cardinality(Evses)
    /\ types # <<>> => CanArrive(s, types, reserved)
\* is_reservation_possible, get_all_possible_orders
IsPossible(s, types, reserved) ==
    /\ Len(types) + Cardinality(reserved) <= Cardinality(Evses)
    /\ types # <<>> =>
         \A p \in Bijection(DOMAIN types, DOMAIN types) :
            CanArrive(s, [i \in DOMAIN types |-> types[p[i]]], reserved)

\* An optional type is only counted when there is one.
WithType(types, type) == IF type = None THEN types ELSE Append(types, type)
-----------------------------------------------------------------------------
(* The EvseManager: reserve and cancel_reservation.  "Global" is what it has *)
(* for reservation id -1.                                                    *)

EmAccepts(m, id) ==
    /\ m.enabled /\ ~m.plugged
    /\ m.reserved \in {None, "Global", id}
\* ... at the EVSEs es.
EmReserve(s, es, id) ==
    LET accept == {e \in es : EmAccepts(s.em[e], id)}
    IN [s EXCEPT !.em = [e \in Evses |->
            IF e \in accept THEN [@[e] EXCEPT !.reserved = id] ELSE @[e]]]
EmCancel(s, es) ==
    LET ended == {e \in es : s.em[e].reserved # None}
    IN [s EXCEPT
          !.em = [e \in Evses |->
            IF e \in ended THEN [@[e] EXCEPT !.reserved = None] ELSE @[e]],
          !.events = [e \in Evses |->
            IF e \in ended THEN Append(@[e], "ReservationEnd") ELSE @[e]]]
-----------------------------------------------------------------------------
(* ReservationHandler *)

\* The EVSEs es in the order of their ids.
InOrder(es) ==
    CHOOSE f \in [1..Cardinality(es) -> es] :
        /\ \A i, j \in DOMAIN f : i < j => f[i] < f[j]
        /\ es \subseteq Range(f)

\* store_reservations
StoredForm(s) ==
    LET specific == InOrder(ReservedEvses(s))
    IN [i \in DOMAIN specific |-> s.evse_reservations[specific[i]]] \o s.global_reservations
\* Mutant: nothing is written when no reservation is left.
StoreUnlessEmpty(s) == IF StoredForm(s) = <<>> THEN s ELSE [s EXCEPT !.stored = StoredForm(s)]
Store(s) == [s EXCEPT !.stored = StoredForm(s)]

\* check_number_global_reservations_match_number_available_evses
GloballyReserved(s, available) ==
    LET types == TypesOf(s.global_reservations)
    IN IF Cardinality(available) = Len(types) THEN available
       ELSE {e \in available : \E type \in Range(types) :
                /\ Suitable(e, type)
                /\ ~IsPossible(s, WithType(types, type), ReservedEvses(s))}

\* check_evse_reserved_and_send_updates: EVSEs that the global reservations
\* need, or no longer need, are reserved or released at their EvseManagers.
Update(s) ==
    LET available == {e \in Evses : Free(s, e)} \ ReservedEvses(s)
        reserved  == GloballyReserved(s, available)
        release   == (available \intersect s.last_reserved) \ reserved
    IN [EmReserve(EmCancel(s, release), reserved \ s.last_reserved, "Global")
            EXCEPT !.last_reserved = reserved]

EvseOf(s, id) == {e \in ReservedEvses(s) : s.evse_reservations[e].id = id}

\* Mutant: only a reservation for an EVSE is removed with its timer.
ForgetAtEvse(s, id) ==
    Store([s EXCEPT
        !.timers = @ \ {id}, !.armed = @ \ {id},
        !.evse_reservations = [e \in Evses |-> IF e \in EvseOf(s, id) THEN None ELSE @[e]]])
\* A global reservation is erased where find_if finds its id.
Erase(rs, id) ==
    IF \E i \in DOMAIN rs : rs[i].id = id
    THEN RemoveAt(rs, SelectInSeq(rs, LAMBDA r : r.id = id)) ELSE rs
\* cancel_reservation: found by its timer, then at an EVSE, the last one if
\* there are several, or else among the global ones.
Forget(s, id) ==
    LET at   == EvseOf(s, id)
        last == {e \in at : \A f \in at : f <= e}
    IN Store([s EXCEPT
         !.timers = @ \ {id}, !.armed = @ \ {id},
         !.evse_reservations = [e \in Evses |-> IF e \in last THEN None ELSE @[e]],
         !.global_reservations = IF at = {} THEN Erase(@, id) ELSE @])

\* ... without, and with, the callback (call_reservation_cancelled).
Cancel(s, id) == IF id \in s.timers THEN Forget(s, id) ELSE s
Release(s, es) == Update(EmCancel(s, es))
CancelAndTell(s, id) ==
    IF id \in s.timers THEN Release(Forget(s, id), EvseOf(s, id)) ELSE s

\* make_reservation: a reservation with the same id goes first, in any case.
CanMake(s, r) ==
    IF r.evse # None
    THEN /\ s.evse_reservations[r.evse] = None
         /\ Suitable(r.evse, r.type) /\ Free(s, r.evse)
         /\ \/ s.global_reservations = <<>>
            \/ IsPossible(s, TypesOf(s.global_reservations), ReservedEvses(s) \union {r.evse})
    ELSE /\ \E e \in Evses : Suitable(e, r.type)
         /\ IsPossible(s, Append(TypesOf(s.global_reservations), r.type), ReservedEvses(s))
Add(s, r) ==
    LET timed == [s EXCEPT !.timers = @ \union {r.id}, !.armed = @ \union {r.id}]
    IN IF r.evse # None
       THEN Store([timed EXCEPT !.evse_reservations[r.evse] = r])
       ELSE Store([timed EXCEPT !.global_reservations = Append(@, r)])
Make(s, r) ==
    LET t == Cancel(s, r.id)
    IN IF CanMake(t, r) THEN Add(t, r) ELSE t

\* check_reservations_and_cancel_if_not_possible: of the global reservations,
\* in their order, those that fit with the ones before them are kept.
Kept(s) ==
    LET keep(kept, r) ==
            IF IsPossible(s, WithType(TypesOf(kept), r.type), ReservedEvses(s))
            THEN Append(kept, r) ELSE kept
    IN FoldLeft(keep, <<>>, s.global_reservations)
CancelImpossible(s) ==
    LET kept == Range(Kept(s))
        drop(t, r) == IF r \in kept THEN t ELSE CancelAndTell(t, r.id)
    IN FoldLeft(drop, s, s.global_reservations)

\* Mutant: only the EVSE's own reservation is looked at.
OnConnectorChangeHere(s, e) ==
    LET r == s.evse_reservations[e]
    IN IF s.seen[e].connector # "AVAILABLE" /\ r # None /\ r.type # None /\ Suitable(e, r.type)
       THEN CancelAndTell(s, r.id) ELSE s
\* on_connector_state_changed
OnConnectorChange(s, e) ==
    LET r == s.evse_reservations[e]
    IN IF s.seen[e].connector = "AVAILABLE" THEN s
       ELSE IF r # None /\ r.type # None /\ Suitable(e, r.type)
       THEN CancelAndTell(s, r.id)
       ELSE CancelImpossible(s)

\* matches_reserved_identifier: the EVSE's own reservation decides if there is
\* one, otherwise the first global one for the token.
Matching(s, token, e) ==
    IF s.evse_reservations[e] # None
    THEN {s.evse_reservations[e]} \intersect {r \in Requests : r.token = token}
    ELSE LET mine == {i \in DOMAIN s.global_reservations :
                         s.global_reservations[i].token = token}
         IN {s.global_reservations[i] : i \in {j \in mine : \A k \in mine : j <= k}}

\* is_charging_possible
ChargingPossible(s, e) ==
    /\ e \notin ReservedEvses(s)
    /\ IsPossible(s, TypesOf(s.global_reservations), ReservedEvses(s) \union {e})
-----------------------------------------------------------------------------
NotPlacing == [at |-> "idle", r |-> None, replaced |-> {}]
NotCancelling == [at |-> "idle", evse |-> {}]
NotApplying == [at |-> "idle", id |-> None, boot |-> FALSE]

\* The history has, besides what was ended: "stale", the reservations refused
\* while loading that are still in the store, or were when the loading began;
\* and "lost", the EVSEs left reserved when an EvseManager refused a reservation
\* that another one, or it itself, already had.
History(s, stale, lost) ==
    [stale |-> stale \intersect (ListIds(s.stored) \union ListIds(loading)),
     lost  |-> {e \in lost : /\ s.em[e].reserved \in {st.em[e].reserved} \ {None, "Global"}
                            /\ e \notin EvseOf(s, s.em[e].reserved)}]

\* A step after which the handler's state is s; what is no longer in force was
\* ended.
Step(s) ==
    /\ st' = s
    /\ over' = over \union (InForce(st) \ InForce(st'))
    /\ hist' = History(s, hist.stale, hist.lost)
\* ... which was refused by an EvseManager, and given up at the EVSEs es, too.
Refusal(s, es) ==
    /\ st' = s
    /\ over' = over \union (InForce(st) \ InForce(st'))
    /\ hist' = History(s, hist.stale, hist.lost \union es)

\* What comes from outside is bounded.
Spend(what) ==
    /\ left[what] > 0 /\ left.all > 0
    /\ left' = [left EXCEPT ![what] = @ - 1, !.all = @ - 1]
-----------------------------------------------------------------------------
(* reserve_now: place_reservation *)

PlaceStarts(r) ==
    /\ phase = "up" /\ place.at = "idle"
    /\ Spend("placed")
    /\ place' = [at |-> "making", r |-> r, replaced |-> EvseOf(st, r.id)]
    /\ UNCHANGED <<st, past, over, hist, expired, phase, loading, cancel, apply>>

\* A request whose expiry time has passed is refused before anything else.
PlaceMakes ==
    LET r    == place.r
        s    == Make(st, r)
        made == IF CanMake(Cancel(st, r.id), r) THEN {r.id} ELSE {}
    IN /\ place.at = "making"
       /\ \/ /\ place' = [place EXCEPT !.at = "refused"]
             /\ UNCHANGED <<st, past, over, hist>>
          \/ /\ st' = s
             /\ over' = (over \union (InForce(st) \ InForce(s))) \ made
             /\ hist' = History(s, hist.stale \ made, hist.lost)
             /\ past' = past \ made
             /\ place' = [place EXCEPT !.at = IF made = {} THEN "refused" ELSE "made"]
       /\ UNCHANGED <<expired, phase, loading, cancel, apply, left>>

\* cancel_replaced_if_dropped: the EVSE whose reservation was replaced by one
\* elsewhere is released.
Dropped == {e \in place.replaced : e \notin EvseOf(st, place.r.id)}
ReleaseReplaced(s) == IF Dropped = {} THEN s ELSE Release(s, Dropped)
PlaceReleases ==
    /\ place.at \in {"made", "refused"}
    /\ Step(ReleaseReplaced(st))
    /\ place' = IF place.at = "refused" THEN NotPlacing
                ELSE [place EXCEPT !.at = "reserving", !.replaced = @ \ Dropped]
    /\ UNCHANGED <<past, expired, phase, loading, cancel, apply, left>>

\* call_reserved: the EvseManager accepts, or it does not.
CallReserved(e, id) ==
    Update(EmReserve(st, Evses \intersect {e}, id))
PlaceReserves ==
    LET r == place.r
    IN /\ place.at = "reserving"
       /\ \/ /\ r.evse # None => EmAccepts(st.em[r.evse], r.id)
             /\ Step(CallReserved(r.evse, r.id))
             /\ place' = [place EXCEPT !.at = "checking"]
          \/ /\ r.evse # None /\ ~EmAccepts(st.em[r.evse], r.id)
             /\ place' = [place EXCEPT !.at = "failing"]
             /\ UNCHANGED <<st, over, hist>>
       /\ UNCHANGED <<past, expired, phase, loading, cancel, apply, left>>
PlaceFails ==
    /\ place.at = "failing"
    /\ LET id == place.r.id
           s == Cancel(st, id)
           gone == {e \in place.replaced : e \notin EvseOf(s, id)}
       IN Refusal(IF gone = {} THEN s ELSE Release(s, gone), EvseOf(st, id) \ gone)
    /\ place' = NotPlacing
    /\ UNCHANGED <<past, expired, phase, loading, cancel, apply, left>>

\* Mutant: the reservation is taken to be still there.
PlaceChecksNothing ==
    /\ place.at = "checking"
    /\ place' = NotPlacing
    /\ UNCHANGED <<st, past, over, hist, expired, phase, loading, cancel, apply, left>>
\* A reservation that was ended in the meantime is ended at its EvseManager.
PlaceChecks ==
    LET r == place.r
    IN /\ place.at = "checking"
       /\ Step(IF r.evse # None /\ r.evse \notin EvseOf(st, r.id)
               THEN EmCancel(st, {r.evse}) ELSE st)
       /\ place' = NotPlacing
       /\ UNCHANGED <<past, expired, phase, loading, cancel, apply, left>>
-----------------------------------------------------------------------------
(* cancel_reservation, and the timers *)

CancelStarts(id) ==
    /\ phase = "up" /\ cancel.at = "idle" /\ id \in st.timers
    /\ Spend("moves")
    /\ Step(Cancel(st, id))
    /\ cancel' = [at |-> "releasing", evse |-> EvseOf(st, id)]
    /\ UNCHANGED <<past, expired, phase, loading, place, apply>>
CancelReleases ==
    /\ cancel.at = "releasing"
    /\ Step(Release(st, cancel.evse))
    /\ cancel' = NotCancelling
    /\ UNCHANGED <<past, expired, phase, loading, place, apply, left>>

\* set_reservation_timer: a timer that has expired can no longer be stopped.
TimerExpires(id) ==
    /\ id \in st.armed
    /\ st' = [st EXCEPT !.armed = @ \ {id}]
    /\ expired' = Append(expired, id)
    /\ past' = past \union {id}
    /\ UNCHANGED <<over, hist, phase, loading, place, cancel, apply, left>>
ExpiryRuns ==
    /\ expired # <<>> /\ phase # "loading"
    /\ Step(CancelAndTell(st, Head(expired)))
    /\ expired' = Tail(expired)
    /\ UNCHANGED <<past, phase, loading, place, cancel, apply, left>>
-----------------------------------------------------------------------------
(* Session events *)

AfterEvent(v, event) ==
    CASE event = "SessionStarted" -> [v EXCEPT !.plugged_in = TRUE]
      [] event = "TransactionStarted" ->
            [v EXCEPT !.plugged_in = TRUE,
                      !.connector = ConnectorNext(@, "TRANSACTION_STARTED")]
      [] event = "SessionFinished" ->
            [v EXCEPT !.plugged_in = FALSE,
                      !.connector = ConnectorNext(@, "SESSION_FINISHED")]
      [] event = "Disabled" ->
            [v EXCEPT !.reported_enabled = FALSE,
                      !.connector = ConnectorNext(@, "DISABLE")]
      [] event = "Enabled" ->
            [v EXCEPT !.reported_enabled = TRUE,
                      !.connector = ConnectorNext(@, "ENABLE")]
      [] OTHER -> v

\* take_restored_reservation
Restored(s, e) == {s.restored[e]} \intersect
                    {s.evse_reservations[f].id : f \in ReservedEvses(s) \intersect {e}}
ApplyAt(s, es, boot) ==
    apply' = [e \in Evses |->
                IF e \in es /\ Restored(s, e) # {}
                THEN [at |-> "reserving", id |-> s.restored[e], boot |-> boot] ELSE apply[e]]
Taken(s, es) == [s EXCEPT !.restored = [e \in Evses |-> IF e \in es THEN None ELSE @[e]]]

HandleSessionEvent(e) ==
    LET event == Head(st.events[e])
        s == [st EXCEPT !.events[e] = Tail(@), !.seen[e] = AfterEvent(@, event)]
    IN /\ phase # "loading" /\ st.events[e] # <<>>
       /\ apply[e].at # "idle" => apply[e].boot
       /\ \/ /\ event = "SessionStarted"
             /\ Step(s) /\ UNCHANGED apply
          \/ /\ event = "ReservationEnd"
             /\ Step(IF s.evse_reservations[e] = None THEN s
                     ELSE CancelAndTell(s, s.evse_reservations[e].id))
             /\ UNCHANGED apply
          \/ /\ event \in {"TransactionStarted", "SessionFinished", "Disabled"}
             /\ Step(Update(OnConnectorChange(s, e))) /\ UNCHANGED apply
          \/ /\ event = "Enabled"
             /\ LET t == Update(OnConnectorChange(s, e))
                IN Step(Taken(t, {e})) /\ ApplyAt(t, {e}, FALSE)
       /\ UNCHANGED <<past, expired, phase, loading, place, cancel, left>>

\* apply_restored_reservation, in the thread of the Enabled event or of
\* initialize().
ApplyReserves(e) ==
    /\ apply[e].at = "reserving"
    /\ \/ /\ EmAccepts(st.em[e], apply[e].id)
          /\ Step(CallReserved(e, apply[e].id))
          /\ apply' = [apply EXCEPT ![e].at = "checking"]
       \/ /\ ~EmAccepts(st.em[e], apply[e].id)
          /\ LET id == apply[e].id
                 s == IF id \in st.timers THEN Release(Cancel(st, id), {e}) ELSE st
             IN Refusal(s, EvseOf(st, id) \ {e})
          /\ apply' = [apply EXCEPT ![e] = NotApplying]
    /\ UNCHANGED <<past, expired, phase, loading, place, cancel, left>>
ApplyChecks(e) ==
    /\ apply[e].at = "checking"
    /\ Step(IF e \in EvseOf(st, apply[e].id) THEN st ELSE EmCancel(st, {e}))
    /\ apply' = [apply EXCEPT ![e] = NotApplying]
    /\ UNCHANGED <<past, expired, phase, loading, place, cancel, left>>
-----------------------------------------------------------------------------
(* Restart: load_reservations and AuthHandler::initialize.  Events that came *)
(* before are handled first.                                                 *)

NewHandler(stored, em, events) ==
    [evse_reservations |-> [e \in Evses |-> None], global_reservations |-> <<>>,
     timers |-> {}, armed |-> {}, restored |-> [e \in Evses |-> None],
     last_reserved |-> {}, stored |-> stored,
     seen |-> [e \in Evses |-> [plugged_in |-> FALSE, connector |-> "AVAILABLE",
                                reported_enabled |-> FALSE]],
     em |-> em, events |-> events]

Restart ==
    /\ Spend("restarts")
    /\ st' = NewHandler(st.stored,
                [e \in Evses |-> [st.em[e] EXCEPT !.reserved = None, !.enabled = TRUE,
                                                  !.authorized = FALSE, !.transaction = FALSE]],
                [e \in Evses |-> <<"Enabled">> \o
                    (IF st.em[e].plugged THEN <<"SessionStarted">> ELSE <<>>)])
    /\ expired' = <<>> /\ phase' = "booting" /\ loading' = <<>>
    /\ place' = NotPlacing /\ cancel' = NotCancelling
    /\ apply' = [e \in Evses |-> NotApplying]
    /\ hist' = [stale |-> hist.stale, lost |-> {}]
    /\ UNCHANGED <<past, over>>

LoadStarts ==
    /\ phase = "booting"
    /\ phase' = "loading" /\ loading' = st.stored
    /\ UNCHANGED <<st, past, over, hist, expired, place, cancel, apply, left>>

\* One that has expired, or can no longer be made, is announced as cancelled;
\* the store is left as it is.
LoadNext ==
    LET r == Head(loading)
        refused(s) == Release(s, {e \in Evses : e = r.evse})
    IN /\ phase = "loading" /\ loading # <<>>
       /\ \/ /\ st' = refused(st)
             /\ past' = past \union {r.id} /\ over' = over \union {r.id}
             /\ hist' = History(st', hist.stale, hist.lost)
          \/ /\ r.id \notin past /\ ~CanMake(st, r)
             /\ st' = refused(Cancel(st, r.id))
             /\ over' = over \union {r.id}
             /\ hist' = History(st', hist.stale \union {r.id}, hist.lost)
             /\ UNCHANGED past
          \/ /\ r.id \notin past /\ CanMake(st, r)
             /\ Step(IF r.evse = None THEN Add(st, r)
                     ELSE [Add(st, r) EXCEPT !.restored[r.evse] = r.id])
             /\ UNCHANGED past
       /\ loading' = Tail(loading)
       /\ UNCHANGED <<expired, phase, place, cancel, apply, left>>
LoadEnds ==
    LET reported == {e \in Evses : st.seen[e].reported_enabled}
        s == Update(st)
    IN /\ phase = "loading" /\ loading = <<>>
       /\ phase' = "up"
       /\ Step(Taken(s, reported)) /\ ApplyAt(s, reported, TRUE)
       /\ UNCHANGED <<past, expired, loading, place, cancel, left>>
-----------------------------------------------------------------------------
(* Drivers and operators.  A token that is to be used at an EVSE uses up its *)
(* reservation (handle_token), also when the Charger does not take it        *)
(* because the session of the EV that is there has ended; without a          *)
(* reservation it must not take what others have reserved.                   *)

Tell(s, e, events) == [s EXCEPT !.events[e] = @ \o events]
Used(e, id) == [Cancel(st, id) EXCEPT !.em[e].reserved = id]

TokenUsed(e, token) ==
    LET mine == Matching(st, token, e)
    IN /\ phase = "up"
       /\ st.seen[e].connector = "AVAILABLE"
       /\ st.em[e].enabled /\ ~st.em[e].authorized
       /\ Spend("moves")
       /\ \/ \E r \in mine : Step([Used(e, r.id) EXCEPT !.em[e].authorized = TRUE])
          \/ st.em[e].plugged /\ \E r \in mine : Step(EmCancel(Used(e, r.id), {e}))
          \/ /\ mine = {} /\ ChargingPossible(st, e)
             /\ Step([st EXCEPT !.em[e].authorized = TRUE])
       /\ UNCHANGED <<past, expired, phase, loading, place, cancel, apply>>

\* withdraw_authorization, when the authorization is not used in time.
AuthorizationTimesOut(e) ==
    /\ phase = "up" /\ st.em[e].authorized /\ ~st.em[e].plugged
    /\ Step(Tell([EmCancel(st, {e}) EXCEPT !.em[e].authorized = FALSE], e, <<"SessionFinished">>))
    /\ UNCHANGED <<past, expired, phase, loading, place, cancel, apply, left>>

PlugIn(e) ==
    /\ st.em[e].enabled /\ ~st.em[e].plugged
    /\ Spend("moves")
    /\ Step(Tell([st EXCEPT !.em[e].plugged = TRUE], e,
                 IF st.em[e].authorized THEN <<>> ELSE <<"SessionStarted">>))
    /\ UNCHANGED <<past, expired, phase, loading, place, cancel, apply>>
TransactionStarts(e) ==
    /\ st.em[e].plugged /\ st.em[e].authorized /\ ~st.em[e].transaction
    /\ Step(Tell([st EXCEPT !.em[e].transaction = TRUE, !.em[e].reserved = None],
                 e, <<"TransactionStarted">>))
    /\ UNCHANGED <<past, expired, phase, loading, place, cancel, apply, left>>
\* The pass that starts the transaction comes before the EV can leave.
Unplug(e) ==
    /\ st.em[e].plugged
    /\ st.em[e].authorized => st.em[e].transaction
    /\ Step(Tell([st EXCEPT !.em[e].plugged = FALSE, !.em[e].authorized = FALSE,
                            !.em[e].transaction = FALSE], e, <<"SessionFinished">>))
    /\ UNCHANGED <<past, expired, phase, loading, place, cancel, apply, left>>
\* Out of service: disabled when nobody is there (evse_managerImpl ends the
\* reservation after it has reported the EVSE as disabled).
DisableEvse(e) ==
    /\ st.em[e].enabled /\ ~st.em[e].plugged /\ ~st.em[e].authorized
    /\ Spend("moves")
    /\ Step(EmCancel(Tell([st EXCEPT !.em[e].enabled = FALSE], e, <<"Disabled">>), {e}))
    /\ UNCHANGED <<past, expired, phase, loading, place, cancel, apply>>
EnableEvse(e) ==
    /\ ~st.em[e].enabled
    /\ Step(Tell([st EXCEPT !.em[e].enabled = TRUE], e, <<"Enabled">>))
    /\ UNCHANGED <<past, expired, phase, loading, place, cancel, apply, left>>
-----------------------------------------------------------------------------
Init ==
    /\ st = [NewHandler(<<>>, [e \in Evses |->
                [reserved |-> None, enabled |-> TRUE, plugged |-> FALSE,
                 authorized |-> FALSE, transaction |-> FALSE]],
                [e \in Evses |-> <<>>])
             EXCEPT !.seen = [e \in Evses |-> [@[e] EXCEPT !.reported_enabled = TRUE]]]
    /\ expired = <<>> /\ phase = "up" /\ loading = <<>>
    /\ place = NotPlacing /\ cancel = NotCancelling
    /\ apply = [e \in Evses |-> NotApplying]
    /\ past = {} /\ over = {} /\ hist = [stale |-> {}, lost |-> {}]
    /\ left = [placed |-> MaxPlaced, moves |-> MaxMoves, restarts |-> MaxRestarts,
               all |-> MaxAll]

Placing == \/ PlaceMakes \/ PlaceReleases \/ PlaceReserves \/ PlaceFails \/ PlaceChecks
Loading == LoadStarts \/ LoadNext \/ LoadEnds
EventThread(e) == HandleSessionEvent(e) \/ ApplyReserves(e) \/ ApplyChecks(e)
Driver(e) == \/ PlugIn(e) \/ Unplug(e) \/ DisableEvse(e) \/ EnableEvse(e)
             \/ TransactionStarts(e) \/ AuthorizationTimesOut(e)
             \/ \E token \in Tokens : TokenUsed(e, token)

Next ==
    \/ Placing \/ CancelReleases \/ ExpiryRuns \/ Restart \/ Loading
    \/ \E r \in Requests : PlaceStarts(r)
    \/ \E id \in Ids : CancelStarts(id) \/ TimerExpires(id)
    \/ \E e \in Evses : EventThread(e)
    \/ \E e \in Visited : Driver(e)

Spec == Init /\ [][Next]_vars
-----------------------------------------------------------------------------
\* The reservations in force are those that have a timer, which is armed or
\* has expired with its callback still to come, and no id is in force twice:
\* cancel_reservation finds a reservation by its timer, and one without would
\* neither expire nor be cancelled.
TimersMatch ==
    /\ st.timers = InForce(st) /\ st.armed \subseteq st.timers
    /\ st.timers \ st.armed \subseteq Range(expired)
    /\ Cardinality(InForce(st)) = Cardinality(ReservedEvses(st)) + Len(st.global_reservations)

\* A reservation that has expired, was cancelled, replaced or used does not
\* come back, not even when the module restarts at any moment: what
\* store_reservations says of the stale entry that "resurrects".  The one that
\* does, and is left out: one that load_reservations has refused and announced
\* as removed, which stays in the store until the next write and is loaded again
\* by the restart after that (hist.stale).
EndedStaysEnded == over \intersect InForce(st) \subseteq hist.stale

\* Nothing is under way: no command, no event, no expired timer.
Quiet == /\ phase = "up" /\ place.at = "idle" /\ cancel.at = "idle" /\ expired = <<>>
         /\ \A e \in Evses : st.events[e] = <<>> /\ apply[e].at = "idle"

\* At rest an EvseManager has the reservation the handler has for its EVSE, if
\* that is for a connector type, and no other with an id, except one that is used
\* by the authorization it has (place_reservation, apply_restored_reservation:
\* what ends while the EvseManager is being called is ended there, too).
\*
\* Left out, because the code does not keep it: a reservation without a type,
\* which the EvseManager drops and the handler keeps when the EVSE is disabled;
\* "Global", which an EvseManager may keep after the last global reservation has
\* ended; and the EVSEs in hist.lost, where a refusal elsewhere, or of a
\* reservation it already had, made the handler forget the reservation without a
\* word to the EvseManager.
ReservedAgrees ==
    Quiet => \A e \in Evses :
        /\ e \in ReservedEvses(st) /\ st.evse_reservations[e].type # None =>
             st.em[e].reserved = st.evse_reservations[e].id
        /\ st.em[e].reserved \in Ids =>
             \/ e \in EvseOf(st, st.em[e].reserved) \/ st.em[e].authorized
             \/ e \in hist.lost

\* What it means that cars of these types fit: wherever some of them have
\* parked, each of the others still finds an EVSE.
AlwaysRoom(s, types, reserved) ==
    LET usable(i) == {e \in Evses \ reserved : Free(s, e) /\ Suitable(e, types[i])}
    IN \A i \in DOMAIN types :
         \A parked \in SUBSET (DOMAIN types \ {i}) :
            \A at \in Injection(parked, Evses) :
               (\A j \in parked : at[j] \in usable(j)) => usable(i) \ Range(at) # {}

\* At rest the global reservations for a connector type fit; and an EVSE
\* reserved for a connector type has its connector.  What
\* on_connector_state_changed is to keep, as long as no EV is plugged in without
\* a transaction.
ReservationsFit ==
    LET g     == st.global_reservations
        typed == {i \in DOMAIN g : g[i].type # None}
    IN (Quiet /\ \A e \in Evses : st.seen[e].plugged_in => st.seen[e].connector # "AVAILABLE")
       => /\ AlwaysRoom(st, [i \in typed |-> g[i].type], ReservedEvses(st))
          /\ \A e \in ReservedEvses(st) :
               st.evse_reservations[e].type # None => st.seen[e].connector = "AVAILABLE"

\* When a reservation is about to be made or loaded, is_reservation_possible,
\* which tries the orders in which cars may come, is what it is meant to be.
AllTypes == {r.type : r \in Requests}
PossibleIsAlwaysRoom ==
    place.at = "making" \/ phase = "loading" =>
       \A types \in UNION {[1..n -> AllTypes] : n \in 1..2} :
          \A reserved \in SUBSET Evses :
             IsPossible(st, types, reserved) <=> AlwaysRoom(st, types, reserved)
=============================================================================
