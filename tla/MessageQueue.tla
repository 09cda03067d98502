---------------------------- MODULE MessageQueue ----------------------------
(***************************************************************************)
(* The message queue of the OCPP library (message_queue.hpp) with what     *)
(* surrounds it: the tables in the database that survive a restart, the    *)
(* websocket with its callbacks, and the CSMS.                             *)
(*                                                                         *)
(* A message is its number (in the order of push), its kind, the attempts  *)
(* so far, whether its timestamp has been reached, and whether it waits    *)
(* for the registration.  An attempt has a message id of its own: Uid.     *)
(* Kinds: "event" and "update" are messages of transactions, "update" the  *)
(* ones that may be dropped when the queue is full; "boot", "heartbeat" and*)
(* "status" are BootNotification, Heartbeat and any other message.         *)
(***************************************************************************)
EXTENDS Naturals, FiniteSets, Sequences

CONSTANTS
    Attempts,       \* transaction_message_attempts
    Threshold,      \* queues_total_size_threshold
    QueueAll,       \* queue_all_messages
    Discard,        \* message_types_discard_for_queueing
    ResumeDelay,    \* is there a delay before the queue resumes on reconnect
    ExternalNotify, \* external_notify: the response handler wakes the worker
    Pushed,         \* the kinds a message may have, by its number
    MaxPush,        \* bound: messages pushed
    MaxTries,       \* bound: attempts to send a BootNotification
    MaxFaults       \* bound: faults, restarts, idle actions, calls of the CSMS

TransactionKinds == {"event", "update"}
Kinds == TransactionKinds \union {"boot", "heartbeat", "status"}

ASSUME QueueAssumption ==
    /\ Attempts \in Nat \ {0} /\ Threshold \in Nat
    /\ QueueAll \in BOOLEAN /\ ResumeDelay \in BOOLEAN
    /\ Discard \subseteq Kinds /\ "heartbeat" \in Discard
    /\ ExternalNotify \subseteq TransactionKinds
    /\ Pushed \in [1..MaxPush -> SUBSET (TransactionKinds \union {"status"})]
    /\ MaxPush \in Nat /\ MaxTries \in Nat /\ MaxFaults \in Nat

VARIABLES
    phase,          \* of the station: "down", "running" or "stopped"
    tq,             \* transaction_message_queue
    nq,             \* normal_message_queue
    in_flight,      \* the message that waits for its answer
    ttab, ntab,     \* tables TRANSACTION_QUEUE and NORMAL_QUEUE
    paused, resuming,
    ctr,            \* pause_resume_ctr
    resume_timer,   \* the counter the running resume timer was set with, or 0
    resume_late,    \* the same for a callback that waits for the mutex
    new_message,
    worker,         \* where the worker thread is
    own_pause,      \* the counter when the running idle action paused, or 0
    idle,           \* number of waiting idle_actions
    registered,     \* is_registration_status_accepted
    boot_due,       \* the charge point is to push a BootNotification
    handler,        \* kind of the answer whose response handler is to run
    hold,           \* next_message_to_send has a value
    timer,          \* attempt the running in_flight_timeout_timer was set for
    timer_late,     \* the same for a callback that waits for the mutex
    notify,         \* message whose timestamp notify_queue_timer waits for
    link,           \* the websocket: "up" or "down"
    callback,       \* connection callback that is to be delivered
    wire, answers,  \* attempts and answers under way on this connection
    next,           \* number of the next message
    csms,           \* messages of transactions the CSMS has received
    offered,        \* highest number of a transaction message that was sent
    open,           \* the attempt the CSMS may still answer in time
    faults

queues == <<tq, nq, in_flight>>
tables == <<ttab, ntab>>
flow   == <<paused, resuming, ctr, resume_timer, resume_late>>
thread == <<worker, own_pause, idle>>
reg    == <<registered, boot_due, handler>>
timers == <<timer, timer_late, notify>>
net    == <<link, callback, wire, answers>>
past   == <<next, csms, offered, open, faults>>
vars   == <<phase, queues, tables, flow, thread, new_message, reg, hold,
            timers, net, past>>

-----------------------------------------------------------------------------
(* Messages *)

NoUid == [id |-> 0, kind |-> "none", att |-> 0]
NoMessage == [id |-> 0, kind |-> "none", att |-> 0, due |-> FALSE, stall |-> FALSE]

Message(id, kind, stall) ==
    [id |-> id, kind |-> kind, att |-> 0, due |-> TRUE, stall |-> stall]
Uid(m) == [id |-> m.id, kind |-> m.kind, att |-> m.att]
Row(m) == [id |-> m.id, kind |-> m.kind]
RowsWithId(id) == [id : {id}, kind : Kinds]

IsTransaction(m) == m.kind \in TransactionKinds
CheckQueue(kind) == QueueAll /\ kind \notin Discard

(* allowed_to_send_message *)
Allowed(m) == m.due /\ (m.stall => registered)

(* The ways to list a finite set of numbers in increasing order: one. *)
Listings(S) ==
    {h \in [1..Cardinality(S) -> S] :
        /\ \A i, j \in 1..Cardinality(S) : i < j => h[i] < h[j]
        /\ \A x \in S : \E i \in 1..Cardinality(S) : h[i] = x}

(* The sequence q without the positions in D. *)
Without(q, D) ==
    {[i \in DOMAIN h |-> q[h[i]]] : h \in Listings(DOMAIN q \ D)}

(* The rows of a table, in the order in which they were inserted, as       *)
(* messages: get_message_queue_messages returns them in this order.        *)
Loaded(table) ==
    {[i \in DOMAIN h |->
        Message(h[i], (CHOOSE r \in table : r.id = h[i]).kind, TRUE)] :
        h \in Listings({r.id : r \in table})}

-----------------------------------------------------------------------------
(* Overflow: check_queue_sizes *)

Count(S) == Cardinality(S)

(* Positions of the normal queue that are dropped: the oldest ones, in     *)
(* batches of a tenth of the threshold, but no BootNotification.           *)
DropNormal(q, n) ==
    LET batch     == IF Threshold >= 20 THEN Threshold \div 10 ELSE 1
        excess    == IF Len(q) + Len(n) > Threshold
                     THEN Len(q) + Len(n) - Threshold ELSE 0
        batches   == (excess + batch - 1) \div batch
        droppable == {i \in DOMAIN n : n[i].kind # "boot"}
    IN {i \in droppable : Count({j \in droppable : j <= i}) <= batches * batch}

(* One pass over what is kept (R) of the transaction queue q: every first, *)
(* third, ... update after a message that is none, except the last two     *)
(* messages of the queue.                                                  *)
DropPass(q, R) ==
    {i \in R :
        /\ q[i].kind = "update"
        /\ Count({j \in R : j > i}) > 1
        /\ Count({j \in R : /\ j <= i
                            /\ \A k \in R : j <= k /\ k <= i => q[k].kind = "update"})
           % 2 = 1}

(* Passes follow until the queues fit or a pass drops nothing. *)
DropUpdates(q, left) ==
    LET kept[n \in 0..Len(q)] ==
            IF n = 0 THEN DOMAIN q
            ELSE IF Count(kept[n - 1]) + left > Threshold
                 THEN kept[n - 1] \ DropPass(q, kept[n - 1])
                 ELSE kept[n - 1]
    IN {i \in DOMAIN q : q[i].kind = "update" /\ i \notin kept[Len(q)]}

-----------------------------------------------------------------------------
(* Threads *)

(* The worker holds message_mutex from the test of its condition until it  *)
(* waits, and while it finds that there is nothing to send.                *)
Unlocked == worker \notin {"block", "clear"}

Alive == phase # "down"
Running == phase = "running"

Notified == IF worker = "wait" THEN "check" ELSE worker

Fault == faults < MaxFaults /\ faults' = faults + 1

-----------------------------------------------------------------------------
(* Sending *)

(* handle_timeout_or_callerror: what becomes of the message m in flight,   *)
(* with q and n the queues without it.                                     *)
Retries(m) ==
    IF IsTransaction(m) \/ CheckQueue(m.kind)
    THEN m.att < Attempts
    ELSE m.kind = "boot"

HandleTimeoutOrCallerror(m, q, n) ==
    /\ in_flight' = NoMessage
    /\ timer' = NoUid
    /\ \/ /\ Retries(m)
          /\ \E due \in BOOLEAN :
                LET again == [m EXCEPT !.due = due] IN
                /\ tq' = IF IsTransaction(m) THEN <<again>> \o q ELSE q
                /\ nq' = IF IsTransaction(m) THEN n ELSE <<again>> \o n
          /\ notify' = Row(m)
          /\ UNCHANGED tables
       \/ /\ ~Retries(m)
          /\ tq' = q
          /\ nq' = n
          /\ ttab' = IF IsTransaction(m) THEN ttab \ RowsWithId(m.id) ELSE ttab
          /\ ntab' = IF ~IsTransaction(m) /\ CheckQueue(m.kind)
                     THEN ntab \ RowsWithId(m.id) ELSE ntab
          /\ UNCHANGED notify

(* Position of the first message of the normal queue that may be sent, or 0. *)
FirstNormal ==
    IF \E i \in DOMAIN nq : Allowed(nq[i])
    THEN CHOOSE i \in DOMAIN nq :
            Allowed(nq[i]) /\ \A j \in DOMAIN nq : j < i => ~Allowed(nq[j])
    ELSE 0

(* The message the worker picks.  The first transaction message competes   *)
(* with the first normal one: a BootNotification goes first, otherwise the *)
(* older timestamp, which is left open here.                               *)
PicksTransaction ==
    /\ tq # <<>>
    /\ Allowed(Head(tq))
    /\ FirstNormal # 0 => nq[FirstNormal].kind # "boot"

PicksNormal == FirstNormal # 0

PicksNothing == ~PicksTransaction /\ ~PicksNormal

(* The worker's condition: there is something to do. *)
IdleActionReady == Running /\ idle > 0 /\ in_flight = NoMessage
SendReady == ~paused /\ new_message /\ in_flight = NoMessage

WorkerBlocks ==
    /\ worker = "check"
    /\ Running /\ ~IdleActionReady /\ ~SendReady
    /\ worker' = "block"
    /\ UNCHANGED <<phase, queues, tables, flow, own_pause, idle, new_message,
                   reg, hold, timers, net, past>>

WorkerWaits ==
    /\ worker = "block"
    /\ worker' = "wait"
    /\ UNCHANGED <<phase, queues, tables, flow, own_pause, idle, new_message,
                   reg, hold, timers, net, past>>

\* Mutant: the queue stays paused when the action is done.
EndActionStaysPaused ==
    /\ worker = "action"
    /\ worker' = "check"
    /\ own_pause' = 0
    /\ UNCHANGED <<phase, queues, tables, flow, idle, new_message, reg, hold,
                   timers, net, past>>

(* An idle action runs with the mutex released and the queue paused. *)
WorkerStartsAction ==
    /\ worker = "check"
    /\ IdleActionReady
    /\ idle' = idle - 1
    /\ worker' = "action"
    /\ \/ /\ paused
          /\ own_pause' = 0
          /\ UNCHANGED <<paused, resuming, ctr, resume_timer>>
       \/ /\ ~paused
          /\ ctr' = ctr + 1
          /\ own_pause' = ctr + 1
          /\ resume_timer' = 0
          /\ paused' = TRUE
          /\ resuming' = FALSE
    /\ UNCHANGED <<phase, queues, tables, resume_late, new_message, reg, hold,
                   timers, net, past>>

WorkerEndsAction ==
    /\ worker = "action"
    /\ worker' = "check"
    /\ own_pause' = 0
    /\ \/ /\ own_pause # 0 /\ own_pause = ctr /\ link = "up"
          /\ ctr' = ctr + 1
          /\ paused' = FALSE
          /\ resuming' = FALSE
       \/ /\ ~(own_pause # 0 /\ own_pause = ctr /\ link = "up")
          /\ UNCHANGED <<paused, resuming, ctr>>
    /\ UNCHANGED <<phase, queues, tables, resume_timer, resume_late, idle,
                   new_message, reg, hold, timers, net, past>>

(* Nothing may be sent yet: new_message is reset in a step of its own,     *)
(* because notify_queue_timer sets it without the mutex.                   *)
WorkerFindsNothing ==
    /\ worker = "check"
    /\ Running /\ idle = 0 /\ SendReady /\ PicksNothing
    /\ worker' = "clear"
    /\ UNCHANGED <<phase, queues, tables, flow, own_pause, idle, new_message,
                   reg, hold, timers, net, past>>

WorkerClears ==
    /\ worker = "clear"
    /\ worker' = "check"
    /\ new_message' = FALSE
    /\ UNCHANGED <<phase, queues, tables, flow, own_pause, idle, reg, hold,
                   timers, net, past>>

\* Mutant: a message leaves its table when it is sent, not when answered.
SendForgets(sent, q, n) ==
    /\ link = "up"
    /\ in_flight' = sent /\ timer' = Uid(sent)
    /\ tq' = q /\ nq' = n
    /\ wire' = Append(wire, Uid(sent))
    /\ open' = Uid(sent)
    /\ offered' = IF IsTransaction(sent) THEN sent.id ELSE offered
    /\ ttab' = ttab \ RowsWithId(sent.id)
    /\ UNCHANGED <<ntab, notify, faults>>

(* Attempts are counted when the message is taken from its queue; the      *)
(* mutex is held while it is sent.                                         *)
SendSucceeds(sent, q, n) ==
    /\ link = "up"
    /\ in_flight' = sent
    /\ timer' = Uid(sent)
    /\ tq' = q
    /\ nq' = n
    /\ wire' = Append(wire, Uid(sent))
    /\ open' = Uid(sent)
    /\ offered' = IF IsTransaction(sent) THEN sent.id ELSE offered
    /\ UNCHANGED <<tables, notify, faults>>

SendFails(sent, q, n) ==
    /\ IF link = "up" THEN Fault ELSE UNCHANGED faults
    /\ HandleTimeoutOrCallerror(sent, q, n)
    /\ UNCHANGED <<wire, open, offered>>

Send(m, q, n) ==
    LET sent == [m EXCEPT !.att = @ + 1] IN
    /\ m.kind = "boot" => m.att < MaxTries
    /\ SendSucceeds(sent, q, n) \/ SendFails(sent, q, n)
    /\ new_message' = (tq' # <<>> \/ nq' # <<>>)

WorkerSendsTransaction ==
    /\ worker = "check"
    /\ Running /\ idle = 0 /\ SendReady /\ ~hold
    /\ PicksTransaction
    /\ Send(Head(tq), Tail(tq), nq)
    /\ UNCHANGED <<phase, flow, thread, reg, hold, timer_late, link, callback,
                   answers, next, csms>>

WorkerSendsNormal ==
    /\ worker = "check"
    /\ Running /\ idle = 0 /\ SendReady /\ ~hold
    /\ PicksNormal
    /\ \E rest \in Without(nq, {FirstNormal}) : Send(nq[FirstNormal], tq, rest)
    /\ UNCHANGED <<phase, flow, thread, reg, hold, timer_late, link, callback,
                   answers, next, csms>>

WorkerExits ==
    /\ worker = "check"
    /\ ~Running
    /\ worker' = "done"
    /\ UNCHANGED <<phase, queues, tables, flow, own_pause, idle, new_message,
                   reg, hold, timers, net, past>>

-----------------------------------------------------------------------------
(* Timers *)

(* The time limit of the message in flight expires.  Without a fault it    *)
(* does only when no answer is under way.                                  *)
UnderWay(u) ==
    \/ \E i \in DOMAIN wire : wire[i] = u
    \/ \E i \in DOMAIN answers : answers[i].uid = u

TimerExpires ==
    /\ timer # NoUid /\ timer_late = NoUid
    /\ timer_late' = timer
    /\ timer' = NoUid
    /\ open' = IF open = timer THEN NoUid ELSE open
    /\ IF UnderWay(timer) THEN Fault ELSE UNCHANGED faults
    /\ UNCHANGED <<phase, queues, tables, flow, thread, new_message, reg, hold,
                   notify, net, next, csms, offered>>

\* Mutant: a timeout settles whatever is in flight.
TimeoutOfAny ==
    /\ timer_late # NoUid
    /\ Unlocked
    /\ timer_late' = NoUid
    /\ in_flight # NoMessage
    /\ HandleTimeoutOrCallerror(in_flight, tq, nq)
    /\ worker' = Notified
    /\ UNCHANGED <<phase, flow, own_pause, idle, new_message, reg, hold, net, past>>

(* The callback works only on the attempt it was set for. *)
TimeoutCallback ==
    /\ timer_late # NoUid
    /\ Unlocked
    /\ timer_late' = NoUid
    /\ \/ /\ in_flight # NoMessage /\ Uid(in_flight) = timer_late
          /\ HandleTimeoutOrCallerror(in_flight, tq, nq)
          /\ worker' = Notified
       \/ /\ in_flight = NoMessage \/ Uid(in_flight) # timer_late
          /\ UNCHANGED <<queues, tables, timer, notify, worker>>
    /\ UNCHANGED <<phase, flow, own_pause, idle, new_message, reg, hold, net, past>>

(* notify_queue_timer fires when the timestamp of its message is reached.  *)
(* It sets new_message without the mutex.                                  *)
NotifyFires ==
    /\ notify # Row(NoMessage)
    /\ \A i \in DOMAIN tq : Row(tq[i]) = notify => tq[i].due
    /\ \A i \in DOMAIN nq : Row(nq[i]) = notify => nq[i].due
    /\ notify' = Row(NoMessage)
    /\ new_message' = TRUE
    /\ worker' = Notified
    /\ UNCHANGED <<phase, queues, tables, flow, own_pause, idle, reg, hold,
                   timer, timer_late, net, past>>

(* The timestamp of a message that waits for its next attempt is reached. *)
TimePasses ==
    /\ \/ /\ \E i \in DOMAIN tq : ~tq[i].due /\ tq' = [tq EXCEPT ![i].due = TRUE]
          /\ UNCHANGED nq
       \/ /\ \E i \in DOMAIN nq : ~nq[i].due /\ nq' = [nq EXCEPT ![i].due = TRUE]
          /\ UNCHANGED tq
    /\ UNCHANGED <<phase, in_flight, tables, flow, thread, new_message, reg, hold,
                   timers, net, past>>

-----------------------------------------------------------------------------
(* Messages of the charge point *)

(* Which messages the dispatcher hands to the queue, and whether they are  *)
(* to wait for the registration: get_message_transmission_priority.        *)
Dispatched(kind) ==
    registered \/ kind = "boot" \/ kind \in TransactionKinds \/ QueueAll
Stalled(kind) == ~registered /\ kind # "boot"

(* push_call adds other messages only when they can go out or may wait. *)
Admitted(kind) ==
    \/ ~paused \/ resuming \/ Stalled(kind)
    \/ CheckQueue(kind) \/ kind = "boot"

\* Mutant: what is dropped from the queue stays in the table.
CheckQueueSizesKeepsRows(q, n, t, u) ==
    LET normal  == DropNormal(q, n)
        updates == DropUpdates(q, Len(n) - Cardinality(normal))
    IN /\ tq' \in Without(q, updates)
       /\ nq' \in Without(n, normal)
       /\ ttab' = t
       /\ ntab' = u

(* check_queue_sizes, for the queues q and n after a message was added and *)
(* the tables t and u after it was inserted.                               *)
CheckQueueSizes(q, n, t, u) ==
    LET normal  == DropNormal(q, n)
        updates == DropUpdates(q, Len(n) - Cardinality(normal))
    IN /\ tq' \in Without(q, updates)
       /\ nq' \in Without(n, normal)
       /\ ttab' = t \ UNION {RowsWithId(q[i].id) : i \in updates}
       /\ ntab' = IF QueueAll
                  THEN u \ UNION {RowsWithId(n[i].id) : i \in normal}
                  ELSE u

AddToTransactionQueue(m) ==
    CheckQueueSizes(Append(tq, m), nq, ttab \union {Row(m)}, ntab)

AddToNormalQueue(m) ==
    CheckQueueSizes(
        tq,
        IF m.kind = "boot" THEN <<m>> \o nq ELSE Append(nq, m),
        ttab,
        IF CheckQueue(m.kind) THEN ntab \union {Row(m)} ELSE ntab)

(* push_call, from any thread. *)
PushCall(id, kind) ==
    /\ Running /\ Unlocked
    /\ Dispatched(kind)
    /\ LET m == Message(id, kind, Stalled(kind)) IN
       \/ IsTransaction(m) /\ AddToTransactionQueue(m)
       \/ ~IsTransaction(m) /\ Admitted(kind) /\ AddToNormalQueue(m)
    /\ new_message' = TRUE
    /\ worker' = Notified
    /\ UNCHANGED <<phase, in_flight, flow, own_pause, idle, registered, handler,
                   hold, timers, net, csms, offered, open, faults>>

Push(kind) ==
    /\ next <= MaxPush /\ kind \in Pushed[next]
    /\ PushCall(next, kind)
    /\ next' = next + 1
    /\ UNCHANGED boot_due

(* A BootNotification is pushed after the start and again some time after  *)
(* the CSMS has not accepted one; the heartbeats start with the            *)
(* registration.  Neither is pushed while an earlier one is anywhere       *)
(* between the queue and the CSMS.  Heartbeats are rare: bound, they are   *)
(* pushed only when the queue is at rest.                                  *)
AtRest == worker = "wait" /\ in_flight = NoMessage

Gone(kind) ==
    /\ \A i \in DOMAIN nq : nq[i].kind # kind
    /\ in_flight.kind # kind
    /\ timer_late.kind # kind
    /\ \A i \in DOMAIN wire : wire[i].kind # kind
    /\ \A i \in DOMAIN answers : answers[i].uid.kind # kind

PushBoot ==
    /\ boot_due /\ Gone("boot")
    /\ PushCall(0, "boot")
    /\ boot_due' = FALSE
    /\ UNCHANGED next

PushHeartbeat ==
    /\ Running /\ registered /\ AtRest /\ Gone("heartbeat")
    /\ PushCall(0, "heartbeat")
    /\ UNCHANGED <<next, boot_due>>

(* Bound: at most one heartbeat waits; the next one only wakes the worker. *)
PushFurtherHeartbeat ==
    /\ Running /\ registered /\ AtRest /\ Admitted("heartbeat")
    /\ \E i \in DOMAIN nq : nq[i].kind = "heartbeat"
    /\ new_message' = TRUE
    /\ worker' = Notified
    /\ UNCHANGED <<phase, queues, tables, flow, own_pause, idle, reg, hold,
                   timers, net, past>>

-----------------------------------------------------------------------------
(* Start and stop *)

Init ==
    /\ phase = "down"
    /\ tq = <<>> /\ nq = <<>> /\ in_flight = NoMessage
    /\ ttab = {} /\ ntab = {}
    /\ paused = TRUE /\ resuming = FALSE /\ ctr = 0
    /\ resume_timer = 0 /\ resume_late = 0
    /\ new_message = FALSE
    /\ worker = "done" /\ own_pause = 0 /\ idle = 0
    /\ registered = FALSE /\ boot_due = TRUE /\ handler = "none"
    /\ hold = FALSE
    /\ timer = NoUid /\ timer_late = NoUid /\ notify = Row(NoMessage)
    /\ link = "down" /\ callback = "none" /\ wire = <<>> /\ answers = <<>>
    /\ next = 1 /\ csms = {} /\ offered = 0 /\ open = NoUid /\ faults = 0

(* get_persisted_messages_from_db, then start *)
Start ==
    /\ phase = "down"
    /\ phase' = "running"
    /\ worker' = "check"
    /\ tq' \in Loaded(ttab)
    /\ nq' \in Loaded(ntab)
    /\ new_message' = (ttab # {} \/ ntab # {})
    /\ ntab' = IF QueueAll THEN ntab ELSE {}
    /\ UNCHANGED <<in_flight, ttab, flow, own_pause, idle, reg, hold, timers, net,
                   past>>

Stop ==
    /\ Running /\ Unlocked
    /\ Fault
    /\ phase' = "stopped"
    /\ idle' = 0
    /\ timer' = NoUid /\ notify' = Row(NoMessage) /\ resume_timer' = 0
    /\ worker' = Notified
    /\ UNCHANGED <<queues, tables, paused, resuming, ctr, resume_late, own_pause,
                   new_message, reg, hold, timer_late, net, next, csms, offered,
                   open>>

(* Power fails, or a stopped station is switched off: the tables stay. *)
PowerDown ==
    /\ Alive
    /\ IF phase = "stopped" THEN UNCHANGED faults ELSE Fault
    /\ phase' = "down"
    /\ tq' = <<>> /\ nq' = <<>> /\ in_flight' = NoMessage
    /\ paused' = TRUE /\ resuming' = FALSE /\ ctr' = 0
    /\ resume_timer' = 0 /\ resume_late' = 0
    /\ new_message' = FALSE
    /\ worker' = "done" /\ own_pause' = 0 /\ idle' = 0
    /\ registered' = FALSE /\ boot_due' = TRUE /\ handler' = "none"
    /\ hold' = FALSE
    /\ timer' = NoUid /\ timer_late' = NoUid /\ notify' = Row(NoMessage)
    /\ link' = "down" /\ callback' = "none" /\ wire' = <<>> /\ answers' = <<>>
    /\ open' = NoUid
    /\ UNCHANGED <<tables, next, csms, offered>>

-----------------------------------------------------------------------------
(* The connection *)

Connect ==
    /\ Running /\ link = "down" /\ callback = "none"
    /\ link' = "up"
    /\ callback' = "connected"
    /\ UNCHANGED <<phase, queues, tables, flow, thread, new_message, reg, hold,
                   timers, wire, answers, past>>

(* resume; the first connection is not delayed. *)
Resume ==
    \/ ~paused /\ UNCHANGED <<flow, worker>>
    \/ /\ paused
       /\ ctr' = ctr + 1
       /\ \/ /\ ctr > 0 /\ ResumeDelay
             /\ resuming' = TRUE
             /\ resume_timer' = ctr + 1
             /\ UNCHANGED <<paused, worker>>
          \/ /\ ~(ctr > 0 /\ ResumeDelay)
             /\ paused' = FALSE
             /\ resuming' = FALSE
             /\ worker' = Notified
             /\ UNCHANGED resume_timer
       /\ UNCHANGED resume_late

ConnectedCallback ==
    /\ callback = "connected" /\ Unlocked
    /\ callback' = "none"
    /\ Resume
    /\ UNCHANGED <<phase, queues, tables, own_pause, idle, new_message, reg, hold,
                   timers, link, wire, answers, past>>

ResumeExpires ==
    /\ resume_timer # 0 /\ resume_late = 0
    /\ resume_late' = resume_timer
    /\ resume_timer' = 0
    /\ UNCHANGED <<phase, queues, tables, paused, resuming, ctr, thread,
                   new_message, reg, hold, timers, net, past>>

(* resume_now *)
ResumeCallback ==
    /\ resume_late # 0 /\ Unlocked
    /\ resume_late' = 0
    /\ \/ /\ resume_late = ctr
          /\ paused' = FALSE
          /\ resuming' = FALSE
          /\ worker' = Notified
       \/ /\ resume_late # ctr
          /\ UNCHANGED <<paused, resuming, worker>>
    /\ UNCHANGED <<phase, queues, tables, ctr, resume_timer, own_pause, idle,
                   new_message, reg, hold, timers, net, past>>

(* What was under way is lost with the connection. *)
Disconnect ==
    /\ Alive /\ link = "up" /\ callback = "none"
    /\ IF phase = "stopped" THEN UNCHANGED faults ELSE Fault
    /\ link' = "down"
    /\ callback' = "disconnected"
    /\ wire' = <<>> /\ answers' = <<>> /\ open' = NoUid
    /\ UNCHANGED <<phase, queues, tables, flow, thread, new_message, reg, hold,
                   timers, next, csms, offered>>

(* pause *)
DisconnectedCallback ==
    /\ callback = "disconnected" /\ Unlocked
    /\ callback' = "none"
    /\ ctr' = ctr + 1
    /\ resume_timer' = 0
    /\ paused' = TRUE
    /\ resuming' = FALSE
    /\ \/ in_flight = NoMessage /\ UNCHANGED <<queues, tables, timer, notify>>
       \/ in_flight # NoMessage /\ HandleTimeoutOrCallerror(in_flight, tq, nq)
    /\ worker' = Notified
    /\ UNCHANGED <<phase, resume_late, own_pause, idle, new_message, reg, hold,
                   timer_late, link, wire, answers, past>>

RunWhenIdle ==
    /\ Running /\ Unlocked
    /\ Fault
    /\ idle' = idle + 1
    /\ worker' = Notified
    /\ UNCHANGED <<phase, queues, tables, flow, own_pause, new_message, reg, hold,
                   timers, net, next, csms, offered, open>>

-----------------------------------------------------------------------------
(* The CSMS *)

Answer(u, type) == [uid |-> u, type |-> type]

(* The CSMS takes the next message.  It answers with a result (which for a *)
(* BootNotification may be that it is not accepted yet), with an error, or *)
(* not at all.                                                             *)
CsmsHandles ==
    /\ wire # <<>>
    /\ wire' = Tail(wire)
    /\ csms' = IF Head(wire).kind \in TransactionKinds
               THEN csms \union {Head(wire).id} ELSE csms
    /\ \/ /\ answers' = Append(answers, Answer(Head(wire), "result"))
          /\ UNCHANGED faults
       \/ /\ Fault
          /\ \/ answers' = Append(answers, Answer(Head(wire), "error"))
             \/ /\ Head(wire).kind = "boot"
                /\ answers' = Append(answers, Answer(Head(wire), "pending"))
             \/ UNCHANGED answers
    /\ UNCHANGED <<phase, queues, tables, flow, thread, new_message, reg, hold,
                   timers, link, callback, next, offered, open>>

(* handle_call_result: only now is the message removed from its table. *)
HandleCallResult(type) ==
    /\ ttab' = IF IsTransaction(in_flight)
               THEN ttab \ RowsWithId(in_flight.id) ELSE ttab
    /\ ntab' = IF ~IsTransaction(in_flight) /\ CheckQueue(in_flight.kind)
               THEN ntab \ RowsWithId(in_flight.id) ELSE ntab
    /\ in_flight' = NoMessage
    /\ timer' = NoUid
    /\ worker' = IF in_flight.kind \in ExternalNotify THEN worker ELSE Notified
    /\ handler' = IF in_flight.kind \in ExternalNotify \union {"boot"}
                  THEN type ELSE "none"
    /\ UNCHANGED <<tq, nq, notify>>

(* receive, for answers: in the thread of the websocket. *)
Receive ==
    /\ Alive /\ answers # <<>> /\ handler = "none" /\ Unlocked
    /\ answers' = Tail(answers)
    /\ hold' = FALSE
    /\ LET a == Head(answers) IN
       /\ open' = IF open = a.uid THEN NoUid ELSE open
       /\ \/ /\ in_flight = NoMessage \/ Uid(in_flight) # a.uid
             /\ UNCHANGED <<queues, tables, timer, notify, worker, handler>>
          \/ /\ in_flight # NoMessage /\ Uid(in_flight) = a.uid
             /\ a.type = "error"
             /\ HandleTimeoutOrCallerror(in_flight, tq, nq)
             /\ worker' = Notified
             /\ UNCHANGED handler
          \/ /\ in_flight # NoMessage /\ Uid(in_flight) = a.uid
             /\ a.type # "error"
             /\ HandleCallResult(IF in_flight.kind = "boot"
                                 THEN IF a.type = "pending" THEN "pending"
                                      ELSE "accepted"
                                 ELSE "start")
    /\ UNCHANGED <<phase, flow, own_pause, idle, new_message, registered, boot_due,
                   timer_late, link, callback, wire, next, csms, offered, faults>>

(* The response handler of a BootNotification, then the one of a           *)
(* StartTransaction, which wakes the worker if it knows the transaction.   *)
BootHandled ==
    /\ handler \in {"accepted", "pending"} /\ Unlocked
    /\ handler' = "none"
    /\ \/ /\ handler = "accepted"
          /\ registered' = TRUE
          /\ new_message' = TRUE
          /\ worker' = Notified
          /\ UNCHANGED boot_due
       \/ /\ handler = "pending"
          /\ boot_due' = TRUE
          /\ UNCHANGED <<registered, new_message, worker>>
    /\ UNCHANGED <<phase, queues, tables, flow, own_pause, idle, hold, timers, net,
                   past>>

StartHandled ==
    /\ handler = "start"
    /\ handler' = "none"
    /\ worker' \in {worker, Notified}
    /\ UNCHANGED <<phase, queues, tables, flow, own_pause, idle, new_message,
                   registered, boot_due, hold, timers, net, past>>

(* A CALL of the CSMS arrives and is answered. *)
CsmsCalls ==
    /\ Running /\ link = "up" /\ ~hold /\ handler = "none"
    /\ Fault
    /\ hold' = TRUE
    /\ UNCHANGED <<phase, queues, tables, flow, thread, new_message, reg, timers,
                   net, next, csms, offered, open>>

PushCallResult ==
    /\ Running /\ hold
    /\ hold' = FALSE
    /\ worker' = Notified
    /\ UNCHANGED <<phase, queues, tables, flow, own_pause, idle, new_message, reg,
                   timers, net, past>>

-----------------------------------------------------------------------------
Worker ==
    \/ WorkerBlocks \/ WorkerWaits \/ WorkerStartsAction \/ WorkerEndsAction
    \/ WorkerFindsNothing \/ WorkerClears
    \/ WorkerSendsTransaction \/ WorkerSendsNormal \/ WorkerExits

Next ==
    \/ Worker
    \/ TimerExpires \/ TimeoutCallback \/ NotifyFires \/ TimePasses
    \/ (\E kind \in Kinds : Push(kind)) \/ PushBoot
    \/ PushHeartbeat \/ PushFurtherHeartbeat
    \/ Start \/ Stop \/ PowerDown
    \/ Connect \/ ConnectedCallback \/ ResumeExpires \/ ResumeCallback
    \/ Disconnect \/ DisconnectedCallback \/ RunWhenIdle
    \/ CsmsHandles \/ Receive \/ BootHandled \/ StartHandled
    \/ CsmsCalls \/ PushCallResult

Spec == Init /\ [][Next]_vars

(* Threads are scheduled, timers expire, the websocket is connected again, *)
(* the CSMS reads what it is sent, heartbeats are periodic, and a thread   *)
(* that waits for message_mutex gets it at some time: SF.  Nothing         *)
(* is assumed of faults, restarts and what the charge point pushes.  The   *)
(* worker prefers the older timestamp: it cannot pass over the first       *)
(* message of a transaction for ever, as each further message is younger.  *)
FairSpec ==
    /\ Spec
    /\ WF_vars(Worker) /\ SF_vars(WorkerSendsTransaction)
    /\ WF_vars(TimerExpires) /\ SF_vars(TimeoutCallback)
    /\ WF_vars(NotifyFires) /\ WF_vars(TimePasses)
    /\ WF_vars(PushHeartbeat \/ PushFurtherHeartbeat)
    /\ WF_vars(Connect) /\ SF_vars(ConnectedCallback) /\ SF_vars(DisconnectedCallback)
    /\ WF_vars(ResumeExpires) /\ SF_vars(ResumeCallback)
    /\ WF_vars(CsmsHandles) /\ SF_vars(Receive) /\ WF_vars(StartHandled)
    /\ WF_vars(PushCallResult)

-----------------------------------------------------------------------------
(* Properties *)

(* The messages of transactions that memory holds: the one in flight first. *)
Held == IF IsTransaction(in_flight) THEN <<in_flight>> \o tq ELSE tq

(* While the station is up, memory and TRANSACTION_QUEUE hold the same    *)
(* messages, and memory holds them in the order in which they were pushed, *)
(* whatever timeouts, errors, lost connections and overflows do: a message *)
(* that is only in memory would be lost at the next restart, one that is   *)
(* only in the table would not be sent before it.                          *)
TableMatchesQueue ==
    Alive =>
        /\ ttab = {Row(Held[i]) : i \in DOMAIN Held}
        /\ \A i, j \in DOMAIN Held : i < j => Held[i].id < Held[j].id

(* A CALL is sent only when the previous one was answered, timed out or    *)
(* lost its connection: a late timeout of an earlier attempt never         *)
(* releases the message that is in flight now.                             *)
OneCallOutstanding ==
    [][Len(wire') > Len(wire) => open = NoUid]_vars

(* While the station runs and is registered, the messages of transactions  *)
(* are eventually all answered, given up after their attempts or dropped   *)
(* at an overflow: no pause, idle action, lost answer or held back reply   *)
(* stops the queue for good.                                               *)
QueueDrains == []<>(ttab = {} \/ ~registered \/ phase # "running")

(* Seen from the outside, the queue is the outbox of TransactionOutbox.    *)
Tried ==
    IF IsTransaction(in_flight) THEN in_flight.att
    ELSE IF tq # <<>> THEN Head(tq).att ELSE 0

Outbox == INSTANCE TransactionOutbox
            WITH box <- ttab, tries <- Tried, received <- csms

(* The queue keeps the promise of TransactionOutbox: only the oldest       *)
(* message is sent, and a message leaves the database only when the CSMS   *)
(* has received and answered it, when its attempts are used up, or when it *)
(* is a reading that is dropped because the queues are full.               *)
ImplementsOutbox == Outbox!OutboxSpec
=============================================================================
