-------------------------- MODULE TransactionOutbox --------------------------
(***************************************************************************)
(* What the OCPP message queue promises for the messages of transactions,  *)
(* whatever the connection does and however often the charging station     *)
(* restarts.  Messages are numbered in the order in which the charge point *)
(* hands them over.                                                        *)
(***************************************************************************)
EXTENDS Naturals

CONSTANTS Attempts      \* how often a message is sent before it is given up

VARIABLES
    box,        \* the messages that are not settled yet: number and kind
    next,       \* the number of the next message
    offered,    \* the highest number that was ever put on the wire
    tries,      \* how often the oldest message was tried since the last start
    received    \* the messages the CSMS has received

outboxVars == <<box, next, offered, tries, received>>

IsOldest(m) == m \in box /\ \A o \in box : m.id <= o.id

(* Messages that only carry a reading of a running transaction. *)
Readings == {m \in box : m.kind = "update"}

OutboxInit ==
    /\ box = {} /\ received = {}
    /\ next = 1 /\ offered = 0 /\ tries = 0

(* When the queues are full, some readings are given up, but never         *)
(* anything else; the oldest message may be one of them.                   *)
GiveUpReadings(others) ==
    /\ \E dropped \in SUBSET Readings : box' = (box \ dropped) \union others
    /\ tries' \in {0, tries}
    /\ UNCHANGED <<offered, received>>

(* A message joins behind all others, or its number goes to a message that *)
(* is none of a transaction.                                               *)
Accept ==
    /\ next' = next + 1
    /\ \E new \in SUBSET [id : {next}, kind : {"event", "update"}] :
        GiveUpReadings(new)

(* Messages that have no number fill the queues, too. *)
Overflow == GiveUpReadings({}) /\ UNCHANGED next

(* Only the oldest message is sent, so nothing overtakes it. *)
Offer ==
    \E m \in box :
        /\ IsOldest(m)
        /\ offered <= m.id
        /\ offered' = m.id
        /\ tries' = tries + 1
        /\ UNCHANGED <<box, next, received>>

(* A try that does not reach the wire counts, too. *)
Fail ==
    \E m \in box :
        /\ IsOldest(m)
        /\ \/ tries + 1 >= Attempts /\ box' = box \ {m} /\ tries' = 0
           \/ tries + 1 < Attempts /\ tries' = tries + 1 /\ UNCHANGED box
        /\ UNCHANGED <<next, offered, received>>

(* What arrives at the CSMS has been sent, and is not older than what has  *)
(* arrived before.                                                         *)
Arrive ==
    \E m \in 1..offered :
        /\ \A o \in received : o <= m
        /\ received' = received \union {m}
        /\ UNCHANGED <<box, next, offered, tries>>

(* A message is done when the CSMS has it and has answered, or when it was *)
(* tried as often as configured.                                           *)
Settle ==
    \E m \in box :
        /\ IsOldest(m)
        /\ m.id \in received \/ tries >= Attempts
        /\ box' = box \ {m}
        /\ tries' = 0
        /\ UNCHANGED <<next, offered, received>>

(* A restart forgets how often the oldest message was tried, nothing else. *)
Restart ==
    /\ tries' = 0
    /\ UNCHANGED <<box, next, offered, received>>

OutboxNext == Accept \/ Overflow \/ Offer \/ Fail \/ Arrive \/ Settle \/ Restart

OutboxSpec == OutboxInit /\ [][OutboxNext]_outboxVars
=============================================================================
