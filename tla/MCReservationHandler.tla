------------------------ MODULE MCReservationHandler ------------------------
(* Two EVSEs with different connectors; one id that is asked for at either    *)
(* EVSE, and a reservation for a connector type.                              *)
EXTENDS ReservationHandler

MCTypeOf == [e \in Evses |-> IF e = 1 THEN "A" ELSE "B"]
MCRequests == {[id |-> "r1", evse |-> 1, type |-> "A", token |-> "t"],
               [id |-> "r1", evse |-> 2, type |-> None, token |-> "t"],
               [id |-> "r2", evse |-> None, type |-> "A", token |-> "u"]}
=============================================================================
