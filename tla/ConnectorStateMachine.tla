----------------------- MODULE ConnectorStateMachine -----------------------
(***************************************************************************)
(* What the Auth module knows of a connector (ConnectorStateMachine.cpp):  *)
(* disabled or not, faulted or not, and in use or not, in one state.       *)
(***************************************************************************)

\* Mutant: a faulted connector cannot be disabled.
ConnectorNextFaultFirst(state, event) ==
    CASE state = "AVAILABLE" /\ event = "TRANSACTION_STARTED" -> "OCCUPIED"
      [] state = "AVAILABLE" /\ event = "DISABLE" -> "UNAVAILABLE"
      [] state = "AVAILABLE" /\ event = "FAULTED" -> "FAULTED"
      [] state = "UNAVAILABLE" /\ event = "ENABLE" -> "AVAILABLE"
      [] state = "FAULTED" /\ event = "ERROR_CLEARED" -> "AVAILABLE"
      [] state = "OCCUPIED" /\ event = "SESSION_FINISHED" -> "AVAILABLE"
      [] state = "OCCUPIED" /\ event = "FAULTED" -> "FAULTED_OCCUPIED"
      [] state = "FAULTED_OCCUPIED" /\ event = "ERROR_CLEARED" -> "OCCUPIED"
      [] state = "FAULTED_OCCUPIED" /\ event = "SESSION_FINISHED" -> "FAULTED"
      [] OTHER -> state

\* ConnectorStateMachine::handle_event; an event that is not listed for a
\* state leaves it.
ConnectorNext(state, event) ==
    CASE state = "AVAILABLE" /\ event = "TRANSACTION_STARTED" -> "OCCUPIED"
      [] state = "AVAILABLE" /\ event = "DISABLE" -> "UNAVAILABLE"
      [] state = "AVAILABLE" /\ event = "FAULTED" -> "FAULTED"
      [] state = "UNAVAILABLE" /\ event = "ENABLE" -> "AVAILABLE"
      [] state = "UNAVAILABLE" /\ event = "FAULTED" -> "UNAVAILABLE_FAULTED"
      [] state = "FAULTED" /\ event = "ERROR_CLEARED" -> "AVAILABLE"
      [] state = "FAULTED" /\ event = "DISABLE" -> "UNAVAILABLE_FAULTED"
      [] state = "OCCUPIED" /\ event = "SESSION_FINISHED" -> "AVAILABLE"
      [] state = "OCCUPIED" /\ event = "FAULTED" -> "FAULTED_OCCUPIED"
      [] state = "FAULTED_OCCUPIED" /\ event = "ERROR_CLEARED" -> "OCCUPIED"
      [] state = "FAULTED_OCCUPIED" /\ event = "SESSION_FINISHED" -> "FAULTED"
      [] state = "UNAVAILABLE_FAULTED" /\ event = "ENABLE" -> "FAULTED"
      [] state = "UNAVAILABLE_FAULTED" /\ event = "ERROR_CLEARED" -> "UNAVAILABLE"
      [] OTHER -> state
=============================================================================
