--------------------------- MODULE MCMessageQueue ---------------------------
(* Instance of MessageQueue: the first message may be dropped when the     *)
(* queues overflow, the last one may not.                                  *)
EXTENDS MessageQueue

MCPushed == <<{"update", "status"}, {"event", "update"}, {"event"}>>
=============================================================================
