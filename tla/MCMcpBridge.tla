---------------------------- MODULE MCMcpBridge ----------------------------
(***************************************************************************)
(* A client with enough to say to fill every buffer on the way back while  *)
(* its child reads on, and one that sends a chunk and competes for slots.  *)
(***************************************************************************)
EXTENDS McpBridge

MCRequests == [s \in Session |-> IF s = "talker" THEN 3 ELSE 1]
=============================================================================
