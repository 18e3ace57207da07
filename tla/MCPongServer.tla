---------------------------- MODULE MCPongServer ----------------------------
(***************************************************************************)
(* PongServer for TLC.  The constants are set in the .cfg files:           *)
(* MCPongServer.cfg runs both client modes with batches that the buffers  *)
(* can absorb (3 messages through queues of 1 and a server batch of 2),   *)
(* including a last, shorter throughput batch (4 = 3 + 1).                *)
(* MCPongServerDeadlock.cfg uses a batch of 4.                            *)
(***************************************************************************)
EXTENDS PongServer

=============================================================================
