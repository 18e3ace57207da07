---------------------------- MODULE MCPongSystem ----------------------------
(* Instantiates PongSystem for TLC; the constants are in MCPongSystem.cfg. *)
EXTENDS PongSystem
=============================================================================
