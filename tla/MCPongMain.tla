----------------------------- MODULE MCPongMain -----------------------------
(***************************************************************************)
(* PongMain for TLC; the modes and whether the server's socket creation  *)
(* may fail are set in the .cfg files.                                   *)
(***************************************************************************)
EXTENDS PongMain

=============================================================================
