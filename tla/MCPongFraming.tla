--------------------------- MODULE MCPongFraming ---------------------------
(***************************************************************************)
(* Constants for checking PongFraming.  Three messages of lengths 1, 2     *)
(* and 3 against a capacity of 2: the last one is refused with EMSGSIZE   *)
(* unless the sender closes before it.  A stream of 5 bytes splits every  *)
(* frame (5 to 7 bytes) across writes and reads and lets a read return    *)
(* the end of one frame with the start of the next.                       *)
(***************************************************************************)
EXTENDS PongFraming

MCMsgs == << <<1>>, <<2, 1>>, <<1, 1, 1>> >>

=============================================================================
