----------------------------- MODULE PongSystem -----------------------------
(***************************************************************************)
(* xcmpong as a whole (src/tools/xcmpong.c): the processes of PongMain,   *)
(* with the client's session being the exchange of PongServer between the *)
(* client and the handler process that run_client_handler forks for its   *)
(* connection.  PongMain's Session, one step that exits with 0 or 1, is   *)
(* here the client's send and receive loops, query_cpu and send_term      *)
(* against the handler, and the client's exit status is what they end in. *)
(* The handler is a process of its own: main's SIGHUP goes to the server  *)
(* process only, and nobody waits for the handler.                        *)
(***************************************************************************)
EXTENDS Naturals, Sequences

CONSTANTS Modes, CreateMayFail,                       \* PongMain
          ClientModes, NumRt, BatchSize, MaxServerBatch, MsgSize, Cap
                                                      \* PongServer

VARIABLES mode, mpc, spc, flag, sig, cpc, accepted, server_st, client_st,
          junk, mexit,
          cmode, toSrv, toCli, xpc, left, i, cpuGot, cst, hpc, batch, ri

mvars == <<mode, mpc, spc, flag, sig, cpc, accepted, server_st, client_st,
           junk, mexit>>
xvars == <<cmode, toSrv, toCli, xpc, left, i, cpuGot, cst, hpc, batch, ri>>
vars == <<mvars, xvars>>

M == INSTANCE PongMain
X == INSTANCE PongServer WITH Modes <- ClientModes, mode <- cmode,
                              cpc <- xpc, spc <- hpc

Init == M!Init /\ X!Init

\* main, the server's accept loop, signals and the client's connect.
Processes == /\ \/ M!MainStep \/ M!ServerStep \/ M!Connect
                \/ M!Deliver \/ M!UserStop
             /\ UNCHANGED xvars

\* run_latency_client or run_throughput_client on the connected socket.
ClientExchange == cpc = "session" /\ X!ClientStep /\ UNCHANGED mvars

\* handle_client, in the process forked for the accepted connection.
Handler == accepted /\ X!ServerStep /\ UNCHANGED mvars

\* run_client after the exchange: exit(EXIT_SUCCESS) after xcm_close, or
\* exit(EXIT_FAILURE) where the receive loop found a bad message.
ClientExit ==
    /\ cpc = "session" /\ xpc = "done"
    /\ cpc' = "exited"
    /\ client_st' = IF cst = "success" THEN 0 ELSE 1
    /\ UNCHANGED <<mode, mpc, spc, flag, sig, accepted, server_st, junk,
                   mexit, xvars>>

Terminated == mexit # M!NoStatus /\ (accepted => hpc = "exit")
              /\ UNCHANGED vars

Next == Processes \/ ClientExchange \/ Handler \/ ClientExit \/ Terminated

Spec == Init /\ [][Next]_vars

\* Every process is weakly fair (PongMain, PongServer); a signal sent is
\* delivered.  The client's connect is fair only where it succeeds: with
\* no server listening run_client may retry ECONNREFUSED forever.
FairSpec == /\ Spec
            /\ WF_vars(M!MainStep /\ UNCHANGED xvars)
            /\ WF_vars(M!ServerStep /\ UNCHANGED xvars)
            /\ WF_vars(M!ConnectAccepted /\ UNCHANGED xvars)
            /\ WF_vars(M!Deliver /\ UNCHANGED xvars)
            /\ WF_vars(ClientExchange) /\ WF_vars(Handler)
            /\ WF_vars(ClientExit)

-----------------------------------------------------------------------------

TypeOK == M!TypeOK /\ X!TypeOK

\* In loopback mode main's exit status is a failure exactly when the
\* client's exchange or the server failed.
LoopbackExitStatus == M!LoopbackExitStatus

\* Every receive of the client's batches gets a reflected message and
\* query_cpu the CPU usage (PongServer).
ClientSeesOwnReplies == X!ClientSeesOwnReplies

\* A client that tries to connect while the server listens finishes: it
\* exits, and the handler forked for its connection exits too, on the
\* TERM_REQ the client sends last.  Batches larger than the server's
\* MAX_SERVER_BATCH are answered in parts, and a partial batch is
\* answered when the next read finds nothing (EAGAIN).
ExchangeCompletes ==
    (cpc = "connect" /\ M!Listening)
      ~> (cpc = "exited" /\ (accepted => hpc = "exit"))

=============================================================================
