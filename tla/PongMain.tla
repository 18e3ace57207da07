------------------------------ MODULE PongMain ------------------------------
(***************************************************************************)
(* xcmpong's processes (src/tools/xcmpong.c: main, run_server, stop_server,*)
(* run_client_handler, run_client).  main forks a server process, a client *)
(* process or both (loopback), waits for the client, sends the server      *)
(* SIGHUP in loopback mode, waits for the server and exits with a status   *)
(* computed from theirs.  The server installs stop_server for SIGINT,     *)
(* SIGHUP and SIGTERM without SA_RESTART, creates its socket and accepts  *)
(* connections until server_should_exit is set, forking a handler for     *)
(* each.  The client connects, retrying on ECONNREFUSED, runs its         *)
(* exchange (PongServer) and exits.                                       *)
(*                                                                         *)
(* A process's exit status is the WEXITSTATUS main reads: 0 or 1            *)
(* (EXIT_FAILURE, also ut_die); a process killed by a signal reads as 0.   *)
(* An uninitialised int read by main is any value the stack held: 0 or    *)
(* not.                                                                    *)
(***************************************************************************)
EXTENDS Naturals

CONSTANTS Modes,          \* what main runs: "loopback", "client", "server"
          CreateMayFail   \* xcm_server_a may fail (address in use, ...)

ASSUME /\ Modes \subseteq {"loopback", "client", "server"} /\ Modes # {}
       /\ CreateMayFail \in BOOLEAN

NoStatus == 2             \* not exited (outside WEXITSTATUS's 0..255 use)

VARIABLES mode,
          mpc,            \* main: "fork", "wait_client", "kill", "wait_server", "exit"
          spc,            \* server: "none", "init", "create", "check", "accept",
                          \* "blocked" (in xcm_accept), "exited"
          flag,           \* server_should_exit
          sig,            \* a signal sent to the server, not yet delivered
          cpc,            \* client: "none", "connect", "session", "exited"
          accepted,       \* the client's connection has been accepted
          server_st,      \* WEXITSTATUS(server_st), or NoStatus
          client_st,      \* WEXITSTATUS(client_st), or NoStatus
          junk,           \* [who |-> value an uninitialised status holds]
          mexit           \* main's exit status, or NoStatus

vars == <<mode, mpc, spc, flag, sig, cpc, accepted, server_st, client_st,
          junk, mexit>>

RunsClient == mode \in {"loopback", "client"}
RunsServer == mode \in {"loopback", "server"}

\* The server's socket exists: after xcm_server_a, until it exits.
Listening == spc \in {"check", "accept", "blocked"}

TypeOK == /\ mode \in Modes
          /\ mpc \in {"fork", "wait_client", "kill", "wait_server", "exit"}
          /\ spc \in {"none", "init", "create", "check", "accept", "blocked",
                     "exited"}
          /\ flag \in BOOLEAN /\ sig \in BOOLEAN
          /\ cpc \in {"none", "connect", "session", "exited"}
          /\ accepted \in BOOLEAN
          /\ server_st \in {0, 1, NoStatus} /\ client_st \in {0, 1, NoStatus}
          /\ junk \in [{"server", "client"} -> {0, 1}]
          /\ mexit \in {0, 1, NoStatus}

Init == /\ mode \in Modes
        /\ mpc = "fork" /\ spc = "none" /\ flag = FALSE /\ sig = FALSE
        /\ cpc = "none" /\ accepted = FALSE
        /\ server_st = NoStatus /\ client_st = NoStatus
        /\ junk \in [{"server", "client"} -> {0, 1}]
        /\ mexit = NoStatus

(***************************************************************************)
(* main                                                                    *)
(***************************************************************************)
Fork ==
    /\ mpc = "fork"
    /\ spc' = IF RunsServer THEN "init" ELSE "none"
    /\ cpc' = IF RunsClient THEN "connect" ELSE "none"
    /\ mpc' = IF RunsClient THEN "wait_client" ELSE "wait_server"
    /\ UNCHANGED <<mode, flag, sig, accepted, server_st, client_st, junk, mexit>>

\* waitpid(client_pid) returns; in loopback mode kill(server_pid, SIGHUP).
WaitClient ==
    /\ mpc = "wait_client" /\ cpc = "exited"
    /\ mpc' = IF RunsServer THEN "kill" ELSE "exit"
    /\ UNCHANGED <<mode, spc, flag, sig, cpc, accepted, server_st, client_st,
                   junk, mexit>>

Kill ==
    /\ mpc = "kill"
    /\ sig' = TRUE /\ mpc' = "wait_server"
    /\ UNCHANGED <<mode, spc, flag, cpc, accepted, server_st, client_st,
                   junk, mexit>>

WaitServer ==
    /\ mpc = "wait_server" /\ spc = "exited"
    /\ mpc' = "exit"
    /\ UNCHANGED <<mode, spc, flag, sig, cpc, accepted, server_st, client_st,
                   junk, mexit>>

\* The status main reads for a process it did not wait for.
Read(st, who) == IF st = NoStatus THEN junk[who] ELSE st

MainExit_client_only ==
    /\ mpc = "exit" /\ mexit = NoStatus
    /\ mexit' = IF RunsClient /\ Read(server_st, "server") # 0 THEN 1 ELSE 0
    /\ UNCHANGED <<mode, mpc, spc, flag, sig, cpc, accepted, server_st,
                   client_st, junk>>

\* if ((client && WEXITSTATUS(server_st) != 0) ||
\*     (server && WEXITSTATUS(client_st) != 0)) exit(EXIT_FAILURE);
MainExit ==
    /\ mpc = "exit" /\ mexit = NoStatus
    /\ mexit' = IF \/ RunsClient /\ Read(server_st, "server") # 0
                   \/ RunsServer /\ Read(client_st, "client") # 0
                THEN 1 ELSE 0
    /\ UNCHANGED <<mode, mpc, spc, flag, sig, cpc, accepted, server_st,
                   client_st, junk>>

\* In server-only mode the user stops the server (SIGINT or SIGTERM).
UserStop ==
    /\ mode = "server" /\ spc # "exited" /\ ~sig
    /\ sig' = TRUE
    /\ UNCHANGED <<mode, mpc, spc, flag, cpc, accepted, server_st, client_st,
                   junk, mexit>>

(***************************************************************************)
(* run_server                                                              *)
(***************************************************************************)
\* The three sigaction calls.
InstallHandler ==
    /\ spc = "init" /\ spc' = "create"
    /\ UNCHANGED <<mode, mpc, flag, sig, cpc, accepted, server_st, client_st,
                   junk, mexit>>

\* xcm_server_a; on failure ut_die.
Create ==
    /\ spc = "create"
    /\ \/ spc' = "check" /\ UNCHANGED server_st
       \/ CreateMayFail /\ spc' = "exited" /\ server_st' = 1
    /\ UNCHANGED <<mode, mpc, flag, sig, cpc, accepted, client_st, junk, mexit>>

\* while (!server_should_exit): the loop test; on exit xcm_close and
\* exit(EXIT_SUCCESS).
Check ==
    /\ spc = "check"
    /\ IF flag THEN spc' = "exited" /\ server_st' = 0
               ELSE spc' = "accept" /\ UNCHANGED server_st
    /\ UNCHANGED <<mode, mpc, flag, sig, cpc, accepted, client_st, junk, mexit>>

\* xcm_accept: returns a queued connection, for which run_client_handler
\* forks a handler and the parent calls xcm_cleanup, or blocks until one
\* arrives or a signal interrupts it (EINTR).
Accept ==
    /\ spc \in {"accept", "blocked"}
    /\ cpc = "session" /\ ~accepted
    /\ accepted' = TRUE /\ spc' = "check"
    /\ UNCHANGED <<mode, mpc, flag, sig, cpc, server_st, client_st, junk, mexit>>

Block ==
    /\ spc = "accept"
    /\ ~(cpc = "session" /\ ~accepted)
    /\ spc' = "blocked"
    /\ UNCHANGED <<mode, mpc, flag, sig, cpc, accepted, server_st, client_st,
                   junk, mexit>>

(***************************************************************************)
(* Delivery of a signal to the server process.  Before sigaction it ends  *)
(* the process (the default action); after, stop_server sets             *)
(* server_should_exit, and a blocked xcm_accept returns with EINTR.       *)
(***************************************************************************)
Deliver ==
    /\ sig /\ sig' = FALSE
    /\ \/ spc = "init" /\ spc' = "exited" /\ server_st' = 0
          /\ UNCHANGED flag
       \/ spc \in {"create", "check", "accept"} /\ flag' = TRUE
          /\ UNCHANGED <<spc, server_st>>
       \/ spc = "blocked" /\ flag' = TRUE /\ spc' = "check"
          /\ UNCHANGED server_st
       \/ spc \in {"none", "exited"} /\ UNCHANGED <<spc, flag, server_st>>
    /\ UNCHANGED <<mode, mpc, cpc, accepted, client_st, junk, mexit>>

(***************************************************************************)
(* run_client.  In client-only mode the server is another program, which  *)
(* listens and accepts.  With no socket at the address xcm_connect_a      *)
(* fails with ECONNREFUSED (the client sleeps and retries: no step) or    *)
(* with another errno (ut_die), depending on the transport.               *)
(***************************************************************************)
Connect ==
    /\ cpc = "connect"
    /\ \/ (Listening \/ mode = "client") /\ cpc' = "session"
          /\ accepted' = (mode = "client") /\ UNCHANGED client_st
       \/ ~Listening /\ mode # "client" /\ cpc' = "exited" /\ client_st' = 1
          /\ UNCHANGED accepted
    /\ UNCHANGED <<mode, mpc, spc, flag, sig, server_st, junk, mexit>>

\* A connect that reaches a listening server.  With nobody listening the
\* loop may retry forever (ECONNREFUSED): no fairness forces its ut_die.
ConnectAccepted == Connect /\ cpc' = "session"

\* The exchange with the handler (PongServer), xcm_close and exit; or an
\* error the client reports with exit(EXIT_FAILURE) or ut_die.
Session ==
    /\ cpc = "session" /\ accepted
    /\ cpc' = "exited" /\ client_st' \in {0, 1}
    /\ UNCHANGED <<mode, mpc, spc, flag, sig, accepted, server_st, junk, mexit>>

Terminated == mexit # NoStatus /\ UNCHANGED vars

MainStep == Fork \/ WaitClient \/ Kill \/ WaitServer \/ MainExit
ServerStep == InstallHandler \/ Create \/ Check \/ Accept \/ Block
ClientStep == Connect \/ Session

Next == MainStep \/ ServerStep \/ ClientStep \/ Deliver \/ UserStop
        \/ Terminated

Spec == Init /\ [][Next]_vars

\* Every process runs while it is not blocked, and a signal sent is
\* delivered; the client's connect loop makes progress only while the
\* server listens.  The user need not stop a stand-alone server.
FairSpec == /\ Spec
            /\ WF_vars(MainStep) /\ WF_vars(ServerStep)
            /\ WF_vars(ConnectAccepted) /\ WF_vars(Session)
            /\ WF_vars(Deliver)

-----------------------------------------------------------------------------

\* main exits with failure exactly when a process it ran, client or server,
\* exited with a non-zero status: the status it computes from waitpid's
\* results reads only the processes it started and waited for.
ExitStatusReflectsChildren ==
    mexit # NoStatus =>
        ((mexit # 0) <=> \/ RunsClient /\ client_st # 0
                         \/ RunsServer /\ server_st # 0)

\* The same in loopback mode, the default, where main has waited for both.
LoopbackExitStatus == mode = "loopback" => ExitStatusReflectsChildren

\* In loopback mode main ends: the client finishes, the SIGHUP main sends
\* stops the server's accept loop, and both waitpid calls return.
MainTerminates == <>(mexit # NoStatus)

=============================================================================
