----------------------------- MODULE PongServer -----------------------------
(***************************************************************************)
(* One xcmpong client and the server process that handles its connection  *)
(* (src/tools/xcmpong.c: handle_client, run_throughput_client,            *)
(* run_latency_client, query_cpu, send_term).  The connection is modelled *)
(* at the level of messages: two FIFO queues of at most Cap messages, one *)
(* per direction.  For messaging transports that is what msend/mreceive   *)
(* pass through to XCM; for byte streams PongFraming shows that bsend and *)
(* breceive implement such a channel (PongChannel).  A call that would    *)
(* fail with EAGAIN, or block, is the caller waiting: no step.            *)
(*                                                                         *)
(* A message is its request type (REFLECT_REQ, CPU_USAGE_REQ, TERM_REQ);  *)
(* a response is "reflect" (the request echoed, MsgSize bytes) or "cpu"   *)
(* (sizeof(cpu_ns) bytes).  I/O errors, which every caller turns into     *)
(* ut_die, are not modelled.                                              *)
(***************************************************************************)
EXTENDS Naturals, Sequences, FiniteSetsExt

CONSTANTS Modes,          \* client modes run: "throughput", "latency"
          NumRt,          \* -n: round trips
          BatchSize,      \* -b: messages per round trip
          MaxServerBatch, \* MAX_SERVER_BATCH
          MsgSize,        \* -m: message size
          Cap             \* messages a direction of the connection holds

ASSUME /\ Modes \subseteq {"throughput", "latency"} /\ Modes # {}
       /\ NumRt \in Nat \ {0} /\ BatchSize \in Nat \ {0}
       /\ MaxServerBatch \in Nat \ {0} /\ Cap \in Nat \ {0}

CpuLen == 8               \* sizeof(uint64_t cpu_ns)

RespLen(r) == IF r = "reflect" THEN MsgSize ELSE CpuLen

VARIABLES mode,           \* the client's mode
          toSrv,          \* requests in the connection, oldest first
          toCli,          \* responses in the connection, oldest first
          cpc,            \* where the client is
          left,           \* round trips left (num_rt - rt for latency)
          i,              \* the client's i: messages of this batch done
          cpuGot,         \* what query_cpu received, or "none"
          cst,            \* the client's exit: "running", "success", "failure"
          spc,            \* where the server is: "recv", "reply", "exit"
          batch,          \* handle_client's requests[0..num-1]
          ri              \* handle_client's i: the request being answered

vars == <<mode, toSrv, toCli, cpc, left, i, cpuGot, cst, spc, batch, ri>>

Client == <<mode, cpc, left, i, cpuGot, cst>>
Server == <<spc, batch, ri>>

Reqs == {"reflect", "cpu", "term"}

TypeOK == /\ mode \in Modes
          /\ toSrv \in Seq(Reqs) /\ Len(toSrv) <= Cap
          /\ toCli \in Seq({"reflect", "cpu"}) /\ Len(toCli) <= Cap
          /\ cpc \in {"send", "wait", "recv", "cpu_send", "cpu_recv",
                      "term", "close", "done"}
          /\ left \in 0..NumRt /\ i \in 0..BatchSize - 1
          /\ cpuGot \in {"none", "reflect", "cpu"}
          /\ cst \in {"running", "success", "failure"}
          /\ spc \in {"recv", "reply", "exit"}
          /\ batch \in Seq(Reqs) /\ Len(batch) <= MaxServerBatch
          /\ ri \in 0..MaxServerBatch

Init == /\ mode \in Modes
        /\ toSrv = <<>> /\ toCli = <<>>
        /\ cpc = "send" /\ left = NumRt /\ i = 0
        /\ cpuGot = "none" /\ cst = "running"
        /\ spc = "recv" /\ batch = <<>> /\ ri = 0

(***************************************************************************)
(* The client.  this_batch is UT_MIN(left, batch_size) for the throughput *)
(* client; the latency client sends batch_size messages every round.      *)
(***************************************************************************)
ThisBatch == IF mode = "throughput" THEN Min({left, BatchSize}) ELSE BatchSize

\* What a finished batch takes off left: run_throughput_client counts
\* messages (left -= this_batch), run_latency_client rounds (rt++).
Done == IF mode = "throughput" THEN ThisBatch ELSE 1

\* Send one REFLECT_REQ of the batch (EAGAIN, or a blocking send: wait).
\* After the batch the throughput client calls socket_wait for readability;
\* the latency client goes straight to its blocking receives.
ClientSend ==
    /\ cpc = "send" /\ Len(toSrv) < Cap
    /\ toSrv' = Append(toSrv, "reflect")
    /\ IF i + 1 = ThisBatch
         THEN i' = 0 /\ cpc' = IF mode = "throughput" THEN "wait" ELSE "recv"
         ELSE i' = i + 1 /\ UNCHANGED cpc
    /\ UNCHANGED <<mode, toCli, left, cpuGot, cst, Server>>

\* socket_wait(epoll_fd, -1) of run_throughput_client: until readable.
ClientWait ==
    /\ cpc = "wait" /\ toCli # <<>>
    /\ cpc' = "recv"
    /\ UNCHANGED <<mode, toSrv, toCli, left, i, cpuGot, cst, Server>>

\* After the last round the throughput client queries the server's CPU
\* usage; the latency client sends TERM_REQ.
AfterRounds == IF mode = "throughput" THEN "cpu_send" ELSE "term"

\* One receive of the batch: a response whose length is not msg_size makes
\* the client exit with failure ("Invalid message length").
ClientRecv ==
    /\ cpc = "recv" /\ toCli # <<>>
    /\ toCli' = Tail(toCli)
    /\ IF RespLen(Head(toCli)) # MsgSize
         THEN cpc' = "done" /\ cst' = "failure" /\ UNCHANGED <<left, i>>
         ELSE IF i + 1 = ThisBatch
           THEN /\ i' = 0 /\ left' = left - Done
                /\ cpc' = IF left - Done > 0 THEN "send" ELSE AfterRounds
                /\ UNCHANGED cst
           ELSE i' = i + 1 /\ UNCHANGED <<cpc, left, cst>>
    /\ UNCHANGED <<mode, toSrv, cpuGot, Server>>

\* query_cpu: a blocking send of CPU_USAGE_REQ, then a blocking receive of
\* sizeof(n_ns) bytes whose length is not checked.
QueryCpuSend ==
    /\ cpc = "cpu_send" /\ Len(toSrv) < Cap
    /\ toSrv' = Append(toSrv, "cpu") /\ cpc' = "cpu_recv"
    /\ UNCHANGED <<mode, toCli, left, i, cpuGot, cst, Server>>

QueryCpuRecv ==
    /\ cpc = "cpu_recv" /\ toCli # <<>>
    /\ cpuGot' = Head(toCli) /\ toCli' = Tail(toCli) /\ cpc' = "term"
    /\ UNCHANGED <<mode, toSrv, left, i, cst, Server>>

\* send_term, then run_client's xcm_close and exit(EXIT_SUCCESS).
SendTerm ==
    /\ cpc = "term" /\ Len(toSrv) < Cap
    /\ toSrv' = Append(toSrv, "term") /\ cpc' = "close"
    /\ UNCHANGED <<mode, toCli, left, i, cpuGot, cst, Server>>

ClientClose ==
    /\ cpc = "close"
    /\ cpc' = "done" /\ cst' = "success"
    /\ UNCHANGED <<mode, toSrv, toCli, left, i, cpuGot, Server>>

(***************************************************************************)
(* The server.  handle_client reads requests non-blocking into requests[] *)
(* until MAX_SERVER_BATCH are read, or a read fails with EAGAIN after at  *)
(* least one; with none read it waits in socket_wait.  It then answers    *)
(* them in order, each with a send that waits out EAGAIN.                 *)
(***************************************************************************)
ServerRecv_unbounded ==
    /\ spc = "recv" /\ toSrv # <<>>
    /\ batch' = Append(batch, Head(toSrv)) /\ toSrv' = Tail(toSrv)
    /\ IF Len(batch) + 1 >= MaxServerBatch + 1
         THEN spc' = "reply" /\ ri' = 1 ELSE UNCHANGED <<spc, ri>>
    /\ UNCHANGED <<toCli, Client>>

ServerRecv ==
    /\ spc = "recv" /\ toSrv # <<>>
    /\ batch' = Append(batch, Head(toSrv)) /\ toSrv' = Tail(toSrv)
    /\ IF Len(batch) + 1 = MaxServerBatch
         THEN spc' = "reply" /\ ri' = 1 ELSE UNCHANGED <<spc, ri>>
    /\ UNCHANGED <<toCli, Client>>

\* r_rc < 0 with errno == EAGAIN and num > 0: break and answer.
ServerBatchEnd_never == FALSE

ServerBatchEnd ==
    /\ spc = "recv" /\ toSrv = <<>> /\ batch # <<>>
    /\ spc' = "reply" /\ ri' = 1
    /\ UNCHANGED <<toSrv, toCli, batch, Client>>

ServerReply_fallthrough ==
    /\ spc = "reply"
    /\ LET req == batch[ri] IN
       \/ /\ req = "term"
          /\ spc' = "exit"
          /\ UNCHANGED <<toCli, batch, ri>>
       \/ /\ req # "term" /\ Len(toCli) < Cap
          /\ toCli' = Append(toCli, "cpu")
          /\ IF ri = Len(batch)
               THEN spc' = "recv" /\ batch' = <<>> /\ ri' = 0
               ELSE ri' = ri + 1 /\ UNCHANGED <<spc, batch>>
    /\ UNCHANGED <<toSrv, Client>>


\* The response to one request: REFLECT_REQ is echoed, CPU_USAGE_REQ gets
\* the CPU time, TERM_REQ closes the connection and ends the process.
ServerReply ==
    /\ spc = "reply"
    /\ LET req == batch[ri] IN
       \/ /\ req = "term"
          /\ spc' = "exit"
          /\ UNCHANGED <<toCli, batch, ri>>
       \/ /\ req # "term" /\ Len(toCli) < Cap
          /\ toCli' = Append(toCli, IF req = "reflect" THEN "reflect" ELSE "cpu")
          /\ IF ri = Len(batch)
               THEN spc' = "recv" /\ batch' = <<>> /\ ri' = 0
               ELSE ri' = ri + 1 /\ UNCHANGED <<spc, batch>>
    /\ UNCHANGED <<toSrv, Client>>

\* The client process and the handler process have both exited.
Terminated == cpc = "done" /\ spc = "exit" /\ UNCHANGED vars

ClientStep == ClientSend \/ ClientWait \/ ClientRecv \/ QueryCpuSend
              \/ QueryCpuRecv \/ SendTerm \/ ClientClose

ServerStep == ServerRecv \/ ServerBatchEnd \/ ServerReply

Next == ClientStep \/ ServerStep \/ Terminated

Spec == Init /\ [][Next]_vars

(***************************************************************************)
(* Each process runs whenever it is not waiting: its waits are epoll_wait *)
(* or blocking calls on a level-triggered readiness, so a step that stays *)
(* enabled is taken.                                                       *)
(***************************************************************************)
FairSpec == Spec /\ WF_vars(ClientStep) /\ WF_vars(ServerStep)

-----------------------------------------------------------------------------

\* The client reads, in every receive, the response to the oldest request
\* it has not yet had answered: no receive of a batch sees a response of the
\* wrong length, and query_cpu receives the CPU usage and not a reflected
\* message, whatever the sizes of the client's and the server's batches.
ClientSeesOwnReplies == cst # "failure" /\ cpuGot \in {"none", "cpu"}

\* The exchange finishes: the client sends every batch, gets every reply,
\* sends TERM_REQ and exits, and the handler process exits on TERM_REQ.
Completes == <>(cpc = "done" /\ spc = "exit")

=============================================================================
