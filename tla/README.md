# TLA+ models of the XCM control channel

This directory holds TLA+ models of `src/libxcm/ctl.c`, the control channel that an XCM socket embeds. It also holds the TLC configurations that check the models. Of `src/tools/xcmpong.c`, the benchmark, the byte-stream framing, the exchange between a client and its server handler, and the processes `main` forks are modelled, and then composed into one model of the whole program. Its command-line parsing is modelled too.

## 1. Inventory

### Components

| Component | Source | State it keeps | Operations |
|---|---|---|---|
| Control endpoint setup | `ctl.c` `create_ux`, `ctl_create` (46–111) | listening fd, filesystem path | stat dir, derive path, unlink stale path, socket/bind/listen, unwind on failure, register listener |
| Readiness registration set | `epoll_reg_set.c` (not in `src/`) | fd → interest | add, mod, del |
| Client pool | `struct ctl`, `accept_client`, `remove_client` (35–44, 113–132, 290–316) | `clients[MAX_CLIENTS]`, `num_clients` | accept at most 2 clients, swap-remove, (de)register the listener at capacity |
| Per-client state machine | `process_client` (230–288) | `is_response_pending`, `pending_response` | recv one request (EAGAIN, EOF, short, unknown tag) → stage the response and arm EPOLLOUT; send (EAGAIN, EPIPE) → arm EPOLLIN |
| Request handlers | `process_get_attr`, `add_attr`, `process_get_all_attr` (160–228) | the response buffer | GetAttr with key redaction, GetAllAttr over the attribute table's visitor, with two `ut_assert`s |
| Processing and teardown | `ctl_process`, `ctl_destroy` (134–158, 318–335) | (the above) | scan every client and restart recursively after a removal, then accept one client; destroy as owner or non-owner |
| Wire protocol | `ctl_proto.h` (not in `src/`) | fixed-size tagged union | — |
| Attribute table | `xcm_attr_get`, `xcm_attr_get_all` (external) | name → typed value | get, visit all |
| xcmpong argument parsing | `get_prefix`, `parse_int`, `parse_float`, `main` (671–803) | the options so far | getopt loop, k/M/G prefixes in `int`, mode and usage checks |
| xcmpong benchmark | `src/tools/xcmpong.c` | per-process sockets, batches | length-prefixed framing over byte streams (`bsend`, `breceive`, `receive_chunk`), a batching reflect server, throughput and latency clients |

### How they interact

The owning socket calls `ctl_create` once. It then calls `ctl_process` whenever its epoll instance reports readiness, and `ctl_destroy` when it is closed.

`ctl_process` is single-threaded, but the control peers are other processes. Their connects, sends, reads and closes interleave with every syscall the channel makes. The listener and every client fd are registered in the socket's epoll instance through the registration set. Which fds are registered decides when the owner calls `ctl_process` again.

### What is hard

- **Interleavings** of peers with the scan loop.
- **Recursive restart**: after a removal `ctl_process` calls itself. When that returns, the caller carries on with `i++`. A client can therefore be stepped twice, and `accept_client` can run twice in one call.
- **Swap-remove** of slots, which moves a client together with its staged response.
- **Reuse of slots and response buffers**: only `is_response_pending` is reset on accept. The whole buffer, stale bytes included, is sent.
- **The capacity boundary**: the listener must be deregistered exactly while the pool is full.
- **Peer failures**: a peer may close before sending, while a response is pending, or with data queued. A peer may also send a short or unknown message.
- **Transient errors**: send EAGAIN and its retry on EPOLLOUT, and transient accept errors.
- **The two `ut_assert`s in `add_attr`**.
- **Teardown**: destroying while connections are still queued on the listener, and unlinking the path only as owner.

### Properties that make each part correct

- **Registration**: the listener is registered iff the pool has a free slot. Each client is registered for EPOLLOUT iff its response is pending, for EPOLLIN otherwise. Nothing else is registered.
- **Pool**: it holds exactly the connections that were accepted and not yet closed, each once.
- **State machine and handlers**:
  - each peer receives, in order, exactly one correct reply per request;
  - a GetAllAttr reply carries the GetAllAttrCfm tag;
  - the TLS key never reaches the wire;
  - every request is eventually answered;
  - the process aborts only when the attribute table exceeds the static bounds.
- **Setup and teardown**:
  - the listener is open iff the channel is up;
  - after destroy every connection is closed;
  - the path is removed iff the destroyer owns it;
  - a failed create leaves no socket file of its own.
- **Acceptance**: a queued connection is deferred only while the pool is full.

## 2. Modules

| Module | Models | Notes |
|---|---|---|
| `EpollRegSet` | the registration set | spec-modelled (its source is not in `src/`) |
| `Ctl` | all of `ctl.c`, plus the peers and the kernel queues as environment | the core |
| `MCCtl` | constants for TLC (attribute tables, symmetry) | |
| `PongChannel` | what xcmpong's framing promises: a reliable, ordered message channel with a receive capacity | abstract specification |
| `PongFraming` | `bsend`, `receive_chunk` and `breceive` (`xcmpong.c`:172–246) over a bounded byte stream | refines `PongChannel` |
| `MCPongFraming` | the messages sent | |
| `PongServer` | `handle_client` (290–384), the throughput and latency clients (475–623), `query_cpu`, `send_term` | over a message channel of `Cap` messages per direction |
| `MCPongServer` | the client modes and sizes | |
| `PongMain` | `main`'s forks, waits, SIGHUP and exit status (782–830), `run_server` and `stop_server` (395–441), `run_client`'s connect (627–665) | processes and a signal |
| `MCPongMain` | the modes run | |
| `PongSystem` | `PongMain` and `PongServer` composed: `run_client`'s session (656–664) is the exchange, against the handler `run_client_handler` forks (386–393) | |
| `MCPongSystem` | the modes and sizes | |
| `PongArgs` | `main`'s getopt loop and post-loop checks, `get_prefix`, `parse_int`, `parse_float` (671–803) | 32-bit `int` multiplication as `Mul32` |
| `MCPongArgs` | the option arguments, and a check of `Mul32` against integer products | |

### State in `Ctl`

- `ctl` is `struct ctl`. It holds `server_fd`, `clients` (slots of `struct client`, stale contents kept), `num_clients` and the registration set `reg`.
- `stack` holds the frames of the running, possibly recursive, `ctl_process`. A frame is the loop index `i`, then the trailing accept step.
- `life` is `ctl == NULL` or not: "init", "up", "failed" or "destroyed".
- `path` says whether the socket file exists. `owned` records the owner argument of destroy.
- `aborted` records a failed `ut_assert`.
- The environment:
  - `backlog`: the listener's queue;
  - `sside` and `pside`: the two ends of each connection;
  - `toSrv` and `toPeer`: the SOCK_SEQPACKET queues;
  - `asked` and `got`: history of what each peer sent and received.

### Actions in `Ctl`

- `ctl_create` models `create_ux` and `ctl_create`. The step of `create_ux` that fails is chosen nondeterministically among the steps in the constant `EnvFailSteps`. In addition, `bind` fails with EADDRINUSE whenever an entry exists at the path, which `unlink_stale` (line 69) prevents. `Init` lets such a stale entry exist, as left by a crashed process with the same pid.
- `ctl_process` is the call.
- `ScanClient` is one loop iteration: `process_client`, then, on -1, `Fail` (`remove_client` plus the recursive restart).
- `ScanDone` ends the loop.
- `AcceptNone` and `AcceptOk` model `accept_client`: full pool, listener not readable, accept error, or success.
- `ctl_destroy` models destroy, with owner true or false.
- `Connect`, `SendReq`, `Receive` and `Close` are the peers.
- `Stopped` is the stutter once the channel is gone.

### Data abstractions

- A peer's fd is the peer itself. Fd numbers are not reused while a client is pooled.
- Value bytes are reduced to whether they hold the key (`key_in_value`, entry names). Lengths are small integers.
- The attribute table is a constant `AttrLen`: name → value length.
- `xcm_attr_get_all` visits the attributes in every order (`SetToSeqs`). `add_attr` is folded over that order with `FoldLeft`.
- `xcm_attr_get` fails with ENOENT or EOVERFLOW without touching the buffer.

## 3. Runs

| Run | Config | Bounds | Result |
|---|---|---|---|
| `ctl_pool` | `MCCtl.cfg` | 3 peers, 1 request each, pool 2, backlog 2, queue caps 1, names {key, a1, b1} | pass: TypeOK, RegistrationConsistent, PoolMatchesConnections, ResponsesMatchRequests, NoKeyOnWire, DestroyReleasesAll, FailedCreateLeavesNoEntry (about 1.4M states, peer symmetry) |
| `ctl_live` | `MCCtlLive.cfg` | 2 peers, 2 requests each, pool 1, names {key, a1}, no environmental failure of `create_ux` (`EnvFailSteps` empty), `FairSpec` | pass: StaleEntryHarmless, RegistrationConsistent, PoolMatchesConnections, ResponsesMatchRequests, NoKeyOnWire, DestroyReleasesAll, AcceptedRequestAnswered, QueuedConnectionAccepted. Covers pipelining, send EAGAIN, reuse of a client's buffer (about 272k states, under 2 minutes) |
| `ctl_all_attr_type` | `MCCtlAllAttrType.cfg` | 1 peer, 1 request | violation of AllAttrTagged on the first GetAllAttr |
| `pong_framing` | `MCPongFraming.cfg` | messages of 1, 2 and 3 bytes, capacity 2, stream of 5 bytes, `FairSpec` | pass: TypeOK, ChannelRefined, ChannelProgress (201 states) |
| `pong_system` | `MCPongSystem.cfg` | loopback and server-only, socket creation may fail, both client modes, 4 round trips, batch 3, `MAX_SERVER_BATCH` 2, connection of 1 message per direction, `FairSpec` | pass: TypeOK, LoopbackExitStatus, ClientSeesOwnReplies, ExchangeCompletes (about 3.4k states) |
| `pong_deadlock` | `MCPongServerDeadlock.cfg` | batch 4, 5 round trips, `FairSpec` | violation of Completes |
| `pong_sighup_race` | `MCPongMainRace.cfg` | loopback, `FairSpec` | violation of MainTerminates |
| `pong_exit_status` | `MCPongMainStatus.cfg` | client-only and server-only | violation of ExitStatusReflectsChildren |
| `ctl_oversize_value` | `MCCtlOversize.cfg` | 1 peer, value of length 3 > `ValueMax` 2 | violation of NoOversizeCopy |
| `ctl_full_value` | `MCCtlFullValue.cfg` | 1 peer, 2 requests, value of length `ValueMax` | violation of NeverAborts after two GetAllAttr |
| `ctl_full_array` | `MCCtlFullArray.cfg` | `MaxAttrs` 1, one public attribute | violation of NeverAborts |
| `pong_args` | `MCPongArgs.cfg` | up to 2 options, 0 to 2 addresses, arguments "", junk, -1, 0, 1, k, 100k, 3G, 5G | violation of ParsedAsWritten |

### Why the bounds are enough

- Three peers against a pool of two reach the full pool, a queued third connection, removal from a full pool, and a restart that swaps the last slot.
- The liveness run uses a pool of one with two peers, so a second connection is queued and deferred while the pool is full. Liveness with three peers and a pool of two is beyond what TLC finishes in a few minutes. Two pooled clients are covered by the safety runs.
- Two requests per peer with response queues of capacity 1 reach pipelining and send EAGAIN. The pipelined case is checked in `ctl_live`, with a pool of one. A pool of two with two requests per peer is not in any run. It took 2.5M states on its own, and the run budget went to the parsing model. Two pooled clients with one request each remain in `ctl_pool`.
- For the parsing, every pair of options is tried with every argument. The arguments include the prefix without digits, the throughput default written with a prefix, and one value that wraps negative and one that wraps positive with G.
- Stale buffers are reached both across clients (slot reuse) and within one client.
- Every request kind is sent: GetAttr on the key, on a public name and on an unknown name; GetAllAttr; a short message; a message with an unknown tag.
- For the framing, frames of 5 to 7 bytes through a 5-byte stream are split at every position, a read can return the end of one frame with the start of the next, and the sender can close at every point of every frame. The third message exceeds the capacity, so EMSGSIZE is reached. It is not reached when the sender closes first.

- For the exchange, a client batch of 3 against `MAX_SERVER_BATCH` 2 makes the server answer a batch over two rounds, once after the limit and once after EAGAIN. With one message per direction the client must wait for replies in the middle of its batch, which is what keeps the exchange in `pong_system` live. In the deadlock run a batch of 4 exceeds what the two directions hold together (1 + 1 + the server's 2 read requests). Both modes and both last steps (`query_cpu` then TERM_REQ, or TERM_REQ alone) are reached. The message size 100 differs from `sizeof(cpu_ns)` 8, so a CPU response in the place of a reflect is seen.
- For the processes, each mode's forks, the signal in every server position, and a failing socket creation are reached. The junk value of each uninitialised status ranges over 0 and non-0.

### Findings

All three are about `add_attr` (`ctl.c`:198–216).

1. It asserts on the slot's *previous* `value_len` (line 213), not on the new `len`. A value longer than `any_value` is therefore copied instead of aborting, which is a buffer overflow.
2. A legal value that exactly fills `any_value` is stored on the first GetAllAttr. The next GetAllAttr through that buffer then aborts the process.
3. `attrs_len` is incremented before `ut_assert(attrs_len < CTL_PROTO_MAX_ATTRS)` (line 208). A table that exactly fills `attrs[]` therefore aborts.

The spec (4.4, 7) allows an abort only when a bound is exceeded.

Findings 4–6 are about `xcmpong.c`:

4. **Batch deadlock** (`pong_deadlock`). Both clients send a whole batch of `-b` messages before reading a reply. `handle_client` sends each reply and waits on EAGAIN until the client reads. `main` accepts any `-b` of at least 1. Once a batch exceeds what the connection holds in both directions, the client blocks sending and the server blocks replying.
5. **Lost SIGHUP** (`pong_sighup_race`). `stop_server` only sets `server_should_exit`. The signal interrupts `xcm_accept` (EINTR) only when the server is already blocked in it. A SIGHUP delivered after the `while` test (line 427) and before `xcm_accept` blocks leaves the server blocked forever, so `main` hangs in `waitpid` (line 823).
6. **Exit status from the wrong process** (`pong_exit_status`). `main` tests `WEXITSTATUS(server_st)` when it ran the client, and `WEXITSTATUS(client_st)` when it ran the server (lines 826–827). In `-c` or `-s` mode that status is an uninitialised int, and the status of the process actually run is never tested. A failing client can therefore exit 0. In loopback mode the test happens to be right (`pong_system`).

Finding 7 is about `process_get_all_attr` (`ctl.c`:218–228):

7. **A GetAllAttr reply without its tag** (`ctl_all_attr_type`). `process_get_attr` writes `response->type` (lines 190, 193), but `process_get_all_attr` only sets `attrs_len` and lets `add_attr` fill `attrs[]`. The reply is sent with whatever tag the client slot's buffer held: `calloc`'s zero for the first response of a slot, otherwise the GetAttrCfm or GetAttrRej of an earlier request, possibly one of a removed client whose slot was reused. The spec (4.4) says the reply is a GetAllAttrCfm, and a peer decoding by tag misreads the entries. `ctl_proto.h`, and so the value of each tag, is not in `src/`; the model writes calloc's zero as `"none"`, which is a GetAllAttrCfm only if that enumerator happens to be 0. `ResponsesMatchRequests` compares the entries of a GetAllAttr reply, not its tag, so that the passing runs still check everything else about the replies.

Findings 8 and 9 are about xcmpong's options (`pong_args`):

8. **Prefix overflow** (line 699). `parse_int` returns `prefix*value` in `int`, and the range check comes after it. `-n 5G` is accepted and runs 705032704 round trips. `-n 3G` wraps negative and is refused as "must be at least 1". This is the trace TLC reports.
9. **`-p` after `-n`** (line 745). `-p` replaces a round-trip count equal to the throughput default (100000) by `INT_MAX`. So `-n 100k -p` runs indefinitely, while `-p -n 100k` runs 100000. The usage text says `-n` runs that many. TLC reports this trace when the G-suffixed arguments are left out.

### Fairness (`FairSpec`)

- **The owner calls `ctl_process` when a registered fd is ready**: `WF(Ready /\ ctl_process)`. The epoll instance is level-triggered. Calls at other times are allowed but not required.
- **A started `ctl_process` runs to completion**: weak fairness on its steps. It is straight-line code.
- **Accept errors are transient**: strong fairness on `AcceptOk`.
- **A control client reads its responses**: weak fairness on `Receive`. The client protocol is request/response.
- **Framing**: both the receiver's `breceive`/`receive_chunk` steps and the sender's `bsend` steps are weakly fair. Both loop on their calls and wait only for readiness. The sender's close is not fair.
- **xcmpong processes**: the client and the handler (`PongServer`), and `main`, the server and the client (`PongMain`), are each weakly fair. Every wait of theirs is `epoll_wait`, a blocking call or `waitpid`, all level-triggered. A signal sent is delivered (weak fairness on `Deliver`). The user's SIGINT to a stand-alone server is not fair. The liveness runs set `CHECK_DEADLOCK FALSE`, so a hang shows as a violation of the property. `pong_system` does the same, because its server-only mode may legitimately wait for a user who never stops it, and a lost SIGHUP may hang it.
- **`PongSystem`** keeps the fairness of both parts: each process of `PongMain`, the client's exchange, the handler and the client's exit are weakly fair.
- **The client's connect loop** (`xcmpong.c`:640–654) is weakly fair only in its success (`ConnectAccepted`). With nobody listening it retries ECONNREFUSED forever or dies, depending on the transport, so the model forces neither.
- **Peers are otherwise not fair**. A peer may idle forever while connected, so the pool can stay full. That is why QueuedConnectionAccepted allows "the pool is full" as an outcome.

### Mutants

Each property of each passing run has a mutant, listed in PROJECT.json, that TLC must find violated:

- the listener kept registered when the pool is full;
- no compaction on remove;
- the pending flag not reset on accept;
- no `clear_attr`;
- the destroy loop stopping at one client;
- a -1 from `process_client` closing the fd but leaving the slot (with a pool of one, compaction never moves a slot);
- no unlink of a stale path before `bind`;
- no re-arm on remove;
- EPOLLOUT never armed;
- accept without the capacity check;
- breceive's first read asking for more than `sizeof(nlen)`;
- the length decoded little-endian;
- receive_chunk without the `rc == 0` return;
- `handle_client` reading past `MAX_SERVER_BATCH`;
- every response sent as the CPU usage;
- no break on EAGAIN after a partial batch;
- a failed `listen` jumping to `err_close`, past the unlink;
- `main` testing only the server's status.

## 4. Not modelled, and why

- **The errno save/restore (`UT_SAVE_ERRNO`)**: errno is the only state it touches, and no caller-visible behaviour of the channel depends on it.
- **Logging and path derivation**, and xcmpong's `usage` and reports. `run_latency_client`'s average divides by `rt*batch_size` in `int`, which overflows for large `-n` and `-b`. It is listed as a hazard but only changes a printed number.
- **In `PongArgs`**: `strtol`'s `long` result stored into `int` (arguments are kept within `int`), and the precision of `strtof` (an interval is kept as its sign).
- **Aliasing between the union variants of `ctl_proto_msg`**: its layout is not in `src/`. Only `add_attr` writes entry lengths in the model.
- **`msend`/`mreceive`**: they pass calls straight through to XCM. `PongServer` works on messages, and `PongFraming` shows that the byte-stream path implements the same channel.
- **In xcmpong**:
  - argument parsing and usage;
  - the latency, throughput and CPU reports;
  - `socket_sleep` and the `usleep` delays, as timing only;
  - `handle_client`'s exit on a receive of 0, since the client never closes before TERM_REQ;
  - I/O errors that end in `ut_die`, except as a failing exit status in `PongMain`.
- **The ECONNREFUSED retry of `run_client`** (line 652): it can loop forever when the server failed. Whether that errno or another one is returned depends on the transport. The model lets `Connect` either wait or fail. The connect is fair only where it succeeds, so the model does not force the failing exit; `ExchangeCompletes` is stated from a connect attempt while the server listens. No run isolates the hang, which needs a run of its own.
- **A non-owner `ctl_destroy` after `fork`**: its `remove_client` loop calls `epoll_reg_set_del` (line 117) on an epoll instance the process that keeps the socket shares. That matters only to an application that forks after its control channel has pooled clients. The one fork in `src/`, `run_client_handler` (`xcmpong.c`:386–390), forks on a connection fresh from `xcm_accept`, whose control channel has never been processed and holds no clients. Modelled at that point the cleanup issues no `epoll_ctl`, so a property about it would hold by construction.

## 5. Plan

1. **Done: `Ctl`.** It covers the core: pool, state machine, handlers, create/process/destroy, registration, liveness, and the three `add_attr` findings.
2. **`CtlAbstract`.** An abstract specification of the channel as a request/response service per peer. Each accepted peer's request queue is answered in order, and the pool bound holds. `Ctl` refines it through a mapping that hides slots, registration and the stack. The check is `INSTANCE CtlAbstract WITH ...`, with the abstract `Spec` as a PROPERTY.
3. **Done: `PongFraming`.** The byte-stream framing of `xcmpong.c`: `bsend` prefixes a 32-bit big-endian length, and `breceive`/`receive_chunk` reassemble it across partial reads. The model runs over a byte-stream channel that splits writes and reads arbitrarily. It refines a message channel (`PongChannel`), and the length field is checked against the capacity (EMSGSIZE). `htobe32` keeps the 32-bit width.

### The framing model (`PongFraming`)

- `stream` is the transport: a sequence of bytes, at most `StreamCap` of them.
- `sidx` and `sent` are `bsend`'s position: the message, and the bytes of its frame written so far.
- `rpc`, `nlen`, `len` and `chunk` are `breceive`'s position, header bytes, decoded length and message bytes.
- `delivered` and `status` record what `breceive` returned.
- `bsend` is one `xcm_send` of any non-empty part that fits. `breceive` is the first `xcm_receive`, of up to 4 bytes. `receive_chunk` is one read of the rest of the header or of the message. `Close` is the sender going away.
- EAGAIN is modelled as the caller waiting: that step is not enabled.
- The refinement mapping says a send is in progress once part of its frame is written, and complete once `bsend` has returned 0.
- The run does not check deadlock: a hung receiver shows as a violation of ChannelProgress.
4. **Done: `PongServer` and `PongMain`.** See below.
5. **Not done: a fork model.** See "Not modelled": no program in `src/` forks with pooled control clients.
6. **Done: `PongSystem`.** The composition of `PongMain` and `PongServer`. See below.
7. **Done: `PongArgs`.** xcmpong's command line. See below.

### The parsing model (`PongArgs`)

- `cmd` is the command line: its options, as getopt returns them, and the number of addresses. `argv` is what getopt has still to return.
- An option argument is a record: empty, not a number, or an int with a k, M or G suffix.
- `OptFlag`, `OptLatency`, `OptNumber`, `OptInterval` and `OptHelp` are the cases of the switch. `'?'` (an unknown option or a missing argument) has no case and is ignored. `EndOpts` is the code after the loop.
- `Mul32` is `int` multiplication as the build does it, with signed overflow wrapping. It works on four bytes, so that no intermediate value leaves TLC's integer range. `MCPongArgs` checks it against the integer product wherever that product is an `int`, and against wrapped values worked out by hand.
- `ParsedAsWritten` compares the accepted configuration with what the command line wrote. It never computes a product that does not fit, because `Fits` is tested first.

### The composition (`PongSystem`)

- Both modules are instantiated over one set of variables. `PongServer`'s `mode`, `cpc` and `spc` are renamed `cmode`, `xpc` and `hpc`.
- `Processes` is every `PongMain` step except the one-step `Session`. `ClientExchange` is the exchange, while the client process is in its session. `Handler` is `handle_client`, once the server has accepted. `ClientExit` sets the client's exit status from how the exchange ended.
- `ExchangeCompletes`: a client that tries to connect while the server listens exits, and so does the handler forked for it. The composition's fairness gives the connect loop progress only where it succeeds.

### The exchange model (`PongServer`)

- `toSrv` and `toCli` are the two directions of the connection, each holding at most `Cap` messages. A message is its request type, or the response kind.
- The client's state:
  - `cpc` is where the client is: sending a batch, waiting, receiving, in `query_cpu`, sending TERM_REQ, closing;
  - `left` and `i` are its loop counters;
  - `cpuGot` is what `query_cpu` received;
  - `cst` is how it exits.
- The server's state:
  - `spc` is where the server is: receiving, replying, exited;
  - `batch` is `requests[0..num-1]`;
  - `ri` is the request being answered.
- `ServerRecv` is one successful read.
- `ServerBatchEnd` is the EAGAIN break with `num > 0`.
- `ServerReply` is one reply, or the exit on TERM_REQ.

### The process model (`PongMain`)

- `mpc` is `main`'s position. `spc` and `cpc` are the positions of the server and the client.
- `flag` is `server_should_exit`. `sig` is a signal sent but not yet delivered.
- The server's loop test (`Check`) and its entry into `xcm_accept` (`Block`) are separate steps, so a signal can arrive between them.
- `Deliver` models the default action before `sigaction`, and `stop_server` after it. It causes EINTR only in a blocked `xcm_accept`.
- `junk` is the value an uninitialised status variable holds.
