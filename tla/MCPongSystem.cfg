CONSTANTS
  Modes = {"loopback", "server"}
  CreateMayFail = TRUE
  ClientModes = {"throughput", "latency"}
  NumRt = 4
  BatchSize = 3
  MaxServerBatch = 2
  MsgSize = 100
  Cap = 1
SPECIFICATION FairSpec
INVARIANT TypeOK
INVARIANT LoopbackExitStatus
INVARIANT ClientSeesOwnReplies
PROPERTY ExchangeCompletes
\* The lost SIGHUP (MCPongMainRace.cfg) leaves the server blocked in
\* xcm_accept and main in waitpid: a real hang, not checked as a deadlock
\* here.
CHECK_DEADLOCK FALSE
