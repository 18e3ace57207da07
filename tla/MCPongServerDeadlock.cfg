CONSTANTS
  Modes = {"throughput", "latency"}
  NumRt = 5
  BatchSize = 4
  MaxServerBatch = 2
  MsgSize = 100
  Cap = 1
SPECIFICATION FairSpec
PROPERTY Completes
CHECK_DEADLOCK FALSE
