CONSTANTS
  Msgs <- MCMsgs
  Bytes = {1, 2}
  Capacity = 2
  StreamCap = 5
  NoMsg = NoMsg
SPECIFICATION FairSpec
INVARIANT TypeOK
PROPERTY ChannelRefined
PROPERTY ChannelProgress
\* A receiver that hangs shows up as a violation of ChannelProgress rather
\* than as a deadlock.
CHECK_DEADLOCK FALSE
