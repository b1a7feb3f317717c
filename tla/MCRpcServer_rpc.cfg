SPECIFICATION FairSpec
CONSTANTS
  Conns = {1}
  Executors = {11, 12}
  Kinds = {"badheader", "invalid", "noservice", "noop", "read", "write"}
  BodyLength <- MCBodyLength
  HeaderSize = 2
  IoBlock = 3
  TimeOut = TRUE
  ReplyLengths = {4, 6}
  send_max_msg_size = 5
  MaxRequests = 2
INVARIANTS FramedInOrder WorkingReads EveryRequestOnce
PROPERTIES ClosedIsReleased Answered
CHECK_DEADLOCK FALSE
