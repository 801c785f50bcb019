CONSTANTS
  HeaderLen = 2
  Lens = {0, 1, 3}
  SendSize = 7
  BotRecvSize = 6
  RecvSize = 6
  MessageSize = 5
  FixedLen = 1
  RECORD_SIZE = 1
  SEND_MESSAGE_MAXCOUNT = 1
  MaxSent = 2
  MaxRecords = 3
  MaxBatches = 1
SPECIFICATION Spec
INVARIANTS StreamsKept 
PROPERTY Delivered
CHECK_DEADLOCK FALSE
