CONSTANTS
  RecvSize = 7
  QueueSize = 1
  HeaderLen = 2
  BodyLen <- MCBodyLen
  MaxSent = 4
  MaxConn = 2
  MaxFail = 1
SPECIFICATION Spec
INVARIANTS TypeOK StreamKept NoCrash
PROPERTIES Delivered LoginRetried
CHECK_DEADLOCK FALSE
