CONSTANTS
  SESSION_MAX = 1
  SEND_MESSAGE_MAXCOUNT = 1
  Workers = {w1, w2}
  Callers = {c1}
  Main = main
  WsaErrors = {"reset"}
  EarlyAccept = FALSE
  MaxSeq = 1
  MaxCalls = 1
SPECIFICATION FairSpec
PROPERTIES DeadIsReleased StopReturns
CHECK_DEADLOCK FALSE
