CONSTANTS
  SESSION_MAX = 1
  SEND_MESSAGE_MAXCOUNT = 1
  Workers = {w1, w2}
  Callers = {c1}
  Main = main
  WsaErrors = {"reset"}
  EarlyAccept = TRUE
  MaxSeq = 1
  MaxCalls = 1
SPECIFICATION Spec
INVARIANT ReleasedQuiet
CHECK_DEADLOCK FALSE
