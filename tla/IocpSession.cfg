CONSTANTS
  SESSION_MAX = 1
  SEND_MESSAGE_MAXCOUNT = 1
  Workers = {w1, w2}
  Callers = {c1}
  Main = main
  WsaErrors = {"reset", "other"}
  EarlyAccept = FALSE
  MaxSeq = 1
  MaxCalls = 2
SPECIFICATION Spec
INVARIANTS RefsCounted ReleasedQuiet OneOwner SendsOrderly SessionIdsHold
PROPERTY ContractSpec
CHECK_DEADLOCK FALSE
