CONSTANTS
  Sessions = {s1, s2}
  Accounts = {a1}
  Positions = {0, 1}
  Origin = 0
  None = None
  CAP = 2
  UNAUTH_MAX = 1
  WORKER_CNT = 2
  QSIZE = 2
  MaxReqs = 2
SPECIFICATION FairSpec
INVARIANTS TypeOK   SavesHold
 
CHECK_DEADLOCK FALSE
