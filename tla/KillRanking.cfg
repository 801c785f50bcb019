CONSTANTS
  Players = {1, 2}
  MAX_TOP_ENTRY = 2
  Leavers = {1}
  MaxKills = 2
  MaxAsks = 1
SPECIFICATION FairSpec
INVARIANTS KillsKept RankingExact
PROPERTY Answered
CHECK_DEADLOCK FALSE
