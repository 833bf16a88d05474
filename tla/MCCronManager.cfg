SPECIFICATION FairSpec
CONSTANTS
  Runs = {r1, r2}
  Edits = {e1}
  First = First
  None = None
  MaxCap = 2
  Limit = 2
INVARIANTS TypeOK HistoryComplete LimitBounded RunningIsTrue
PROPERTIES AllEnds
CHECK_DEADLOCK FALSE
