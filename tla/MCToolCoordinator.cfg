SPECIFICATION FairSpec
CONSTANTS
  c1 = c1
  i1 = i1
  Calls = {c1}
  Ids = {i1}
  idOf <- MCIdOf
  None = None
  Asking = Asking
  End = End
  MaxChunks = 2
  MaxAsks = 2
INVARIANTS TypeOK Delivered
PROPERTIES CallsEnd
CHECK_DEADLOCK FALSE
