SPECIFICATION FairOutputSpec
CONSTANTS
  Reader = {r1, r2}
  MaxChunks = 3
INVARIANTS
  OutputTypeOK
  NothingSkipped
PROPERTY ReadersEnd
CHECK_DEADLOCK FALSE
