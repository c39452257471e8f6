SPECIFICATION FairSpec
CONSTANTS
  message = message
  cancel = cancel
  Command = {message, cancel}
  KindOf <- MCKindOf
  write = write
  read1 = read1
  read2 = read2
  Call = {write, read1, read2}
  Shared = {read1, read2}
  MaxSteps = 2
  MaxRevivals = 1
  MaxSteers = 1
INVARIANTS
  TypeOK
  EndsOnce
  MessagesSeen
  TurnsArePaid
PROPERTIES
  NothingStartsLate
  Heard
CHECK_DEADLOCK FALSE
