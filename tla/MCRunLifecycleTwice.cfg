SPECIFICATION Spec
CONSTANTS
  message = message
  cancel = cancel
  Command = {message, cancel}
  KindOf <- MCKindOf
  write = write
  read1 = read1
  read2 = read2
  Call = {write}
  Shared = {}
  MaxSteps = 2
  MaxRevivals = 1
  MaxSteers = 1
INVARIANT OneTerminalEvent
CHECK_DEADLOCK FALSE
