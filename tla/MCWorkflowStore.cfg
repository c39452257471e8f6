SPECIFICATION Spec
CONSTANTS
  Writer = {w1, w2, w3}
  None = None
  MaxSlot = 4
  Prompt = TRUE
SYMMETRY MCSymmetry
INVARIANTS
  TypeOK
  DoneStays
  StaleMeansTakeover
PROPERTY OneWriterAtATime
CHECK_DEADLOCK FALSE
