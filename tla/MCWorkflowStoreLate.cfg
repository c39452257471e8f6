SPECIFICATION Spec
CONSTANTS
  Writer = {w1, w2}
  None = None
  MaxSlot = 4
  Prompt = FALSE
SYMMETRY MCSymmetry
INVARIANT DoneStays
CHECK_DEADLOCK FALSE
