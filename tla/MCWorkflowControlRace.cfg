SPECIFICATION Spec
CONSTANTS
  Attempt <- MCAttempt
  KeyOf <- MCKeyOf
  KindOf <- MCKindOf
  LiveCall = {timer, connection}
  OtherCall = {h1}
  MaxClaims = 1
  MaxCrashes = 1
SYMMETRY MCSymmetry
INVARIANTS
  AppliedOnce
  AppliedIsTrue
PROPERTIES
  OutcomeStays
CHECK_DEADLOCK FALSE
