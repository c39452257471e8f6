SPECIFICATION FairSpec
CONSTANTS
  Lane = {a, b, x}
  Command = {c1, c2, c3, c4, c5}
  c1 = c1
  c2 = c2
  c3 = c3
  c4 = c4
  c5 = c5
  k = k
  Key = {k}
  KeyOf <- MCKeyOf
  MaxActive = 2
  MaxPerLane = 2
  MaxQueued = 3
  None = None
CONSTRAINT InOrder
VIEW MCView
INVARIANTS
  TypeOK
  OutcomeMatchesLane
  CancelReachesHandle
PROPERTIES
  LanesAreQueues
  EveryCommandLeaves
CHECK_DEADLOCK FALSE
