SPECIFICATION FairSpec
CONSTANTS
  root = root
  child = child
  grandchild = grandchild
  Owner = {root, child, grandchild}
  Request = {r1, r2, r3}
  AncestorLists <- MCAncestorLists
  Ttl = {2}
  Renewals = {TRUE, FALSE}
INVARIANTS
  TypeOK
  WriterIsAlone
  NoWaitOnAncestor
  HeadMustWait
  HandlesAreKnown
PROPERTIES
  GrantsInOrder
  EveryCallSettles
CHECK_DEADLOCK FALSE
