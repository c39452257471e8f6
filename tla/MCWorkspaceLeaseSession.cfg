SPECIFICATION Spec
CONSTANTS
  ours = ours
  other = other
  root = root
  Owner = {ours, other, root}
  Request <- MCRequest
  Ttl = {1}
  Child = {ours, other}
  Root = {root}
  Ancestors <- MCAncestors
  MaxEpoch = 3
  NoEpoch = NoEpoch
INVARIANTS
  TypeOK
  WriterWorksAlone
  RequestsOfCalls
  FreshWritesUnderLease
CHECK_DEADLOCK FALSE
