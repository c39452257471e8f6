SPECIFICATION FairSpec
CONSTANTS
  Attempt <- MCAttempt
  KeyOf <- MCKeyOf
  KindOf <- MCKindOf
  LiveCall = {timer}
  OtherCall = {h1}
  MaxClaims = 1
  MaxCrashes = 1
INVARIANTS
  TypeOK
  AcceptedIsStored
PROPERTIES
  CommandsServed
CHECK_DEADLOCK FALSE
