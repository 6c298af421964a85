SPECIFICATION FairSpec
CONSTANTS
  Sessions = {s1}
  Identities = {me, other}
  MaxMessages = 3
  None = none
INVARIANTS
  TypeOK
  OpensOnlyToTarget
  AcceptorTellsLast
PROPERTIES
  AuthenticationSpec
  IdentityPhaseReturns
CHECK_DEADLOCK FALSE
