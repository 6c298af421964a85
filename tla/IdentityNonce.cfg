SPECIFICATION Spec
CONSTANTS
  Sessions = {s1}
  Identities = {me, other}
  MaxMessages = 3
  None = none
PROPERTIES
  NonceSignerVerified
CHECK_DEADLOCK FALSE
