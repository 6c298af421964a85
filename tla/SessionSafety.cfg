SPECIFICATION Spec
CONSTANTS
  c1 = c1
  c2 = c2
  m1 = m1
  m2 = m2
  None = None
  Server = Server
  CleanAbove = 1
  CleanBelow = 1
  Conns <- MCDirect
  RelayConns <- MCNone
  MsgIDs <- MCIDs
  RawTotals <- MCTotals
  MayDrop = TRUE
  SlowPeers = TRUE
INVARIANT TypeOK
INVARIANT SessionInv
INVARIANT KeyAgreement
INVARIANT NoCrossTalk
INVARIANT IdentityNeverAccepted
PROPERTY KeyExchangeSpec
CHECK_DEADLOCK FALSE
