SPECIFICATION Spec
CONSTANTS
  c1 = c1
  c2 = c2
  m1 = m1
  m2 = m2
  None = None
  Server = Server
  CleanAbove = 1
  CleanBelow = 1
  Conns <- MCOne
  RelayConns <- MCNone
  MsgIDs <- MCOneID
  RawTotals <- MCTotals
  MayDrop = FALSE
  SlowPeers = FALSE
INVARIANT BindingAgreement
CHECK_DEADLOCK FALSE
