SPECIFICATION MCSpec
CONSTANTS
  Conns = {c1, c2}
  Talker = c1
  Server = server
  Words = {"text", "quit", "eof"}
  MaxLines = 2
  Capacity = 1
  Breakable = {c2}
  None = none
INVARIANTS
  TypeOK
  EachLineOnce
PROPERTIES
  OneLateLine
  DeliverySpec
  JamIsFinal
  SendReturns
  QuitIsHeard
  EndSpreads
CHECK_DEADLOCK FALSE
