SPECIFICATION MCSilentSpec
CONSTANTS
  Conns = {c1}
  Talker = c1
  Server = server
  Words = {"text"}
  MaxLines = 1
  Capacity = 1
  Breakable = {}
  None = none
PROPERTIES
  LineIsSent
CHECK_DEADLOCK FALSE
