SPECIFICATION Spec
CONSTANTS
  g1 = g1
  g2 = g2
  d = d
  l = l
  s = s
  w1 = w1
  w2 = w2
  Absent = Absent
  Torn = Torn
  NoKey = NoKey
  Generators <- MCGenerators
  Deleters <- MCNone
  Loaders <- MCLoaders
  Viewers <- MCNone
  Passwords <- MCOnePassword
  MayKill = FALSE
INVARIANT RunsWithOnePair
CHECK_DEADLOCK FALSE
