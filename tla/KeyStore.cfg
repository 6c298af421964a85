SPECIFICATION Spec
CONSTANTS
  g1 = g1
  g2 = g2
  d = d
  l = l
  s = s
  w1 = w1
  w2 = w2
  Absent = Absent
  Torn = Torn
  NoKey = NoKey
  Generators <- MCGenerators
  Deleters <- MCDeleters
  Loaders <- MCLoaders
  Viewers <- MCViewers
  Passwords <- MCPasswords
  MayKill = TRUE
INVARIANT TypeOK
INVARIANT NoHiddenPrivateKey
INVARIANT SoleWriterDecides
INVARIANT FirstSaveIsSafe
INVARIANT PublicNeverOlder
SYMMETRY MCSymmetry
CHECK_DEADLOCK FALSE
