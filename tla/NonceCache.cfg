SPECIFICATION Spec
CONSTANTS
  Callers = {a, b, c}
  Keys = {k1, k2, k3}
  Limit = 1
  TTL = 1
  EndOfTime = 4
  Never = never
SYMMETRY MCSymmetry
INVARIANTS
  TypeOK
  FewAreNeverReused
PROPERTIES
  NoReplay
  OnlyLiveAboveLimit
CHECK_DEADLOCK FALSE
