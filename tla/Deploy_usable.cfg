SPECIFICATION Spec
CONSTANTS
  Key = {k1, k2, k3}
  NoKey = NoKey
  Broken = Broken
  MaxTry = 3
INVARIANTS
  OkIsUsable
CHECK_DEADLOCK FALSE
