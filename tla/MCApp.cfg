SPECIFICATION AppSpec
CONSTANTS
  Key = {k1, k2, k3}
  NoKey = NoKey
  Broken = Broken
  MaxTry = 3
  Name = {a, b}
  NoName = NoName
  Value = {v, w}
  Handler = {h1, h2}
  MaxClick = 3
  MaxCrash = 1
INVARIANTS
  TypeOK
  OkIsInstalled
  FirstTryIsRunning
  ProfilesTypeOK
  ActiveIsSaved
  AloneIsExact
  ShownIsStored
PROPERTIES
  KeyIsKept
CHECK_DEADLOCK FALSE
