SPECIFICATION FairSpec
CONSTANTS
  k1 = k1
  k2 = k2
  NoOne = NoOne
  Session = {s1}
  Key = {k1, k2}
  IdOf <- SameId
  KeyOf <- OwnKey
  KeyDirs <- AnyKeyDir
  TxCap = 2
  MaxPing = 2
INVARIANTS
  TypeOK
  ChannelHasWriter
  OnlyKnownKeys
PROPERTIES
  RevokedStaysOut
  TunnelTornDown
CHECK_DEADLOCK FALSE
