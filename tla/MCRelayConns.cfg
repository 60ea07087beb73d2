SPECIFICATION FairSpec
CONSTANTS
  NoTask = NoTask
  Session = {s1}
  ConnId = {c1}
  Task = {t1}
  TxCap = 2
  DataCap = 2
  MaxGen = 1
  MaxUp = 3
  MaxDown = 2
INVARIANTS
  TypeOK
  UpstreamOrder
  FinAfterDrain
  DownstreamOrder
PROPERTIES
  ShutdownReachesServer
  OrphanIsClosed
CHECK_DEADLOCK FALSE
