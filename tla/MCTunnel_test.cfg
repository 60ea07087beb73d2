SPECIFICATION FairSpec
CONSTANTS
  Builds <- DevOnly
  EventCap = 4
  SendCap = 1
  WriteCap = 1
  NotifyCap = 1
  WireCap = 1
  MaxMsg = 4
  MaxIn = 1
PROPERTIES
  TestIsProxied
CHECK_DEADLOCK FALSE
