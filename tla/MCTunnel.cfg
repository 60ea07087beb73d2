SPECIFICATION FairSpec
CONSTANTS
  Builds <- BothBuilds
  EventCap = 1
  SendCap = 1
  WriteCap = 1
  NotifyCap = 1
  WireCap = 1
  MaxMsg = 3
  MaxIn = 1
INVARIANTS
  TypeOK
  ControlArrives
  TestStream
PROPERTIES
  KeepsMoving
CHECK_DEADLOCK FALSE
