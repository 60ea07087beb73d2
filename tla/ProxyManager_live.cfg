SPECIFICATION FairSpec
CONSTANTS
  Run = {r1}
  NoRun = NoRun
  MaxPong = 1
  MaxEvents = 1
PROPERTIES
  DeathIsShown
  StopIsShown
CHECK_DEADLOCK FALSE
