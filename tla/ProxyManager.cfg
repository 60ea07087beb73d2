SPECIFICATION Spec
CONSTANTS
  Run = {r1, r2}
  NoRun = NoRun
  MaxPong = 1
  MaxEvents = 1
INVARIANTS
  TypeOK
  NoOrphanProxy
  ReadsOwnKey
  ExitIsNoticed
CHECK_DEADLOCK FALSE
