SPECIFICATION Spec
CONSTANTS
  NoTask = NoTask
  Session = {s1, s2}
  ConnId = {c1}
  Task = {t1, t2}
  TxCap = 1
  DataCap = 1
  MaxGen = 2
  MaxUp = 1
  MaxDown = 0
SYMMETRY Symmetry
VIEW Present
INVARIANTS
  SessionIsolation
  RegisteredIsLive
CHECK_DEADLOCK FALSE
