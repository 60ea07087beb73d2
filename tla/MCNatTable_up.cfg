SPECIFICATION Spec
CONSTANTS
  Modulus = 3
  Isns <- SomeIsns
  Window = 2
  SynRetry = TRUE
  MaxSyn = 3
  MaxUp = 2
  MaxDown = 1
  MaxSeg = 2
  MaxOut = 2
  Mss = 1
  Late = TRUE
  LossIn = TRUE
  LossOut = TRUE
INVARIANTS
  TypeOK
  UpstreamExact
  AckedWasTaken
CHECK_DEADLOCK FALSE
