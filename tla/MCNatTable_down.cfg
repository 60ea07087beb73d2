SPECIFICATION FairSpec
CONSTANTS
  Modulus = 8
  Isns <- SomeIsns
  Window = 2
  SynRetry = FALSE
  MaxSyn = 2
  MaxUp = 2
  MaxDown = 4
  MaxSeg = 3
  MaxOut = 2
  Mss = 2
  Late = FALSE
  LossIn = FALSE
  LossOut = FALSE
INVARIANTS
  InStep
PROPERTIES
  KeepsContract
  ClosingIsRemoved
CHECK_DEADLOCK FALSE
