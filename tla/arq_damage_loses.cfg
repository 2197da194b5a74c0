SPECIFICATION Spec
CONSTANTS
  A = "a"
  B = "b"
  Callers = {}
  SeqMod = 4
  Window = 2
  MaxRetries = 3
  ResetReps = 1
  ByteBits = 8
  CrcErrors = TRUE
  MaxFragments = 2
  LoadA = 1
  LoadB = 0
  MaxSubmit <- MCMaxSubmit
  MaxChan = 4
INVARIANTS
  AckMeansDelivered
CHECK_DEADLOCK FALSE
