SPECIFICATION Spec
CONSTANTS
  A = "a"
  B = "b"
  Callers = {}
  SeqMod = 4
  Window = 2
  MaxRetries = 1
  ResetReps = 1
  ByteBits = 8
  CrcErrors = FALSE
  MaxFragments = 2
  LoadA = 2
  LoadB = 0
  MaxSubmit <- MCMaxSubmit
  MaxChan = 2
INVARIANTS
  DeliveredIsWhole
CHECK_DEADLOCK FALSE
