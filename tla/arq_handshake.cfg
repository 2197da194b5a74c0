SPECIFICATION HandshakeSpec
CONSTANTS
  A = "a"
  B = "b"
  Callers = {"a"}
  SeqMod = 4
  Window = 2
  MaxRetries = 1
  ResetReps = 2
  ByteBits = 8
  CrcErrors = TRUE
  MaxFragments = 2
  LoadA = 2
  LoadB = 0
  MaxSubmit <- MCMaxSubmit
  MaxChan = 3
INVARIANTS
  InOrderExactlyOnce
PROPERTIES
  HandshakeCompletes
  EveryCpduResolved
CHECK_DEADLOCK FALSE
