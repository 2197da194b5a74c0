SPECIFICATION Spec
CONSTANTS
  A = "a"
  B = "b"
  SeqMod = 4
  IdMod = 2
  MaxRetries = 1
  MaxFragments = 3
  LoadA = 1
  LoadB = 0
  MaxSubmit <- MCMaxSubmit
  MaxChan = 2
INVARIANTS
  DeliveredIsWhole
CHECK_DEADLOCK FALSE
