SPECIFICATION Spec
CONSTANTS
  Node = {"a", "b", "c"}
  None = "none"
  A = "a"
  B = "b"
  C = "c"
  AB = 0
  BA = 1
  AC = 1
  MaxCalls <- MCMaxCalls
  Closed = {}
  MaxRetries = 0
  MaxNonexclusive = 1
  MaxExclusive = 2
  MaxChan = 1
PROPERTIES
  AdmittedIsVisible
CHECK_DEADLOCK FALSE
