SPECIFICATION FairSpec
CONSTANTS
  Node = {"a", "b"}
  None = "none"
  A = "a"
  B = "b"
  C = "c"
  AB = 2
  BA = 1
  AC = 0
  MaxCalls <- MCMaxCalls
  Closed = {}
  MaxRetries = 1
  MaxNonexclusive = 1
  MaxExclusive = 2
  MaxChan = 2
INVARIANTS
  GhostsAreUnheard
PROPERTIES
  ChangesEnd
  HalfOpenEnds
CHECK_DEADLOCK FALSE
