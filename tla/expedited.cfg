SPECIFICATION FairSpec
CONSTANTS
  A = "a"
  B = "b"
  SeqMod = 4
  IdMod = 2
  MaxRetries = 1
  MaxFragments = 3
  LoadA = 2
  LoadB = 0
  MaxSubmit <- MCMaxSubmit
  MaxChan = 2
INVARIANTS
  TypeOK
  NothingIsMissing
  AckMeansDelivered
PROPERTIES
  EveryCpduResolved
  RegularResumes
CHECK_DEADLOCK FALSE
