SPECIFICATION Spec
CONSTANTS
  Node = {"b", "c"}
  None = none
  Sap = {"s1"}
  HighRank = {"s1", "c"}
  Rank <- MCRank
  LinkKind = {0, 2}
  Priority = {0}
  Indicates = TRUE
  OtherLinks = FALSE
  MaxExpedited = 1
  Heard = {"DATA", "DELIVERY_FAIL", "REQUEST", "CONFIRM", "REJECTED", "TERMINATE", "TERMINATE_CONFIRM"}
  MaxQueue = 2
  MaxRx = 1
  MaxPeer = 3
  MaxApi = 3
INVARIANTS
  TypeOK
  InitiatorAsked
PROPERTIES
  SoftLinkEnds
  UpdusAreAccounted
  NoSilentEnd
CHECK_DEADLOCK FALSE
