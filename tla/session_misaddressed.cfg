SPECIFICATION Spec
CONSTANTS
  Node = {"b", "c"}
  None = none
  Sap = {"s1"}
  HighRank = {"s1", "c"}
  Rank <- MCRank
  LinkKind = {0, 2}
  Priority = {0}
  Indicates = TRUE
  OtherLinks = FALSE
  MaxExpedited = 1
  Heard = {"REQUEST", "CONFIRM", "REJECTED", "TERMINATE", "TERMINATE_CONFIRM"}
  MaxQueue = 1
  MaxRx = 2
  MaxPeer = 3
  MaxApi = 3
PROPERTIES
  GoesToItsNode
CHECK_DEADLOCK FALSE
