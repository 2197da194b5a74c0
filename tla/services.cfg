SPECIFICATION MCSpec
CONSTANTS
  None = None
  DtsNode = {"b"}
  DtsMaxResets = 2
  DtsMaxInput = 6
  MgIdMod = 4
  MgMaxRetries = 1
  MgCopies = 2
  MgMaxMsg = 3
  MgMaxAir = 4
  MgMaxBoots = 2
  NaTypes = {"NON_ARQ", "EXPEDITED_NON_ARQ"}
  NaIdMod = 2
  NaMaxSegments = 2
  NaMaxCpdu = 3
  NaMaxDamage = 1
  NaMode = "DELIVER_W_ERRORS"
  RsSaps = {0, 1, 2}
  RsRanks = {3, 15}
  RsHost = "host"
  RsReservedSap = 0
  RsManagementRank = 15
  RsNoRank = 0
  RsAllowManagement = FALSE
  RsMaxConnections = 2
  RsMaxClients = 3
  SgIdMod = 1
  SgMaxSegments = 3
  SgMaxMessages = 2
  SgMaxRepeats = 1
  TcMaxPackets = 3
  TcMaxWindows = 3
  TcMaxDrops = 1
  TcMaxStarts = 1
  BsKinds = {"dpdu", "packet"}
  BsMaxPieces = 3
  NeIdMod = 3
  NeMaxPayload = 2
  NeSizes = {0, 1, 5}
  NeMaxCpdus = 2
  NeMaxRepeats = 1
  CoMessages <- Messages
INVARIANTS
  ConnectedWhileMade
  ManagedOnce
  CompleteIsOneCpdu
  OneOwner
  AcceptedIsServed
  ChunksDoNotMatter
  OnlyWholeMessages
  PacketsAreTaken
  MessagesReadBack
  DamageIsSeen
PROPERTIES
  ExpeditedEnds
  SlaveIsFreed
  PartsAreDropped
  LastCompletes
CHECK_DEADLOCK FALSE
