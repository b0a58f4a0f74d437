\* Each part of the hook library and of the platform, one at a time.
SPECIFICATION HostSpec
CONSTANTS
  ClockHour = 2
  ClockStart = 280
  ClockEnd = 350
  LedBoards = 2
  LedPatterns <- LedPats
  LedFraming = 6
  LedEscape = 4
  LedWidth = 8
  LedClients = 2
  Y3Cards = {1, 2}
  Y3MaxCards = 2
  Y3Fields <- Y3Fs
  Y3Messages = 3
  ChuVersions = {0, 258}
  ChuCoins = 1
  ChuLoads = 2
  ChuReads = 2
  RegKeys = {"mount", "keychip"}
  RegNames = {"AMFS", "gameId"}
  RegVals <- RegVs
  RegHandles = {"h1", "h2", "h3"}
  RegThreads = {1, 2}
  RegMaxHandles = 3
  NusecRecords = {"r1", "r2"}
  NusecLimits = {0}
  NusecLogSize = 2
  NusecHeadMax = 3
  NusecCountMax = 1
  VfsPaths <- VfsPs
  VfsPorts <- VfsPorts3
  VfsContents = {"x", "y"}
  VfsRedirections <- VfsReds
  VfsMaxRedirections = 3
  VfsBackups = {}
  DnsNames <- DnsNs
  DnsPatterns <- DnsPats
  DnsHosts <- DnsHs
  DnsThreads = {1, 2}
  DnsPorts <- DnsPs
  DnsGoodSockets = TRUE
  DnsMaxRules = 2
  PrnModels = {"300", "330"}
  PrnWaits = {0, 1}
  PrnSecond = 1
  PrnEnd = 2
  PrnSides = 2
  PrnData = {1, 2}
  PrnOpens = 2
  PrnPages = 2
  CxCardsMax = 3
  CxStarts = 3
  EwfPaths <- EwfPs
  EwfFiles = 2
  EwfHandles = 2
  EwfBuffer = 2
  EwfEnd = 3
  EwfCalls = 4
  AmexClasses <- AmexCs
  AmexReal <- AmexRs
  AmexSets = {"s1", "s2"}
  AmexThreads = {1, 2}
  AmexCells = {1}
  AmexStarts = 2
INVARIANTS LedPipeIsRight Y3IsRight   PrnIsRight  EwfIsRight AmexIsRight
PROPERTIES ClockIsRight ChuIsRight  
\* The bounded parts end.
CHECK_DEADLOCK FALSE
