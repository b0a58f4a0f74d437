\* Each serial board and the codecs, one at a time.
SPECIFICATION BoardsSpec
CONSTANTS
  Led93Writes <- LedWrites93
  Led93WrittenMax = 2
  Led93Capacity = 3
  Led93ReplySize = 2
  Led93Reads = {3}
  Led93Leds = 1
  Led93Colour = {0, 1}
  Led70Frames <- LedFrames70
  Led70Capacity = 2
  Led70ReplySize = 2
  Led70Leds = 2
  Led70EepromSize = 2
  EloPackets = {"QUERY_ACKNOWLEDGE", "QUERY_PARAMETER", "SET_PARAMETER", "SET_BAD_BITS",
    "SET_UNIMPLEMENTED", "ACKNOWLEDGE", "QUERY_RESET", "unknown", "SOFT_RESET",
    "HARD_RESET", "damaged"}
  EloCapacity = 2
  EloSlots = 2
  MercuryQueries = {"GET_SYNC_BOARD_VER"}
  MercuryCells = {0, 1}
  MercuryLimit = 1
  MercuryWidth = 3
  MercuryCapacity = 1
  JvsRequests <- JvsPackets
  JvsReports = 2
  JvsSwitches = {0, 1}
  VfdWrites <- VfdCmds
  VfdInvalid = 9
  VfdWritten = 2
  VfdReadable = 1
  VfdClears = 3
  FrameWidth = 8
  FrameCodecs <- Codecs
  FrameMessages <- CodecMessages
  FrameCapacity = 18
  FrameSg <- CodecLed
  FrameSgStrings <- SgStrings
  NPorts = 1
  Ovl = {o1, o2}
  HomePort <- MCHomePort
  IoThread = {t1}
  ReadSizes = {1, 3}
  ReplySize = 2
  FrameSize = 3
  ReadableSize = 4
  PendingCapacity = 2
  FrameIds = 2
  Commands = {"STAT", "HALT", "Ratio"}
  GameThreads = 1
  Nobody = Nobody
  Game = Game
  NULL = NULL
INVARIANTS EloIsRight JvsIsRight PanelIsSafe
PROPERTIES Led93IsRight Led70IsRight MercuryIsRight VfdIsRight FramesAreRight ImplementsOverlappedReads
\* The game may stop talking to a board.
CHECK_DEADLOCK FALSE
