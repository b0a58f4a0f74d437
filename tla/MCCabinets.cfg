\* The IO4 board with one reading thread and two requests in flight, and each
\* of the other parts of a cabinet, one at a time.
SPECIFICATION CabinetSpec
CONSTANTS
  Submitter = {s1}
  Ovl = {o1, o2}
  ThreadMayFail = TRUE
  Nobody = Nobody
  NULL = NULL
  Input = {rest, press}
  Rest = rest
  ForegroundOnly = TRUE
  Window = {"game", "other"}
  FfbForces = {0, 2}
  FfbMirror = 3
  FfbBase = 1
  WheelPressed = {"START", "dn", "up"}
  WheelGears = 2
  WheelFull = 4
  WheelRange = 3
  WheelDeadzones = {0, 2}
  WheelCoins = 1
  StartVersions = {256, 257, 258, 512}
  InpCoins = 2
  InpByte = 2
  InpHalf = 2
  InpSpeed = 1
  DivaDrop = 2
  DivaMin = 2
  DivaMax = 3
  DivaCells = 4
  DivaDelay = 2
SYMMETRY OvlSymmetry
INVARIANTS ReportIsRight   InputsAreRight
PROPERTIES  DivaIsRight
\* The game may stop, and the start of a game ends.
CHECK_DEADLOCK FALSE
