\* Two panels, one game thread that sends no HALT: the I/O threads' life cycle.
SPECIFICATION FairSpec
CONSTANTS
  NPorts = 2
  Ovl = {o1}
  HomePort <- MCHomePort
  IoThread = {t1, t2}
  ReadSizes = {1}
  ReplySize = 1
  FrameSize = 1
  ReadableSize = 1
  PendingCapacity = 1
  FrameIds = 1
  Commands = {"STAT", "Ratio"}
  GameThreads = 1
  Nobody = Nobody
  Game = Game
  NULL = NULL
INVARIANT OneThreadPerPlayer
PROPERTY PanelsAreServed
CHECK_DEADLOCK FALSE
