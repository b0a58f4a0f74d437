\* HALT joins the I/O thread while it holds the lock that thread needs.
SPECIFICATION FairSpec
CONSTANTS
  NPorts = 1
  Ovl = {o1}
  HomePort <- MCHomePort
  IoThread = {t1, t2}
  ReadSizes = {1}
  ReplySize = 1
  FrameSize = 1
  ReadableSize = 1
  PendingCapacity = 1
  FrameIds = 1
  Commands = {"STAT", "HALT"}
  GameThreads = 1
  Nobody = Nobody
  Game = Game
  NULL = NULL
PROPERTY StopFlagStopsThread
CHECK_DEADLOCK FALSE
