\* One game thread: every command, a readable buffer that fills up.
SPECIFICATION FairSpec
CONSTANTS
  GameThread = {g1}
  IoThread = {t1, t2}
  Requests <- MCRequests
  WrittenMax = 3
  Capacity = 8
  ReplySize = 1
  ScanSize = 3
  Nobody = Nobody
  NULL = NULL
INVARIANT SliderIsSafe
PROPERTY SliderIsLive
CHECK_DEADLOCK FALSE
