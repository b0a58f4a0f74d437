\* Two game threads: STOP overlaps STOP and START.
SPECIFICATION Spec
CONSTANTS
  GameThread = {g1, g2}
  IoThread = {t1, t2, t3}
  Requests <- MCStartStop
  WrittenMax = 2
  Capacity = 4
  ReplySize = 1
  ScanSize = 3
  Nobody = Nobody
  NULL = NULL
INVARIANT StopIsFinal
CHECK_DEADLOCK FALSE
