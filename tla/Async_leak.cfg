\* The worker cannot be started at first.
SPECIFICATION FairSpec
CONSTANTS
  Submitter = {s1}
  Ovl = {o1}
  ThreadMayFail = TRUE
  Nobody = Nobody
  NULL = NULL
PROPERTY AnswerIsSignalled
CHECK_DEADLOCK FALSE
