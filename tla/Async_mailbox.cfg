\* Three submitters, three requests; the worker may fail to start.
SPECIFICATION FairSpec
CONSTANTS
  Submitter = {s1, s2, s3}
  Ovl = {o1, o2, o3}
  ThreadMayFail = TRUE
  Nobody = Nobody
  NULL = NULL
INVARIANT MailboxIsSafe
PROPERTIES NothingAfterFini ImplementsOverlappedReads EveryCallEnds
CHECK_DEADLOCK FALSE
