\* One game thread, a buffer that fills up, a writer that comes at any time.
SPECIFICATION FairSpec
CONSTANTS
  GameThread = {g1}
  Writer = Writer
  Requests <- MCRequests
  WrittenMax = 2
  ReadSizes = {3, 5}
  Capacity = 5
  HeaderSize = 1
  CardSizes = {2, 3}
  MaxCards = 2
  Edition = {e1, e2}
  Nobody = Nobody
  NULL = NULL
INVARIANT DeckIsSafe
PROPERTY WriterGetsIn
