\* Both readers of a terminal, used by one game thread.
SPECIFICATION Spec
CONSTANTS
  Unit = {u0, u1}
  MainUnit = u0
  Overlap = FALSE
  Card = {c1}
  BadCard = {b1}
  Felica = {f1}
  Partial = Partial
  MaxMoves = 2
  NoFile = NoFile
  Unreadable = Unreadable
  NULL = NULL
INVARIANT CardsAreSafe
PROPERTY PollIsTruthful
