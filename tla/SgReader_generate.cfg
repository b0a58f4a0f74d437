\* One reader, a file that cannot be read as an id.
SPECIFICATION Spec
CONSTANTS
  Unit = {u0}
  MainUnit = u0
  Overlap = FALSE
  Card = {c1}
  BadCard = {b1}
  Felica = {f1}
  Partial = Partial
  MaxMoves = 2
  NoFile = NoFile
  Unreadable = Unreadable
  NULL = NULL
PROPERTIES GeneratedOnlyIfMissing

