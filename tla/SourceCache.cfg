SPECIFICATION FairSpec
CONSTANTS
  Calls = {o1, o2}
  Pages = {p1}
  Ranges <- RangeAndPart
  Budget = 2
  MaxEntries = 2
  QueueLimit = 1
  Nothing = Nothing
INVARIANTS
  BooksBalance
  IndexSound
  CancelIsPrivate
  QuietAfterClose
PROPERTIES
  CloseFinishes
CHECK_DEADLOCK FALSE
