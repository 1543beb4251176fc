SPECIFICATION FairSpec
CONSTANTS
  Jobs = {j1, j2}
  Length = 1
  Openers = {o1}
  Workers = {w1, w2}
  MaxJobs = 2
  Lookahead = 1
  Nothing = Nothing
CONSTRAINT OnlyOldReplaced
INVARIANTS SingleFlight
PROPERTIES CloseFinishes
CHECK_DEADLOCK FALSE
