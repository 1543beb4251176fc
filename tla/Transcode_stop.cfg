SPECIFICATION Spec
CONSTANTS
  Jobs = {j1}
  Length = 1
  Openers = {o1}
  Workers = {w1}
  MaxJobs = 1
  Lookahead = 1
  Nothing = Nothing
PROPERTIES StopKeepsAddress
CHECK_DEADLOCK FALSE
