SPECIFICATION Spec
CONSTANTS
  Jobs = {j1, j2}
  Length = 2
  Openers = {o1, o2}
  Workers = {w1}
  MaxJobs = 1
  Lookahead = 1
  Nothing = Nothing
SYMMETRY Interchangeable
INVARIANTS DemandsAndSegments NoLostDemand
PROPERTIES DemandedIsKept
CHECK_DEADLOCK FALSE
