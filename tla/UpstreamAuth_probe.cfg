SPECIFICATION Spec
CONSTANTS
  Callers = {c1, c2}
  Nobody = Nobody
  MaxLogins = 3
  MaxRevocations = 1
  MaxReconfigs = 1
PROPERTY HealthyWithThisToken
CHECK_DEADLOCK FALSE
