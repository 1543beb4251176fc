SPECIFICATION Spec
CONSTANTS
  Callers = {c1, c2}
  Nobody = Nobody
  MaxLogins = 3
  MaxRevocations = 1
  MaxReconfigs = 1
SYMMETRY Symmetry
INVARIANTS StoredNeverLoggedOut HandedOutIsFresh TokensAccounted AnswerForEveryWait
PROPERTIES SwapsJustified
CHECK_DEADLOCK FALSE
