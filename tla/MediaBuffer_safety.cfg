SPECIFICATION Spec
CONSTANTS
  Requests = {r1, r2, r3}
  Chunks = {c1, c2, c3, c4}
  Budget = 3
  RequestCap = 2
  MaxGrants = 2
  Nobody = Nobody
  NoLease = NoLease
SYMMETRY Symmetry
INVARIANTS
  Accounting
  GrantsSound
  NoMissedGrant
  FairTargets
PROPERTIES
  NoOvertaking
CHECK_DEADLOCK FALSE
