SPECIFICATION FairSpec
CONSTANTS
  Requests = {r1, r2, r3}
  Chunks = {c1, c2, c3}
  Budget = 2
  RequestCap = 2
  MaxGrants = 2
  Nobody = Nobody
  NoLease = NoLease
PROPERTIES
  WaiterServed
CHECK_DEADLOCK FALSE
