SPECIFICATION FairCopySpec
CONSTANTS
  Requests = {r1}
  Chunks = {c1, c2}
  Budget = 1
  RequestCap = 2
  MaxGrants = 6
  Nobody = Nobody
  Base = Base
  NoBuffer = NoBuffer
  NoLease = NoLease
  BufferSize = 2
  MaxBlocks = 4
  Lengths <- ManyLengths
INVARIANTS
  BuffersSound
  WritesNextBytes
PROPERTIES
  PipeSpec
  NeitherHalfStuck
CHECK_DEADLOCK FALSE
