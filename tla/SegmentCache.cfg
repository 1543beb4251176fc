SPECIFICATION Spec
CONSTANTS
  Jobs = {j1, j2}
  Segments = {0}
  Files = {f1, f2, f3}
  Readers = {r1, r2}
  Budget = 3
  MaxArtifacts = 2
  MaxSize = 2
  MaxLeaks = 1
  Nothing = Nothing
SYMMETRY Interchangeable
INVARIANTS BooksBalance ReadersKeepTheirFile
PROPERTY StoreSpec
CHECK_DEADLOCK FALSE
