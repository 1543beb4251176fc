SPECIFICATION Spec
CONSTANTS
  Peers = {p1, p2}
  Servers = {s1, s2}
  Names = {n1, n2}
  Nothing = Nothing
SYMMETRY Interchangeable
INVARIANTS
  ListsSound AccessSound AdminSound SourceSound ObservationSound  PoliciesSound
PROPERTY UserData
CHECK_DEADLOCK FALSE
