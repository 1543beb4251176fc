SPECIFICATION Spec
CONSTANTS
  preview = preview
  playing = playing
  other = other
  Sources = {s1}
  Playbacks = {preview, playing, other}
  Owner <- OwnerOf
  Requests = {q1, q2}
  Readers = {o1}
  GrantIds = {g1, g2}
  Selections <- UsualSelections
  Workers = 1
  Budget = 1
  MaxGrants = 2
  MaxVersion = 2
  Nothing = Nothing
  Ended = Ended
SYMMETRY Symmetry
INVARIANTS
  PinsCounted
  SharedByViewers
  NeverMixed
PROPERTIES
  WantedWorkGoesOn
CHECK_DEADLOCK FALSE
