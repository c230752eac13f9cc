SPECIFICATION Spec
CONSTANTS
  Calls = {c1, c2, c3}
  Names = {n1, n2, n3}
  MaxInFlight = 3
  MaxRemovals = 1
SYMMETRY Symmetry
INVARIANTS
  TypeOK
  NumbersFollowInsertion
  LeftoversExplained
  RequestsConnected
  NewestIsHighest
  NoClash
CHECK_DEADLOCK FALSE
