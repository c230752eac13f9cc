SPECIFICATION Spec
CONSTANTS
  r1 = r1
  r2 = r2
  r3 = r3
  None = None
  Requests = {r1, r2, r3}
  ChildRuns = {i1, i2, i3}
  DirName <- MCDirName
  Provider <- MCProvider
  MaxFaults = 1
  MaxRequestRemovals = 1
SYMMETRY Symmetry
INVARIANTS
  TypeOK
  
  UnrecordedExplained
  
  NothingOrphaned
CHECK_DEADLOCK FALSE
