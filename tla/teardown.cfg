CONSTANTS
  r1 = r1
  r2 = r2
  r3 = r3
  None = None
  Requests = {r1, r2, r3}
  Asks = {a1, a2}
  ChildRuns = {c1}
  Deployed = {r2}
  DirName <- MCDirName
  DestroyName <- MCDestroyName
  Provider <- MCProvider
  Wanted <- MCWanted
  Provisioned <- MCProvisioned
  MaxFaults = 1
  MaxRequestRemovals = 1
SPECIFICATION TeardownSpec
SYMMETRY AskSymmetry
INVARIANTS
  CleanRunLeavesNothing
  LosesTrackOnlyOnAzure
  LeftoverRowsExplained
PROPERTY GoesOnlyIfAsked
CHECK_DEADLOCK FALSE
