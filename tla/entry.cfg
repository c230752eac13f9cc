SPECIFICATION Spec
CONSTANTS
  r1 = r1
  r2 = r2
  None = None
  Requests = {r1, r2}
  Sends = {s1, s2}
  DirectRuns = {d1}
  Provider <- MCProvider
  DirName <- MCDirName
  Wanted <- AwsVm
  MaxFaults = 2
  MaxLosses = 1
  MaxRequestRemovals = 1
SYMMETRY Symmetry
INVARIANTS
  TypeOK
  NoMessageTwice
  ChildrenMatchRequest
  GroupBeforeChildren
  QueueBalance
PROPERTIES
  DeliversAtMostOnce
CHECK_DEADLOCK FALSE
