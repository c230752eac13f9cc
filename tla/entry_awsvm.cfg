SPECIFICATION FairSpec
CONSTANTS
  r1 = r1
  r2 = r2
  None = None
  Requests = {r1, r2}
  Sends = {s1}
  DirectRuns = {}
  Provider <- MCProvider
  DirName <- MCDirName
  Wanted <- AwsVm
  MaxFaults = 0
  MaxLosses = 0
  MaxRequestRemovals = 0
PROPERTIES
  TakenLeadsToChildren
CHECK_DEADLOCK FALSE
