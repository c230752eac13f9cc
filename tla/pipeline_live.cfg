SPECIFICATION FairSpec
CONSTANTS
  r1 = r1
  r2 = r2
  u1 = u1
  None = None
  Requests = {r1, r2}
  Patches = {p1, p2}
  DirectRuns = {d1}
  Users = {u1}
  Accounts = {a1}
  Collaborators = {}
  Owner <- MCOwner
  Invitees <- MCInvitees
  Provider <- MCProvider
  NameIn <- Unrelated
  Wanted <- MCWanted
  DirName <- MCDirName
  MaxOpen = 2
  MaxFailures = 0
  MaxRelinks = 0
  MaxProjectRemovals = 0
  MaxRequestRemovals = 0
  MaxFaults = 0
  MaxLosses = 0
PROPERTIES
  ApprovalLeadsToDispatch
  TakenLeadsToRecorded
CHECK_DEADLOCK FALSE
