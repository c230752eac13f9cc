SPECIFICATION Spec
CONSTANTS
  r1 = r1
  r2 = r2
  u1 = u1
  None = None
  Requests = {r1, r2}
  Patches = {p1, p2}
  DirectRuns = {}
  Users = {u1}
  Accounts = {a1, a2}
  Collaborators = {}
  Owner <- MCOwner
  Invitees <- MCInvitees
  Provider <- MCProvider
  NameIn <- Unrelated
  Wanted <- MCWanted
  DirName <- MCDirName
  MaxOpen = 2
  MaxFailures = 1
  MaxRelinks = 1
  MaxProjectRemovals = 1
  MaxRequestRemovals = 1
  MaxFaults = 1
  MaxLosses = 1
SYMMETRY Symmetry
INVARIANTS
  
  ProvisionedWasApproved
CHECK_DEADLOCK FALSE
