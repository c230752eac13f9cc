SPECIFICATION Spec
CONSTANTS
  r1 = r1
  r2 = r2
  u1 = u1
  k1 = k1
  Requests = {r1, r2}
  Patches = {p1, p2, p3}
  Users = {u1}
  Accounts = {a1, a2}
  Collaborators = {k1}
  Owner <- MCOwner
  Invitees <- MCInvitees
  Provider <- MCProvider
  NameIn <- Nested
  MaxOpen = 2
  MaxFailures = 0
  MaxRelinks = 0
  MaxProjectRemovals = 0
  MaxRequestRemovals = 0
INVARIANTS
  SearchFindsCreated
CHECK_DEADLOCK FALSE
