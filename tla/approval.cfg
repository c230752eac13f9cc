SPECIFICATION Spec
CONSTANTS
  r1 = r1
  r2 = r2
  u1 = u1
  k1 = k1
  Requests = {r1, r2}
  Patches = {p1, p2, p3}
  Users = {u1}
  Accounts = {a1, a2}
  Collaborators = {k1}
  Owner <- MCOwner
  Invitees <- MCInvitees
  Provider <- MCProvider
  NameIn <- Nested
  MaxOpen = 3
  MaxFailures = 1
  MaxRelinks = 1
  MaxProjectRemovals = 1
  MaxRequestRemovals = 1
SYMMETRY Symmetry
INVARIANTS
  TypeOK
  OneDispatchPerProject
  CreatedHasProject
  MembersAreInvitees
PROPERTIES
  DispatchSeesApproved
CHECK_DEADLOCK FALSE
