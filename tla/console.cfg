SPECIFICATION Spec
CONSTANTS
  Users = {u, v}
  AccessLife = 2
  RefreshLife = 2
  AzureKinds = {azureVM}
  AwsKinds = {awsVM}
  PolicyValues = {small, large}
  ClientIds = {c1, c2}
  OwnerOf <- MCOwnerOf
  Unrequested = {other}
  MaxLogins = 1
  Clusters = {k1, k2}
  Patches = {1, 2, 3}
  ClusterClouds = {"AZURE", "AWS"}
  MaxRuns = 2
  Tasks = {t1, t2}
  MaxTries = 2
  Queries = {"r1", "r2", "r"}
  RunNamed <- MCRunNamed
  RunsIncluding <- MCRunsIncluding
  Rows = {1, 2, 3}
  RowCloud <- MCRowCloud
  MaxChanges = 2
  Entries = {1, 2, 3, 4}
  ClassOf <- MCClassOf
  MaxLimit = 3
INVARIANTS
  
  RepeatedDispatchWasAsked
  ReportsAreTrue
  
  CountsOffByMoves
  PagesComplete
PROPERTIES
  AuthorityIsRecent
CHECK_DEADLOCK FALSE
SYMMETRY Symmetry
