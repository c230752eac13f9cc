SPECIFICATION Spec
CONSTANTS
  a = a
  b = b
  aks = aks
  aks2 = aks2
  eks = eks
  d1 = d1
  d2 = d2
  Repos = {a, b}
  Foreign = {f}
  PageSize = 2
  MaxProjects = 3
  MaxFaults = 1
  Deploys = {d1, d2, d3}
  K8sClusters = {aks, aks2, eks}
  K8sCloud <- MCCloud
  ClusterName <- MCClusterName
  NameIn <- MCNameIn
  Addresses = {ip1, ip2}
  NoAddress = NoAddress
  MaxMoves = 1
INVARIANTS
  RowsAreRunning
  HostsResolve
PROPERTIES
  SyncAligns
CHECK_DEADLOCK FALSE
