----------------------------- MODULE MCConsole -----------------------------
(* Model-checking instance of the parts of the API that answer a browser   *)
(* and share no state with one another: sessions, the requests for         *)
(* clusters, the readers of logs, the dashboard and the catalogues.  An    *)
(* initial state chooses which of them is to move, the others stand still; *)
(* no action of one reads a variable of another, so that this shows each   *)
(* of them for any interleaving of all.  Of RunLogs, the three readers are *)
(* taken one at a time for the same reason: they only read what Airflow    *)
(* does.                                                                   *)
EXTENDS Sessions, ClusterRequests, RunLogs, Dashboard, Catalogue, TLC

VARIABLE moving  \* the part that moves

consoleVars == <<moving, sessionVars, clusterVars, logVars, dashboardVars, catalogueVars>>

(* Each of the users has asked for something.                              *)
MCOwnerOf == [w \in Users |-> w]

(* "r1" is the id of the first run, and part of that of the second, as is  *)
(* "r"; "r2" is the id of the second run.                                  *)
MCRunNamed == [q \in Queries |-> CASE q = "r1" -> 1 [] q = "r2" -> 2 [] q = "r" -> 0]
MCRunsIncluding == [q \in Queries |-> IF q = "r2" THEN {2} ELSE {1, 2}]

MCRowCloud == [r \in Rows |-> CASE r = 1 -> "AZURE" [] r = 2 -> "AWS" [] r = 3 -> "none"]

(* Four entries of three classes.                                          *)
MCClassOf == [e \in Entries |-> e \div 2]

(* Where a part begins does not matter to the others.                      *)
Init ==
  /\ moving \in {"policies", "secrets", "clusters", "report", "pipeline", "search",
                 "dashboard", "catalogue"}
  /\ SessionInit
  /\ moving \notin {"policies", "secrets"} => role = [w \in Users |-> "none"]
  /\ ClusterInit
  /\ LogInit
  /\ DashboardInit
  /\ moving # "dashboard" => state = [r \in Rows |-> "none"]
  /\ CatalogueInit
  /\ moving # "catalogue" =>
       reading.matches = {} /\ reading.limit = 1 /\ reading.of = "azure"

(* A report and a search treat one task and two runs, the log of a         *)
(* pipeline two tasks of one run.                                          *)
FewTasks ==
  LET active == {x \in DagRuns \X Tasks : instance[x[1]][x[2]].state # "none"}
  IN Cardinality({x[IF moving = "pipeline" THEN 1 ELSE 2] : x \in active}) <= 1

(* Three calls about one cluster, or two about two; as they are alike,     *)
(* they are numbered in the order in which their clusters are picked.      *)
FewClusters ==
  /\ \A h \in Patches : patch[h].step # "idle" => \A g \in 1 .. h : patch[g].step # "idle"
  /\ \/ Cardinality({c \in Clusters : cluster[c].step # "idle"}) <= 1
     \/ Cardinality({h \in Patches : patch[h].step # "idle"}) <= 2

(* While one who called test-login may be in a session without an id,      *)
(* nobody else is signed in; sessions side by side are those of logins.    *)
(* There is one secret at a time.                                          *)
FewSessions ==
  /\ \A w, x \in Users : w # x /\ MayLackId(w) => ~MayLackId(x) /\ ~SignedIn(x)
  /\ Cardinality({c \in ClientIds : secrets[c] # "nobody"}) <= 1

Logs ==
  \/ Airflow /\ FewTasks'
  \/ moving = "report" /\ Reporting
  \/ moving = "pipeline" /\ Showing
  \/ moving = "search" /\ Searching

Browsers ==
  \/ Authenticate
  \/ moving = "policies" /\ \E w \in Users : WritePolicies(w)
  \/ moving = "secrets" /\ \E w \in Users : WriteSecrets(w)

Next ==
  /\ UNCHANGED moving
  /\ \/ /\ moving \in {"policies", "secrets"} /\ Browsers /\ FewSessions'
        /\ UNCHANGED <<clusterVars, logVars, dashboardVars, catalogueVars>>
     \/ /\ moving = "clusters" /\ ClusterNext /\ FewClusters'
        /\ UNCHANGED <<sessionVars, logVars, dashboardVars, catalogueVars>>
     \/ /\ moving \in {"report", "pipeline", "search"} /\ Logs
        /\ UNCHANGED <<sessionVars, clusterVars, dashboardVars, catalogueVars>>
     \/ /\ moving = "dashboard" /\ DashboardNext
        /\ UNCHANGED <<sessionVars, clusterVars, logVars, catalogueVars>>
     \/ /\ moving = "catalogue" /\ CatalogueNext
        /\ UNCHANGED <<sessionVars, clusterVars, logVars, dashboardVars>>

Spec == Init /\ [][Next]_consoleVars

Symmetry == Permutations(Users) \cup Permutations(PolicyValues)
============================================================================
