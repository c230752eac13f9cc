---------------------------- MODULE MCK8sDeploy ----------------------------
(* Model-checking instance of GitlabSync and K8sDeploy.  A behaviour is of *)
(* one of four kinds: the synchronisation with what creates and drops rows *)
(* and projects; the synchronisation with a call that deploys; calls that  *)
(* deploy several images while projects are made; calls that write DNS     *)
(* records while the clusters' addresses are recorded and change.  What    *)
(* ImageDeployment holds never touches the records, nor they it.  The last *)
(* two begin where the others may have led: both repositories have been    *)
(* requested, and the first has a project with an image.                   *)
EXTENDS K8sDeploy, TLC

CONSTANTS a, b, aks, aks2, eks, d1, d2

VARIABLE moving

(* The name of the first repository occurs in that of the second.          *)
MCNameIn == {<<a, a>>, <<b, b>>, <<a, b>>}

MCCloud == aks :> "AZURE" @@ aks2 :> "AZURE" @@ eks :> "AWS"

(* Two of the clusters are namesakes.                                      *)
MCClusterName == aks :> "dev" @@ aks2 :> "dev" @@ eks :> "prod"

Requested ==
  /\ rows = Repos /\ requests = Repos
  /\ projects = {[id |-> 1, name |-> a]}
  /\ made = 1
  /\ images = {1}
  /\ recorded = {}
  /\ sync = NoSync
  /\ faults = 0

Init ==
  /\ moving \in {"sync", "cascade", "rows", "names"}
  /\ IF moving \in {"rows", "names"} THEN Requested ELSE SyncInit /\ images = {}
  /\ ready = IF moving \in {"cascade", "rows"} THEN {aks, aks2} ELSE {}
  /\ address = [k \in K8sClusters |-> NoAddress]
  /\ moves = [k \in K8sClusters |-> 0]
  /\ dns = {}
  /\ workloads = {}
  /\ deploy = [d \in Deploys |-> NoDeploy]

(* A call of these parameters.                                             *)
Call(d, repos, clusters) ==
  /\ DeployToK8sCluster(d)
  /\ deploy'[d].step = "project" =>
       deploy'[d].repo \in repos /\ deploy'[d].cluster \in clusters

Next ==
  /\ UNCHANGED moving
  /\ \/ /\ moving \in {"sync", "cascade"}
        /\ SyncNext
        /\ moving = "cascade" =>
             faults' = 0 /\ made' <= 2 /\ Names(projects') \subseteq Repos
        /\ UNCHANGED <<worldVars, dns, workloads, deploy>>
     \/ moving = "cascade" /\ Call(d1, Repos, {aks})
     \/ moving \in {"cascade", "rows"} /\ \E id \in 1 .. MaxProjects : Push(id)
     \/ /\ moving = "rows"
        /\ \/ \E d \in Deploys : Call(d, Repos, {aks, aks2})
           \/ /\ MakeProject(b)
              /\ UNCHANGED <<worldVars, dns, workloads, deploy>>
     \/ /\ moving = "names"
        /\ \/ \E d \in {d1, d2} : Call(d, {a}, K8sClusters)
           \/ \E k \in K8sClusters, x \in Addresses \cup {NoAddress} : Provision(k, x)

Spec == Init /\ [][Next]_<<moving, deployVars>>

=============================================================================
