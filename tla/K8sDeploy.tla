----------------------------- MODULE K8sDeploy -----------------------------
(***************************************************************************)
(* PATCH deploy, that is DeployToK8sCluster: find the image of a           *)
(* repository's project, register the cluster's wildcard host name, have   *)
(* the image deployed, and record it in ImageDeployment, whose             *)
(* repositoryId is unique.  Calls interleave with one another, with the    *)
(* synchronisation of GitlabSync and with the provisioning of clusters.    *)
(*                                                                         *)
(* Nothing is undone: what is recorded last fails last, when the DNS       *)
(* record is written and the cluster already runs the image.  GitLab's     *)
(* registry, Cloudflare and the service that applies a deployment are      *)
(* external; the last one replaces what runs under the repository's name.  *)
(***************************************************************************)
EXTENDS GitlabSync

CONSTANTS
  Deploys,      \* calls of DeployToK8sCluster
  K8sClusters,
  K8sCloud,     \* K8sCloud[k]: AZURE or AWS
  ClusterName,  \* ClusterName[k]: its clusterName, which need not be unique
  NameIn,       \* <<a, b>>: the name a occurs in the name b
  Addresses,    \* IP addresses
  NoAddress,
  MaxMoves      \* bound: clusters that change their address

ASSUME CloudAssumption == K8sCloud \in [K8sClusters -> {"AZURE", "AWS"}]
ASSUME AddressAssumption == NoAddress \notin Addresses
ASSUME NameInAssumption == \A r \in Repos : <<r, r>> \in NameIn

VARIABLES
  images,     \* the projects, by id, with an image in their registry
  ready,      \* the clusters whose kubeConfig is recorded
  address,    \* clusterFqdn, or the edge_public_ip of clusterEndpoint
  moves,      \* history: how often each cluster has changed its address
  dns,        \* Cloudflare's records: their number, host name and address
  workloads,  \* what runs: cluster, name of the repository, image
  deploy      \* per call: its step and what it has read

worldVars == <<images, ready, address, moves>>
deployVars == <<syncVars, worldVars, dns, workloads, deploy>>

Hosts == {ClusterName[k] : k \in K8sClusters}
Workload == [cluster : K8sClusters, name : Repos, image : 1 .. MaxProjects]
Record == [number : Nat, host : Hosts, address : Addresses]

NoDeploy == [step |-> "idle", repo |-> "none", cluster |-> "none", image |-> 0,
             to |-> NoAddress, found |-> {}, named |-> "no"]

DeployTypeOK ==
  /\ images \subseteq 1 .. MaxProjects
  /\ ready \subseteq K8sClusters
  /\ address \in [K8sClusters -> Addresses \cup {NoAddress}]
  /\ moves \in [K8sClusters -> Nat]
  /\ dns \subseteq Record
  /\ workloads \subseteq Workload
  /\ recorded \subseteq Workload
  /\ deploy \in [Deploys ->
       [step    : {"idle", "project", "image", "cluster", "search", "write", "apply",
                   "applied", "recorded", "unrecorded", "failed"},
        repo    : Repos \cup {"none"},
        cluster : K8sClusters \cup {"none"},
        image   : 0 .. MaxProjects,        \* the id of the project found
        to      : Addresses \cup {NoAddress},
        found   : SUBSET Record,           \* none, or the record to change
        named   : {"no", "yes", "lost"}]]  \* whether its host is registered

DeployInit ==
  /\ SyncInit
  /\ images = {}
  /\ ready = {}
  /\ address = [k \in K8sClusters |-> NoAddress]
  /\ moves = [k \in K8sClusters |-> 0]
  /\ dns = {}
  /\ workloads = {}
  /\ deploy = [d \in Deploys |-> NoDeploy]

At(d, step) == deploy[d].step = step

Go(d, step) == deploy' = [deploy EXCEPT ![d].step = step]

Refuse(d) == Go(d, "failed")

----------------------------------------------------------------------------
(* The world.  A pipeline pushes the first image of a project, ...         *)
Push(id) ==
  /\ \E p \in projects : p.id = id
  /\ id \notin images
  /\ images' = images \cup {id}
  /\ UNCHANGED <<syncVars, ready, address, moves, dns, workloads, deploy>>

(* ... and the DAG that provisions a cluster records its kubeConfig and    *)
(* its address, on Azure perhaps without one; or provisions it anew.       *)
Provision(k, a) ==
  /\ a # address[k]
  /\ IF k \in ready THEN a # NoAddress /\ moves[k] < MaxMoves
     ELSE a # NoAddress \/ K8sCloud[k] = "AZURE"
  /\ ready' = ready \cup {k}
  /\ address' = [address EXCEPT ![k] = a]
  /\ moves' = [moves EXCEPT ![k] = IF k \in ready THEN @ + 1 ELSE @]
  /\ UNCHANGED <<syncVars, images, dns, workloads, deploy>>

----------------------------------------------------------------------------
DeployCall(d, r, k) ==
  /\ At(d, "idle")
  /\ IF r \in rows
       THEN deploy' = [deploy EXCEPT ![d].step = "project", ![d].repo = r, ![d].cluster = k]
       ELSE Refuse(d)
  /\ UNCHANGED <<syncVars, worldVars, dns, workloads>>

(* The project is the newest of those whose names hold the repository's.   *)
FindProject(d) ==
  /\ At(d, "project")
  /\ LET found == {p \in projects : <<deploy[d].repo, p.name>> \in NameIn}
     IN \/ found = {} /\ Refuse(d)
        \/ \E p \in found :
             /\ \A other \in found : other.id <= p.id
             /\ deploy' = [deploy EXCEPT ![d].step = "image", ![d].image = p.id]
  /\ UNCHANGED <<syncVars, worldVars, dns, workloads>>

GetImage(d) ==
  /\ At(d, "image")
  /\ \/ /\ deploy[d].image \in images
        /\ \E p \in projects : p.id = deploy[d].image
        /\ Go(d, "cluster")
     \/ Refuse(d)
  /\ UNCHANGED <<syncVars, worldVars, dns, workloads>>

(* An Azure cluster without an address is deployed to, but not named.      *)
ReadCluster(d) ==
  /\ At(d, "cluster")
  /\ LET k == deploy[d].cluster
     IN IF k \notin ready THEN Refuse(d)
        ELSE deploy' = [deploy EXCEPT
               ![d].step = IF address[k] = NoAddress THEN "apply" ELSE "search",
               ![d].to = address[k]]
  /\ UNCHANGED <<syncVars, worldVars, dns, workloads>>

----------------------------------------------------------------------------
(* upsertARecord: a record of the host, whichever is listed first, and     *)
(* then the write.  A failure of either is logged, and the deployment goes *)
(* on.                                                                     *)
(* The record is of the cluster's name without blanks around it and        *)
(* quotes, the host of an Azure workload has the name as it is: they are   *)
(* one here, as they are for every name that has neither.                  *)
HostOf(d) == ClusterName[deploy[d].cluster]

LoseName(d) ==
  /\ At(d, "search") \/ At(d, "write")
  /\ deploy' = [deploy EXCEPT ![d].step = "apply", ![d].named = "lost"]
  /\ UNCHANGED <<syncVars, worldVars, dns, workloads>>

Found(d, records) ==
  deploy' = [deploy EXCEPT ![d].step = "write", ![d].found = records]

(* Mutant of SearchRecord: the search is not limited to the host.          *)
SearchAnyRecord(d) ==
  /\ At(d, "search")
  /\ \/ dns = {} /\ Found(d, {})
     \/ \E rec \in dns : Found(d, {rec})
  /\ UNCHANGED <<syncVars, worldVars, dns, workloads>>

SearchRecord(d) ==
  /\ At(d, "search")
  /\ LET of == {rec \in dns : rec.host = HostOf(d)}
     IN \/ of = {} /\ Found(d, {})
        \/ \E rec \in of : Found(d, {rec})
  /\ UNCHANGED <<syncVars, worldVars, dns, workloads>>

(* Cloudflare refuses a second record of the same host and address.        *)
WriteRecord(d) ==
  /\ At(d, "write")
  /\ LET Same(rec) == rec.host = HostOf(d) /\ rec.address = deploy[d].to
         Renamed(n) == [number |-> n, host |-> HostOf(d), address |-> deploy[d].to]
         found == deploy[d].found
     IN \/ /\ \E rec \in found : rec.address = deploy[d].to  \* unchanged
           /\ UNCHANGED dns
        \/ /\ \A rec \in found : rec.address # deploy[d].to
           /\ ~\E rec \in dns : Same(rec)
           /\ LET n == IF found = {} THEN Cardinality(dns) + 1
                       ELSE (CHOOSE rec \in found : TRUE).number
              IN dns' = {rec \in dns : rec.number # n} \cup {Renamed(n)}
  /\ deploy' = [deploy EXCEPT ![d].step = "apply", ![d].named = "yes"]
  /\ UNCHANGED <<syncVars, worldVars, workloads>>

----------------------------------------------------------------------------
(* What a call asks the service for, and records.                          *)
WorkloadOf(d) ==
  [cluster |-> deploy[d].cluster, name |-> deploy[d].repo, image |-> deploy[d].image]

(* The service deploys what it is asked for in place of what there was, ...*)
Applied(w) ==
  LET replaced == {v \in workloads : v.cluster = w.cluster /\ v.name = w.name}
  IN workloads' = (workloads \ replaced) \cup {w}

(* ... or fails, having done so or not.                                    *)
Apply(d) ==
  /\ At(d, "apply")
  /\ \/ /\ Applied(WorkloadOf(d))
        /\ Go(d, "applied") \/ Go(d, "unrecorded")
     \/ Refuse(d) /\ UNCHANGED workloads
  /\ UNCHANGED <<syncVars, worldVars, dns>>

(* What a repository's page shows of it.                                   *)
DeploymentsOf(r) == {w \in recorded : w.name = r}

(* Mutant of RecordDeployment: upsert in place of create.                  *)
UpsertDeployment(d) ==
  /\ At(d, "applied")
  /\ LET r == deploy[d].repo
     IN IF r \in rows
          THEN /\ recorded' = (recorded \ DeploymentsOf(r)) \cup {WorkloadOf(d)}
               /\ Go(d, "recorded")
          ELSE Go(d, "unrecorded") /\ UNCHANGED recorded
  /\ Disturb
  /\ UNCHANGED <<rows, requests, projects, made, faults, worldVars, dns, workloads>>

(* The row refers to the repository's, and is the only one that does.      *)
RecordDeployment(d) ==
  /\ At(d, "applied")
  /\ LET r == deploy[d].repo
     IN IF r \in rows /\ DeploymentsOf(r) = {}
          THEN /\ recorded' = recorded \cup {WorkloadOf(d)}
               /\ Go(d, "recorded")
          ELSE Go(d, "unrecorded") /\ UNCHANGED recorded
  /\ Disturb
  /\ UNCHANGED <<rows, requests, projects, made, faults, worldVars, dns, workloads>>

DeployToK8sCluster(d) ==
  \/ \E r \in Repos, k \in K8sClusters : DeployCall(d, r, k)
  \/ FindProject(d) \/ GetImage(d) \/ ReadCluster(d)
  \/ SearchRecord(d) \/ WriteRecord(d) \/ LoseName(d)
  \/ Apply(d) \/ RecordDeployment(d)

DeployNext ==
  \/ \E d \in Deploys : DeployToK8sCluster(d)
  \/ \E id \in 1 .. MaxProjects : Push(id)
  \/ \E k \in K8sClusters, a \in Addresses : Provision(k, a)
  \/ \E k \in K8sClusters : Provision(k, NoAddress)
  \/ SyncNext /\ UNCHANGED <<worldVars, dns, workloads, deploy>>

DeploySpec == DeployInit /\ [][DeployNext]_deployVars

----------------------------------------------------------------------------
(* What ImageDeployment says runs there, unless another call has since     *)
(* deployed the same repository to the same cluster, which it could do     *)
(* only to fail at the unique repositoryId; what runs and is not recorded  *)
(* was left by such a call, or by one that has yet to record it; and what  *)
(* a call has answered with is all the repository's page shows.            *)
RowsAreRunning ==
  LET Deployed(d, w) == /\ At(d, "applied") \/ At(d, "unrecorded") \/ At(d, "recorded")
                        /\ WorkloadOf(d).cluster = w.cluster
                        /\ WorkloadOf(d).name = w.name
  IN /\ \A w \in recorded :
          w \in workloads
            \/ \E d \in Deploys : Deployed(d, w) /\ ~At(d, "recorded") /\ WorkloadOf(d) # w
     /\ \A w \in workloads \ recorded :
          \E d \in Deploys : Deployed(d, w) /\ ~At(d, "recorded") /\ WorkloadOf(d) = w
     /\ \A d \in Deploys : At(d, "recorded") =>
          DeploymentsOf(deploy[d].repo) = {WorkloadOf(d)}

(* The host of a deployment whose DNS record was written has a record, and *)
(* every record of a host has an address that some call read of a cluster  *)
(* of that name; so it is the cluster's, and the host has one record, when *)
(* the name is the cluster's alone and its address has never changed.      *)
HostsResolve ==
  /\ \A d \in Deploys : deploy[d].named = "yes" =>
       \E rec \in dns : rec.host = HostOf(d)
  /\ \A rec \in dns : \E d \in Deploys :
       deploy[d].named = "yes" /\ HostOf(d) = rec.host /\ deploy[d].to = rec.address
  /\ \A k \in K8sClusters :
       LET of == {rec \in dns : rec.host = ClusterName[k]}
       IN /\ moves[k] = 0
          /\ \A other \in K8sClusters \ {k} : ClusterName[other] # ClusterName[k]
          => Cardinality(of) <= 1 /\ \A rec \in of : rec.address = address[k]
=============================================================================
