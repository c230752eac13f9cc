-------------------------- MODULE ClusterRequests --------------------------
(***************************************************************************)
(* Kubernetes clusters: how one is asked for, listed, and dispatched once  *)
(* an administrator has decided.                                           *)
(*                                                                         *)
(* A PATCH names the cluster request by an id its caller has read from a   *)
(* listing, at some earlier time; four of the listings show the id of the  *)
(* Resources row in its place.  The status is written first, and nothing   *)
(* looks at the one before; for an Approved one the message and the        *)
(* trigger leave together, and only the trigger needs a role in the token. *)
(* The DAGs that serve the clusters are not part of the repository, nor is *)
(* what happens to an emitted message; EntryDags shows it for requests.    *)
(***************************************************************************)
EXTENDS Integers, FiniteSets

CONSTANTS
  Clusters,       \* calls of createCluster, and the rows each makes
  Patches,        \* calls of updateClusterRequestStatus
  ClusterClouds   \* AZURE, AWS

ASSUME PatchesAssumption == IsFiniteSet(Patches)

VARIABLES
  cluster,  \* per creation: how far it is, the cloud, the status of its row
  patch,    \* per call: its step, the id it names, the status it writes
  emitted,  \* messages emitted for each cluster
  started,  \* runs started of each cloud's DAG
  reset     \* history: clusters that a call gave a status other than Approved

clusterVars == <<cluster, patch, emitted, started, reset>>

(* Deleted is one more that is not Approved.                               *)
ClusterStatuses == {"Pending", "Approved", "Rejected"}

(* A request row and its Resources row have ids of their own.              *)
Ids == [table : {"request", "resource"}, of : Clusters]

IdleCluster == [step |-> "idle", cloud |-> "unknown", status |-> "Pending"]
NoId == [table |-> "none"]
IdlePatch == [step |-> "idle", id |-> NoId, listing |-> "none", status |-> "Pending",
              after |-> {}]

CreationSteps == {"idle", "looked up", "configured", "resourced", "made", "failed"}
PatchSteps == {"idle", "listed", "found", "updated", "triggering",
               "done", "refused", "half", "failed"}
Listings == {"pending", "resources", "byStatus"}

Creation == [step   : CreationSteps,
             cloud  : ClusterClouds \cup {"unknown"},
             status : ClusterStatuses]
Patch == [step    : PatchSteps,
          id      : Ids \cup {NoId},
          listing : Listings \cup {"none"},
          status  : ClusterStatuses,
          after   : SUBSET Patches]   \* history: calls whose dispatch came before

ClusterTypeOK ==
  /\ cluster \in [Clusters -> Creation]
  /\ patch \in [Patches -> Patch]
  /\ emitted \in [Clusters -> Nat]
  /\ started \in [ClusterClouds -> Nat]
  /\ reset \subseteq Clusters

ClusterInit ==
  /\ cluster = [c \in Clusters |-> IdleCluster]
  /\ patch = [h \in Patches |-> IdlePatch]
  /\ emitted = [c \in Clusters |-> 0]
  /\ started = [p \in ClusterClouds |-> 0]
  /\ reset = {}

----------------------------------------------------------------------------
(* createCluster: the owner, the ResourceConfig with its cluster, the      *)
(* Resources and at last the request; what an await leaves stays when a    *)
(* later one fails.  Both routes run it, for the cloud the body names.     *)
CreateCluster(c) ==
  \E step \in {"looked up", "configured", "resourced", "made", "failed"} :
    /\ <<cluster[c].step, step>> \in
         {<<"idle", "looked up">>, <<"looked up", "configured">>,
          <<"configured", "resourced">>, <<"resourced", "made">>,
          <<"looked up", "failed">>, <<"configured", "failed">>,
          <<"resourced", "failed">>}
    /\ \E p \in ClusterClouds :
         /\ cluster[c].step = "idle" \/ p = cluster[c].cloud
         /\ cluster' = [cluster EXCEPT ![c].step = step, ![c].cloud = p]
    /\ UNCHANGED <<patch, emitted, started, reset>>

----------------------------------------------------------------------------
(* The rows of ClusterRequest with a status.                               *)
WithStatus(s) == {c \in Clusters : cluster[c].step = "made" /\ cluster[c].status = s}

(* Mutant of PendingListing: it shows clusters whatever their status.      *)
PendingListingUnfiltered ==
  [table : {"request"}, of : {c \in Clusters : cluster[c].step = "made"}]

(* The listings.  A row of the pending and the by-status one has the id of *)
(* the request; the approved ones, and those of a user's own clusters, are *)
(* lists of Resources and name these.                                      *)
PendingListing      == [table : {"request"}, of : WithStatus("Pending")]
StatusListing       == [table : {"request"}, of : UNION {WithStatus(s) : s \in ClusterStatuses}]
ApprovedListing     == [table : {"resource"}, of : WithStatus("Approved")]
OwnListing          == [table : {"resource"}, of : {c \in Clusters : cluster[c].step = "made"}]
OwnStatusListing(s) == [table : {"resource"}, of : WithStatus(s)]
OwnApprovedListing  == OwnStatusListing("Approved")

Shown(listing) ==
  CASE listing = "pending"   -> PendingListing
    [] listing = "byStatus"  -> StatusListing
    [] listing = "resources" -> ApprovedListing \cup OwnListing \cup OwnApprovedListing
                                  \cup UNION {OwnStatusListing(s) : s \in ClusterStatuses}

(* What looks a clusterRequestId up in the one table or in the other.      *)
IsRequest(id)  == id.table = "request"
IsResource(id) == id.table = "resource"

(* h has emitted a message.                                                *)
Dispatched(h) == \/ patch[h].step \in {"triggering", "half"}
                 \/ patch[h].step = "done" /\ patch[h].status = "Approved"

(* An administrator picks a cluster from a listing and decides.            *)
Pick(h, listing, id, s) ==
  /\ patch[h].step = "idle"
  /\ id \in Shown(listing)
  /\ patch' = [patch EXCEPT ![h] =
       [step |-> "listed", id |-> id, listing |-> listing, status |-> s,
        after |-> {g \in Patches : patch[g].id = id /\ Dispatched(g)}]]
  /\ UNCHANGED <<cluster, emitted, started, reset>>

----------------------------------------------------------------------------
(* updateClusterRequestStatus.                                             *)
Of(h) == patch[h].id.of

(* The request by its id, and its Resources.  Neither is ever deleted: the *)
(* two lookups see what they would at the same time.                       *)
Find(h) ==
  /\ patch[h].step = "listed"
  /\ patch' = [patch EXCEPT ![h].step =
                 IF IsRequest(patch[h].id) THEN "found" ELSE "refused"]
  /\ UNCHANGED <<cluster, emitted, started, reset>>

(* "update status first"                                                   *)
WriteStatus(h) ==
  /\ patch[h].step = "found"
  /\ cluster' = [cluster EXCEPT ![Of(h)].status = patch[h].status]
  /\ patch' = [patch EXCEPT ![h].step =
                 IF patch[h].status = "Approved" THEN "updated" ELSE "done"]
  /\ reset' = IF patch[h].status = "Approved" THEN reset ELSE reset \cup {Of(h)}
  /\ UNCHANGED <<emitted, started>>

(* Mutant of DispatchCluster: only Azure clusters are queued.              *)
DispatchAzureOnly(h, hasRole) ==
  /\ patch[h].step = "updated"
  /\ emitted' = [emitted EXCEPT ![Of(h)] =
                   IF cluster[Of(h)].cloud = "AZURE" THEN @ + 1 ELSE @]
  /\ patch' = [patch EXCEPT ![h].step = IF hasRole THEN "triggering" ELSE "half"]
  /\ UNCHANGED <<cluster, started, reset>>

(* queueResource and triggerDag in one go.  The message is out when        *)
(* triggerDag rejects a token without a role, as a refreshed one is.       *)
DispatchCluster(h, hasRole) ==
  /\ patch[h].step = "updated"
  /\ emitted' = [emitted EXCEPT ![Of(h)] = @ + 1]
  /\ patch' = [patch EXCEPT ![h].step = IF hasRole THEN "triggering" ELSE "half"]
  /\ UNCHANGED <<cluster, started, reset>>

(* Airflow starts the run; without its answer the call fails, whether the  *)
(* run has started or not.                                                 *)
Trigger(h) ==
  /\ patch[h].step = "triggering"
  /\ \E run, answer \in BOOLEAN :
       /\ answer => run
       /\ started' = [started EXCEPT ![cluster[Of(h)].cloud] = IF run THEN @ + 1 ELSE @]
       /\ patch' = [patch EXCEPT ![h].step = IF answer THEN "done" ELSE "half"]
  /\ UNCHANGED <<cluster, emitted, reset>>

(* A statement fails before the message is out.                            *)
FailPatch(h) ==
  /\ patch[h].step \in {"listed", "found"}
  /\ patch' = [patch EXCEPT ![h].step = "failed"]
  /\ UNCHANGED <<cluster, emitted, started, reset>>

UpdateClusterRequestStatus(h) ==
  \/ Find(h) \/ WriteStatus(h) \/ Trigger(h) \/ FailPatch(h)
  \/ \E hasRole \in BOOLEAN : DispatchCluster(h, hasRole)

ClusterNext ==
  \/ \E c \in Clusters : CreateCluster(c)
  \/ \E h \in Patches, listing \in Listings, id \in Ids,
        s \in ClusterStatuses : Pick(h, listing, id, s)
  \/ \E h \in Patches : UpdateClusterRequestStatus(h)

ClusterSpec == ClusterInit /\ [][ClusterNext]_clusterVars

----------------------------------------------------------------------------
(* A cluster that shows as Approved has a message out, or a call that      *)
(* approves it is about to emit one; each message has one call that sent   *)
(* it; and every call that answered its caller with success has a run of   *)
(* the cluster's cloud, every run having a call that sent its message: a   *)
(* message without a run is left only by a call that failed half-way.      *)
SplitDispatchExplained ==
  LET Calls(p, steps) == {h \in Patches : /\ Dispatched(h)
                                          /\ patch[h].step \in steps
                                          /\ cluster[Of(h)].cloud = p}
  IN /\ \A c \in WithStatus("Approved") :
          emitted[c] > 0 \/ \E h \in Patches : patch[h].step = "updated" /\ Of(h) = c
     /\ \A c \in Clusters :
          emitted[c] = Cardinality({h \in Patches : Dispatched(h) /\ Of(h) = c})
     /\ \A p \in ClusterClouds :
          /\ Cardinality(Calls(p, {"done"})) <= started[p]
          /\ started[p] <= Cardinality(Calls(p, {"done", "half"}))

(* A cluster is dispatched again, by a call whose caller read the list     *)
(* after the first dispatch, only if he read a listing that shows clusters *)
(* of any status, or some call had taken the approval back: the pending    *)
(* listing leads to no second dispatch, and those of Resources to none.    *)
RepeatedDispatchWasAsked ==
  \A h \in Patches :
    Dispatched(h) =>
      /\ patch[h].after # {} => patch[h].listing = "byStatus" \/ Of(h) \in reset
      /\ ~IsResource(patch[h].id)
=============================================================================
