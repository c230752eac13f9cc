----------------------------- MODULE Teardown -----------------------------
(***************************************************************************)
(* Provisioning and destruction side by side.  The runs of ChildDags and   *)
(* those of DestroyDags share the directories of the Airflow host, the     *)
(* cloud and the rows: what one deletes or removes, the other may be about *)
(* to read.                                                                *)
(***************************************************************************)
EXTENDS DestroyDags

CONSTANT ChildRuns

VARIABLES
  stage,     \* see ChildDags
  about,
  recorded   \* see ChildDags; what has been recorded once, its row there or not

C == INSTANCE ChildDags WITH
       present <- {r \in Requests : "request" \in rows[r]}

childVars == <<stage, about, recorded>>
allVars   == <<vars, childVars>>

TeardownInit ==
  /\ Init
  /\ stage = [i \in ChildRuns |-> "none"]
  /\ about = [i \in ChildRuns |-> C!NoSubject]
  /\ recorded = [o \in Requests \X Kinds |-> IF o \in Provisioned THEN o[1] ELSE None]

(* An entry DAG, whose run read the request's rows some time before.  No   *)
(* DAG is registered for the virtual machines of AWS.                      *)
Start(i, r, k) ==
  /\ k \in Wanted[r]
  /\ <<Provider[r], k>> # <<"AWS", "vm">>
  /\ C!Start(i, r, k)

(* terraform_apply changes into the directory; write_to_db looks for the   *)
(* state file and for the Resources with the id it got from fetch_config.  *)
(* A directory without a main file has been removed since it was written;  *)
(* that another run's failing write may have put settings there again, on  *)
(* which apply would have nothing to do, is taken for the same.            *)
FindsNothing(i) ==
  \/ stage[i] = "apply" /\ store.mains[C!DirOf(i)] = {}
  \/ stage[i] = "record" /\ store.state[C!DirOf(i)] = None
  \/ stage[i] = "record" /\ "resources" \notin rows[about[i][1]]

ProvisionFails(i) ==
  /\ FindsNothing(i)
  /\ stage' = [stage EXCEPT ![i] = "failed"]
  /\ UNCHANGED <<rows, about, store, recorded, count>>

Provision(i) ==
  \/ \E r \in Requests, k \in Kinds : Start(i, r, k)
  \/ ~FindsNothing(i) /\ (C!RunStep(i) \/ C!Faults(i))
  \/ ProvisionFails(i)

TeardownNext ==
  \/ Next /\ UNCHANGED childVars
  \/ \E i \in ChildRuns :
       /\ UNCHANGED <<rows, asked, publishing, queue, task, runs>>
       /\ Provision(i)

TeardownSpec == TeardownInit /\ [][TeardownNext]_allVars

----------------------------------------------------------------------------
TeardownStores == [files : [Dirs -> Requests \cup {None}],
                   mains : [Dirs -> SUBSET MainFiles],
                   state : [Dirs -> Requests \cup {None, Empty}],
                   cloud : SUBSET (Requests \X TfKinds)]

TeardownTypeOK ==
  /\ rows \in [Requests -> SUBSET Rows]
  /\ asked \subseteq Requests
  /\ publishing \in [Asks -> Requests \cup {None}]
  /\ queue \in Seq(Requests)
  /\ task \in [Asks -> {"none", "triggered", "success", "failed"} \cup Tasks]
  /\ dag \in [Asks -> Clouds \cup {None}]
  /\ subject \in [Asks -> Requests \cup {None}]
  /\ retried \subseteq Asks /\ named \subseteq Asks /\ broken \subseteq Asks
  /\ todo \in [Asks -> SUBSET Kinds]
  /\ store \in TeardownStores
  /\ stage \in [ChildRuns -> {"none", "success", "failed"} \cup C!Stages]
  /\ about \in [ChildRuns -> (Requests \X Kinds) \cup {C!NoSubject}]
  /\ recorded \in [Requests \X Kinds -> Requests \cup {None, Empty}]
  /\ count \in [Events -> Nat]

(* No other request's directories are r's, for provisioning or destroying, *)
(* and r's destruction does not look into another's.                       *)
Undisturbed(r) ==
  \A s \in Requests \ {r}, c \in Clouds :
    DirName[r] \notin {DirName[s], DestroyName[s][c]} /\ DestroyName[r][c] # DirName[s]

(* A provisioning run about o was created while o's request was there to   *)
(* be destroyed.                                                           *)
Reprovisioned(o) == \E i \in ChildRuns : about[i] = o

(* What exists at the cloud provider goes only if the destruction of its   *)
(* own request was asked for, whichever DAG's run took which message and   *)
(* wherever the runs stand.                                                *)
GoesOnlyIfAsked ==
  [][\A o \in store.cloud :
       o \notin store'.cloud /\ Undisturbed(o[1]) => o[1] \in asked]_allVars

(* Neither settings nor main files nor a state are in directory d.         *)
Bare(d) == store.files[d] = None /\ store.mains[d] = {} /\ store.state[d] = None

(* A run of the request's own cloud that gets as far as deleting rows with *)
(* no task failed has left nothing of any kind of the request, in the      *)
(* cloud or in a directory, unless a provisioning run about that kind came *)
(* in between.                                                             *)
CleanRunLeavesNothing ==
  \A x \in Asks :
    /\ task[x] \in {"delete", "success"} \cup Deleting /\ x \notin broken
    /\ dag[x] = Provider[subject[x]] /\ Undisturbed(subject[x])
    => \A k \in TfKinds :
         \/ Reprovisioned(<<subject[x], k>>)
         \/ <<subject[x], k>> \notin store.cloud /\ Bare(Directory(subject[x], k))

(* Terraform loses track of a resource, so that no later destroy can find  *)
(* it, only where cleanup_dir goes on after a failed task, that is on      *)
(* Azure; or if a provisioning run came in between.                        *)
LosesTrackOnlyOnAzure ==
  \A o \in store.cloud : Undisturbed(o[1]) =>
    \/ store.state[Directory(o[1], o[2])] = o[1]
    \/ Reprovisioned(o)
    \/ \E x \in broken : subject[x] = o[1] /\ dag[x] = "AZURE"

(* Rows of a request are left halfway only by a run that is at work or had *)
(* a task fail, by the removal of the request alone, by a deployment of    *)
(* its repository, or by machines that a run of the other cloud left.  No  *)
(* retry of the task ever goes on with them.                               *)
LeftoverRowsExplained ==
  \A r \in Requests : rows[r] \notin {{}, Rows} =>
    \/ \E x \in Asks : subject[x] = r /\ task[x] \in Deleting
    \/ count["faults"] > 0 /\ \E x \in Asks : subject[x] = r /\ task[x] = "failed"
    \/ rows[r] = Rows \ {"request"} /\ (r \in Deployed \/ count["requestRemovals"] > 0)
    \/ /\ rows[r] = {"instances", "config"}
       /\ \E x \in Asks : subject[x] = r /\ dag[x] # Provider[r]

(* "This action destroys ... resources for request" (infrastrutureDestroy): *)
(* as long as nothing fails by itself, the rows of a request are deleted   *)
(* only when its resources are gone.                                       *)
RowsOutliveResources ==
  count["faults"] = 0 /\ count["requestRemovals"] = 0 =>
    \A o \in store.cloud :
      "request" \notin rows[o[1]] => Reprovisioned(o)
============================================================================
