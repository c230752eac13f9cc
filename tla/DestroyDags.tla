---------------------------- MODULE DestroyDags ----------------------------
(***************************************************************************)
(* The destruction of a request's resources: the API sends the request's   *)
(* id to the queue "destroy" and triggers AZURE_Destroy or AWS_Destroy,    *)
(* whose runs take a message, run "terraform destroy" for each kind of     *)
(* instance, remove the directory and delete the rows of the request.      *)
(*                                                                         *)
(* The two DAGs share the queue and differ in what goes on after a failed  *)
(* task: cleanup_dir runs in any case on Azure and only if no task failed  *)
(* on AWS; supabase_delete_request runs in any case on both.  A task that  *)
(* fails here is one that failed with all its retries; the consumer's      *)
(* retry takes another message.                                            *)
(***************************************************************************)
EXTENDS Integers, Sequences, Terraform

CONSTANTS
  Asks,         \* calls of infra-destroy; each asks for one DAG run
  Wanted,       \* Wanted[r]: kinds of instances in r's resource config
  DestroyName,  \* DestroyName[r][c]: the name under which c's DAG looks for r's directories
  Deployed,     \* requests whose repository has an ImageDeployment
  Provisioned,  \* <<request, kind>> pairs that exist at the start
  MaxFaults,    \* bound: failing tasks, lost messages and triggers
  MaxRequestRemovals  \* bound: request rows removed

Clouds == {"AWS", "AZURE"}

ASSUME DestroyProviderAssumption == Provider \in [Requests -> Clouds]
ASSUME DestroyWantedAssumption == Wanted \in [Requests -> SUBSET Kinds]
ASSUME ProvisionedAssumption ==
  /\ Provisioned \subseteq Requests \X TfKinds
  /\ \A o, p \in Provisioned : Directory(o[1], o[2]) = Directory(p[1], p[2]) => o = p
  /\ \A o \in Provisioned :
       o[2] \in Wanted[o[1]] \/ (o[2] = "rg" /\ Provider[o[1]] = "AZURE")
ASSUME EmptyAssumption == "empty" \notin Requests /\ None # "empty"

(* The rows of a request, in the order in which they are deleted.          *)
Rows == {"request", "repository", "resources", "instances", "config"}

(* The state of a directory in which everything has been destroyed.        *)
Empty == "empty"

Tasks == {"consume", "name", "branch", "destroy", "group", "clean", "delete",
          "deleteRequest", "deleteRepository", "deleteResources", "deleteInstances", "deleteConfig"}

Deleting == {"deleteRequest", "deleteRepository", "deleteResources", "deleteInstances", "deleteConfig"}

VARIABLES
  rows,        \* rows[r]: which rows of r exist
  asked,       \* the requests whose destruction was asked for
  publishing,  \* publishing[i]: the message of i that is on its way, or None
  queue,       \* the RabbitMQ queue
  task,        \* the task each run is at, or how it ended
  dag,         \* the DAG a run is of, named by its cloud
  subject,     \* what the run's consumer returned
  retried,     \* runs whose consumer has been retried
  named,       \* runs that know the name of the repository
  todo,        \* kinds whose destroy task has not ended
  broken,      \* runs of which a task before the last failed
  store,       \* see Terraform
  count        \* how often each bounded event has happened

runs == <<dag, subject, retried, named, todo, broken>>
vars == <<rows, asked, publishing, queue, task, runs, store, count>>

Events == {"faults", "requestRemovals"}

(* Whose settings are in which directory at the start, and in its state.   *)
Owners ==
  [d \in Dirs |->
     IF \E o \in Provisioned : Directory(o[1], o[2]) = d
       THEN (CHOOSE o \in Provisioned : Directory(o[1], o[2]) = d)[1]
       ELSE None]

Init ==
  /\ rows = [r \in Requests |-> Rows]
  /\ asked = {}
  /\ publishing = [i \in Asks |-> None]
  /\ queue = <<>>
  /\ task = [i \in Asks |-> "none"]
  /\ dag = [i \in Asks |-> None]
  /\ subject = [i \in Asks |-> None]
  /\ retried = {}
  /\ named = {}
  /\ todo = [i \in Asks |-> {}]
  /\ broken = {}
  /\ store = [files |-> Owners,
              mains |-> [d \in Dirs |-> IF Owners[d] = None THEN {} ELSE {MainFile({}, Owners[d], d[2])}],
              state |-> Owners,
              cloud |-> Provisioned]
  /\ count = [e \in Events |-> 0]

Goto(i, t) == task' = [task EXCEPT ![i] = t]

Count(event, bound) ==
  /\ count[event] < bound
  /\ count' = [count EXCEPT ![event] = @ + 1]

----------------------------------------------------------------------------
(* infrastrutureDestroy: destroyRequest and triggerDag, neither awaited.   *)
(* The request's status is not looked at.                                  *)
Ask(i, r) ==
  /\ task[i] = "none"
  /\ {"request", "resources"} \subseteq rows[r]
  /\ asked' = asked \cup {r}
  /\ publishing' = [publishing EXCEPT ![i] = r]
  /\ dag' = [dag EXCEPT ![i] = Provider[r]]
  /\ Goto(i, "triggered")
  /\ UNCHANGED <<rows, queue, subject, retried, named, todo, broken, store, count>>

Publish(i) ==
  /\ publishing[i] # None
  /\ queue' = Append(queue, publishing[i])
  /\ publishing' = [publishing EXCEPT ![i] = None]
  /\ UNCHANGED <<rows, asked, task, runs, store, count>>

(* The broker cannot be reached, or the API stops before it has written.   *)
LoseMessage(i) ==
  /\ publishing[i] # None
  /\ Count("faults", MaxFaults)
  /\ publishing' = [publishing EXCEPT ![i] = None]
  /\ UNCHANGED <<rows, asked, queue, task, runs, store>>

(* The runs of a DAG that Airflow works on; max_active_runs is 1.          *)
Active(c) == {j \in Asks : dag[j] = c /\ (task[j] \in Tasks \/ todo[j] # {})}

StartRun(i) ==
  /\ task[i] = "triggered"
  /\ Active(dag[i]) = {}
  /\ Goto(i, "consume")
  /\ UNCHANGED <<rows, asked, publishing, queue, runs, store, count>>

LoseTrigger(i) ==
  /\ task[i] = "triggered"
  /\ Count("faults", MaxFaults)
  /\ Goto(i, "failed")
  /\ UNCHANGED <<rows, asked, publishing, queue, runs, store>>

----------------------------------------------------------------------------
(* Mutant of Consume: the consumer reads another queue, whose messages are *)
(* ids of requests as well.                                                *)
ConsumeElsewhere(i) ==
  /\ task[i] = "consume"
  /\ \E r \in Requests : subject' = [subject EXCEPT ![i] = r]
  /\ Goto(i, "name")
  /\ UNCHANGED <<rows, asked, publishing, queue, dag, retried, named, todo, broken, store, count>>

(* get_request_id: basic_get with auto_ack; None if the queue is empty.    *)
Consume(i) ==
  /\ task[i] = "consume"
  /\ IF queue = <<>>
       THEN UNCHANGED <<queue, subject>>
       ELSE /\ subject' = [subject EXCEPT ![i] = Head(queue)]
            /\ queue' = Tail(queue)
  /\ Goto(i, "name")
  /\ UNCHANGED <<rows, asked, publishing, dag, retried, named, todo, broken, store, count>>

(* Mutant of AfterFailure: cleanup_dir has the trigger rule all_done on    *)
(* AWS too.                                                                *)
AlwaysCleans(i) == "clean"

(* The tasks after a failed one are not run, except those whose trigger    *)
(* rule is all_done: cleanup_dir on Azure, supabase_delete_request.        *)
AfterFailure(i) == IF dag[i] = "AZURE" THEN "clean" ELSE "delete"

Breaks(i) ==
  /\ broken' = broken \cup {i}
  /\ Goto(i, AfterFailure(i))

(* The consumer dies after basic_get: the message is gone, and the retry   *)
(* takes the next one.                                                     *)
ConsumeDies(i) ==
  /\ task[i] = "consume"
  /\ queue # <<>>
  /\ Count("faults", MaxFaults)
  /\ queue' = Tail(queue)
  /\ retried' = retried \cup {i}
  /\ IF i \in retried
       THEN Breaks(i)
       ELSE UNCHANGED <<task, broken>>
  /\ UNCHANGED <<rows, asked, publishing, dag, subject, named, todo, store>>

(* get_repository_name: raises for None and for a request that is gone.    *)
Name(i) ==
  /\ task[i] = "name"
  /\ IF subject[i] # None /\ {"request", "repository"} \subseteq rows[subject[i]]
       THEN /\ named' = named \cup {i}
            /\ Goto(i, "branch")
            /\ UNCHANGED broken
       ELSE /\ Breaks(i)
            /\ UNCHANGED named
  /\ UNCHANGED <<rows, asked, publishing, queue, dag, subject, retried, todo, store, count>>

(* Mutants of Counted: db_count > 1 for db_count > 0; the group is counted *)
(* among the instances.                                                    *)
CountedOffByOne(i) ==
  IF Provider[subject[i]] = dag[i] THEN Wanted[subject[i]] \ {"db"} ELSE {}

CountedWithGroup(i) ==
  IF Provider[subject[i]] = dag[i] THEN Wanted[subject[i]] \cup {"rg"} ELSE {}

(* The instances are counted in the tables of the run's own cloud.         *)
Counted(i) == IF Provider[subject[i]] = dag[i] THEN Wanted[subject[i]] ELSE {}

(* branch_resources: with nothing to destroy it returns "end", which is no *)
(* task of the DAG, and Airflow fails the task.                            *)
Branch(i) ==
  /\ task[i] = "branch"
  /\ IF {"request", "resources"} \subseteq rows[subject[i]] /\ Counted(i) # {}
       THEN /\ todo' = [todo EXCEPT ![i] = Counted(i)]
            /\ Goto(i, "destroy")
            /\ UNCHANGED broken
       ELSE /\ Breaks(i)
            /\ UNCHANGED todo
  /\ UNCHANGED <<rows, asked, publishing, queue, dag, subject, retried, named, store, count>>

(* terraform/rg-{Repository.name}/{kind} on Azure, where provisioning has  *)
(* used Resources.name, and terraform/{Repository.name}/{kind} on AWS; a   *)
(* run of the other cloud looks under that cloud's name for it.            *)
DestroyDir(i, k) == <<DestroyName[subject[i]][dag[i]], k>>

Exists(d) == d \in Dirs /\ store.files[d] # None

(* cd and terraform init go well.                                          *)
Destroyable(d) == Exists(d) /\ ~Clashes(store, d)

(* terraform destroy: everything the state lists is gone.                  *)
Destroyed(d) ==
  [store EXCEPT !.state[d] = Empty, !.cloud = @ \ {<<store.state[d], d[2]>>}]

(* Where a run goes when its destroy task of kind k has ended.  The tasks  *)
(* behind a failed one have failed with it at once: what is to be done in  *)
(* any case does not wait for the other destroy tasks.                     *)
AfterDestroy(i, k, well) ==
  IF task[i] # "destroy" THEN task[i]
  ELSE IF ~well THEN AfterFailure(i)
  ELSE IF todo[i] # {k} THEN "destroy"
  ELSE IF dag[i] = "AZURE" THEN "group" ELSE "clean"

(* terraform_destroy_vm, _db, _st (ec2, rds, s3) run side by side: one of  *)
(* them ends, well or badly.  One that is under way when its directory is  *)
(* removed has either been through or fails.                               *)
DestroyEnds(i, k, well) ==
  /\ k \in todo[i]
  /\ todo' = [todo EXCEPT ![i] = @ \ {k}]
  /\ broken' = IF well THEN broken ELSE broken \cup {i}
  /\ Goto(i, AfterDestroy(i, k, well))
  /\ UNCHANGED <<rows, asked, publishing, queue, dag, subject, retried, named>>

(* Terraform looks at the state alone, once the directory is there and the *)
(* main files in it do not clash.                                          *)
Destroy(i, k) ==
  /\ DestroyEnds(i, k, Destroyable(DestroyDir(i, k)))
  /\ store' = IF Destroyable(DestroyDir(i, k)) THEN Destroyed(DestroyDir(i, k)) ELSE store
  /\ UNCHANGED count

(* A destroy that fails may have been through.                             *)
DestroyFails(i, k) ==
  /\ DestroyEnds(i, k, FALSE)
  /\ Count("faults", MaxFaults)
  /\ store' \in {store} \cup {Destroyed(d) : d \in {DestroyDir(i, k)} \cap {d \in Dirs : Destroyable(d)}}

(* terraform_destroy_rg, of AZURE_Destroy only.                            *)
DestroyGroup(i) ==
  LET d == DestroyDir(i, "rg")
  IN  /\ task[i] = "group"
      /\ IF Destroyable(d)
           THEN /\ store' = Destroyed(d)
                /\ Goto(i, "clean")
                /\ UNCHANGED broken
           ELSE /\ Breaks(i)
                /\ UNCHANGED store
      /\ UNCHANGED <<rows, asked, publishing, queue, dag, subject, retried, named, todo, count>>

(* cleanup_directory: without a name it removes a directory named None.    *)
Cleaned(i) ==
  LET tree == IF i \in named THEN {DestroyDir(i, k) : k \in TfKinds} ELSE {}
  IN  [store EXCEPT !.files = [d \in Dirs |-> IF d \in tree THEN None ELSE @[d]],
                    !.mains = [d \in Dirs |-> IF d \in tree THEN {} ELSE @[d]],
                    !.state = [d \in Dirs |-> IF d \in tree THEN None ELSE @[d]]]

Clean(i) ==
  /\ task[i] = "clean"
  /\ store' = Cleaned(i)
  /\ Goto(i, "delete")
  /\ UNCHANGED <<rows, asked, publishing, queue, runs, count>>

----------------------------------------------------------------------------
(* supabase_delete_request commits after each kind of row.                 *)
Loses(r, row) == rows' = [rows EXCEPT ![r] = @ \ {row}]

(* A request that is gone raises, also when an attempt before was          *)
(* interrupted: the retries of this task never go on with its work.        *)
SelectRequest(i) ==
  /\ task[i] = "delete"
  /\ Goto(i, IF subject[i] # None /\ "request" \in rows[subject[i]]
               THEN "deleteRequest" ELSE "failed")
  /\ UNCHANGED <<rows, asked, publishing, queue, runs, store, count>>

DeleteRequest(i) ==
  /\ task[i] = "deleteRequest"
  /\ Loses(subject[i], "request")
  /\ Goto(i, "deleteRepository")
  /\ UNCHANGED <<asked, publishing, queue, runs, store, count>>

(* An ImageDeployment of the repository restricts its deletion.            *)
DeleteRepository(i) ==
  /\ task[i] = "deleteRepository"
  /\ IF subject[i] \in Deployed
       THEN Goto(i, "failed") /\ UNCHANGED rows
       ELSE Goto(i, "deleteResources") /\ Loses(subject[i], "repository")
  /\ UNCHANGED <<asked, publishing, queue, runs, store, count>>

(* Mutant of DeleteResources: the rest is left to the schema, which does   *)
(* not cascade from Resources to the configuration.                        *)
DeleteResourcesOnly(i) ==
  /\ task[i] = "deleteResources"
  /\ Goto(i, "success")
  /\ Loses(subject[i], "resources")
  /\ UNCHANGED <<asked, publishing, queue, runs, store, count>>

DeleteResources(i) ==
  /\ task[i] = "deleteResources"
  /\ IF "resources" \in rows[subject[i]]
       THEN Goto(i, "deleteInstances") /\ Loses(subject[i], "resources")
       ELSE Goto(i, "failed") /\ UNCHANGED rows
  /\ UNCHANGED <<asked, publishing, queue, runs, store, count>>

(* Only instances of the run's own cloud.                                  *)
DeleteInstances(i) ==
  /\ task[i] = "deleteInstances"
  /\ Goto(i, "deleteConfig")
  /\ IF Provider[subject[i]] = dag[i]
       THEN Loses(subject[i], "instances")
       ELSE UNCHANGED rows
  /\ UNCHANGED <<asked, publishing, queue, runs, store, count>>

(* The schema cascades from the configuration to its instances, except to  *)
(* AwsVMInstance, which restricts.                                         *)
DeleteConfig(i) ==
  /\ task[i] = "deleteConfig"
  /\ IF "instances" \in rows[subject[i]]
          /\ Provider[subject[i]] = "AWS" /\ "vm" \in Wanted[subject[i]]
       THEN Goto(i, "failed") /\ UNCHANGED rows
       ELSE /\ Goto(i, "success")
            /\ rows' = [rows EXCEPT ![subject[i]] = @ \ {"instances", "config"}]
  /\ UNCHANGED <<asked, publishing, queue, runs, store, count>>

DeleteStep(i) ==
  \/ SelectRequest(i)
  \/ DeleteRequest(i)
  \/ DeleteRepository(i)
  \/ DeleteResources(i)
  \/ DeleteInstances(i)
  \/ DeleteConfig(i)

----------------------------------------------------------------------------
(* A task fails with all its retries, other than a destroy of instances; a *)
(* destroy or a cleanup that fails may have been through.                  *)
TaskFails(i) ==
  /\ Count("faults", MaxFaults)
  /\ \/ task[i] \in {"name", "branch"} /\ Breaks(i) /\ UNCHANGED store
     \/ /\ task[i] = "group"
        /\ Breaks(i)
        /\ \/ UNCHANGED store
           \/ Destroyable(DestroyDir(i, "rg")) /\ store' = Destroyed(DestroyDir(i, "rg"))
     \/ /\ task[i] = "clean"
        /\ broken' = broken \cup {i}
        /\ Goto(i, "delete")
        /\ store' \in {store, Cleaned(i)}
     \/ task[i] \in {"delete"} \cup Deleting /\ Goto(i, "failed") /\ UNCHANGED <<broken, store>>
  /\ UNCHANGED <<rows, asked, publishing, queue, dag, subject, retried, named, todo>>

(* DELETE /request/:id.                                                    *)
RemoveRequest(r) ==
  /\ "request" \in rows[r]
  /\ Count("requestRemovals", MaxRequestRemovals)
  /\ Loses(r, "request")
  /\ UNCHANGED <<asked, publishing, queue, task, runs, store>>

Work(i) ==
  \/ Consume(i)
  \/ Name(i)
  \/ Branch(i)
  \/ DestroyGroup(i)
  \/ Clean(i)
  \/ DeleteStep(i)
  \/ \E k \in Kinds : Destroy(i, k)

Faults(i) ==
  \/ LoseMessage(i)
  \/ LoseTrigger(i)
  \/ ConsumeDies(i)
  \/ TaskFails(i)
  \/ \E k \in Kinds : DestroyFails(i, k)

Next ==
  \/ \E i \in Asks, r \in Requests : Ask(i, r)
  \/ \E i \in Asks : Publish(i) \/ StartRun(i) \/ Work(i) \/ Faults(i)
  \/ \E r \in Requests : RemoveRequest(r)

Spec == Init /\ [][Next]_vars
============================================================================
