----------------------------- MODULE EntryDags -----------------------------
(***************************************************************************)
(* From the dispatch of an approved request to the start of the DAGs that  *)
(* provision its resources.                                                *)
(*                                                                         *)
(* A dispatch sends the request's id to the RabbitMQ queue "request" and,  *)
(* independently, asks Airflow for a run of AZURE_Resource_Group or        *)
(* AWS_Resources.  The trigger carries no request id: the first task of    *)
(* every run takes whatever is at the head of the queue, which both DAGs   *)
(* share, and acknowledges it before anything is done about it.            *)
(*                                                                         *)
(* A task of these DAGs has one retry.  The tasks other than the consumer  *)
(* may be repeated without effect, so that a task that fails here is one   *)
(* that failed twice; the consumer's retry takes another message and is    *)
(* modelled as such.                                                       *)
(***************************************************************************)
EXTENDS Integers, FiniteSets, SequencesExt, Terraform

CONSTANTS
  Sends,        \* dispatches of the API; each asks for one DAG run
  DirectRuns,   \* runs started through POST /airflow/:dagId/dagRuns
  Wanted,       \* Wanted[r]: kinds of instances in r's resource config
  MaxFaults,    \* bound: failing tasks
  MaxLosses,    \* bound: lost messages and triggers
  MaxRequestRemovals  \* bound: request rows removed

Clouds == {"AWS", "AZURE"}

ASSUME SendsAssumption == Sends \cap DirectRuns = {} /\ None \notin Sends
(* The clouds, or "none" for a request for a cluster.                      *)
ASSUME ProviderAssumption == Provider \in [Requests -> Clouds \cup {"none"}]
ASSUME WantedAssumption == Wanted \in [Requests -> SUBSET Kinds]

Runs == Sends \cup DirectRuns

(* Messages carry the id of their dispatch only to tell them apart; the    *)
(* code sends the request id alone.                                        *)
Message == [id : Sends, request : Requests]
NoMessage == [id |-> None, request |-> None]

Tasks == {"consume", "fetch", "write", "apply", "branch", "trigger"}

VARIABLES
  present,     \* the requests whose row exists
  sent,        \* the dispatches made
  publishing,  \* messages on their way to the broker
  triggering,  \* triggers on their way to Airflow
  queue,       \* the RabbitMQ queue
  dropped,     \* messages acknowledged by a consumer that then failed
  task,        \* the task each run is at, or how it ended
  dag,         \* the DAG a run is of, named by its cloud
  message,     \* what the run's consumer returned
  retried,     \* whether the consumer of the run has been retried
  branches,    \* kinds whose trigger task has still to run
  broken,      \* whether a trigger task of the run failed
  triggered,   \* the runs of provisioning DAGs that were created
  store,       \* see Terraform
  count        \* how often each bounded event has happened

transport == <<sent, publishing, triggering>>
locals    == <<dag, message, retried, branches, broken>>
vars == <<present, sent, publishing, triggering, queue, dropped, task, dag, message,
          retried, branches, broken, triggered, store, count>>

Child == [run : Runs, request : Requests, kind : Kinds]

Events == {"faults", "losses", "requestRemovals"}

TypeOK ==
  /\ present \subseteq Requests
  /\ sent \subseteq Sends
  /\ publishing \subseteq Message
  /\ triggering \subseteq Sends
  /\ queue \in Seq(Message)
  /\ dropped \subseteq Message
  /\ task \in [Runs -> {"none", "success", "failed"} \cup Tasks]
  /\ dag \in [Runs -> Clouds \cup {None}]
  /\ message \in [Runs -> Message \cup {NoMessage}]
  /\ retried \in [Runs -> BOOLEAN]
  /\ branches \in [Runs -> SUBSET Kinds]
  /\ broken \in [Runs -> BOOLEAN]
  /\ triggered \subseteq Child
  /\ store \in Stores
  /\ count \in [Events -> Nat]

Init ==
  /\ present = Requests
  /\ sent = {}
  /\ publishing = {}
  /\ triggering = {}
  /\ queue = <<>>
  /\ dropped = {}
  /\ task = [x \in Runs |-> "none"]
  /\ dag = [x \in Runs |-> None]
  /\ message = [x \in Runs |-> NoMessage]
  /\ retried = [x \in Runs |-> FALSE]
  /\ branches = [x \in Runs |-> {}]
  /\ broken = [x \in Runs |-> FALSE]
  /\ triggered = {}
  /\ store = EmptyStore
  /\ count = [e \in Events |-> 0]

Goto(x, t) == task' = [task EXCEPT ![x] = t]

Count(event, bound) ==
  /\ count[event] < bound
  /\ count' = [count EXCEPT ![event] = @ + 1]

----------------------------------------------------------------------------
(* Mutant of Send: the trigger of AWS_Resources is missing.                *)
SendAzureTriggersOnly(i, r) ==
  /\ i \notin sent
  /\ Provider[r] # "none"
  /\ sent' = sent \cup {i}
  /\ publishing' = publishing \cup {[id |-> i, request |-> r]}
  /\ triggering' = IF Provider[r] = "AZURE" THEN triggering \cup {i} ELSE triggering
  /\ dag' = [dag EXCEPT ![i] = Provider[r]]
  /\ UNCHANGED <<present, queue, dropped, task, message, retried, branches, broken,
                 triggered, store, count>>

(* queueRequest and triggerDag, called one after the other, not awaited.   *)
Send(i, r) ==
  /\ i \notin sent
  /\ Provider[r] # "none"
  /\ sent' = sent \cup {i}
  /\ publishing' = publishing \cup {[id |-> i, request |-> r]}
  /\ triggering' = triggering \cup {i}
  /\ dag' = [dag EXCEPT ![i] = Provider[r]]
  /\ UNCHANGED <<present, queue, dropped, task, message, retried, branches, broken,
                 triggered, store, count>>

Publish(m) ==
  /\ m \in publishing
  /\ publishing' = publishing \ {m}
  /\ queue' = Append(queue, m)
  /\ UNCHANGED <<present, sent, triggering, dropped, task, locals, triggered, store, count>>

(* The broker cannot be reached, or the API stops before it has written.   *)
LoseMessage(m) ==
  /\ m \in publishing
  /\ Count("losses", MaxLosses)
  /\ publishing' = publishing \ {m}
  /\ UNCHANGED <<present, sent, triggering, queue, dropped, task, locals, triggered, store>>

StartRun(i) ==
  /\ i \in triggering
  /\ triggering' = triggering \ {i}
  /\ Goto(i, "consume")
  /\ UNCHANGED <<present, sent, publishing, queue, dropped, locals, triggered, store, count>>

(* The user's token has no role that may trigger, or Airflow refuses.      *)
LoseTrigger(i) ==
  /\ i \in triggering
  /\ Count("losses", MaxLosses)
  /\ triggering' = triggering \ {i}
  /\ UNCHANGED <<present, sent, publishing, queue, dropped, task, locals, triggered, store>>

(* A user runs one of the DAGs by its id.                                  *)
StartDirect(x, c) ==
  /\ task[x] = "none"
  /\ dag' = [dag EXCEPT ![x] = c]
  /\ Goto(x, "consume")
  /\ UNCHANGED <<present, transport, queue, dropped, message, retried, branches, broken,
                 triggered, store, count>>

----------------------------------------------------------------------------
(* Mutants of Consume: the message is not acknowledged; the newest message *)
(* is taken.                                                               *)
ConsumeUnacknowledged(x) ==
  /\ task[x] = "consume"
  /\ message' = [message EXCEPT ![x] = IF queue = <<>> THEN NoMessage ELSE Head(queue)]
  /\ Goto(x, "fetch")
  /\ UNCHANGED <<present, transport, queue, dropped, dag, retried, branches, broken,
                 triggered, store, count>>

ConsumeNewest(x) ==
  /\ task[x] = "consume"
  /\ IF queue = <<>>
       THEN UNCHANGED <<queue, message>>
       ELSE /\ message' = [message EXCEPT ![x] = Last(queue)]
            /\ queue' = Front(queue)
  /\ Goto(x, "fetch")
  /\ UNCHANGED <<present, transport, dropped, dag, retried, branches, broken,
                 triggered, store, count>>

(* get_request_id: basic_get with auto_ack.  An empty queue is no error:   *)
(* the task returns None.                                                  *)
Consume(x) ==
  /\ task[x] = "consume"
  /\ IF queue = <<>>
       THEN UNCHANGED <<queue, message>>
       ELSE /\ message' = [message EXCEPT ![x] = Head(queue)]
            /\ queue' = Tail(queue)
  /\ Goto(x, "fetch")
  /\ UNCHANGED <<present, transport, dropped, dag, retried, branches, broken,
                 triggered, store, count>>

(* The task dies after basic_get: the message is gone, and the retry takes *)
(* the next one.                                                           *)
ConsumeDies(x) ==
  /\ task[x] = "consume"
  /\ queue # <<>>
  /\ Count("faults", MaxFaults)
  /\ dropped' = dropped \cup {Head(queue)}
  /\ queue' = Tail(queue)
  /\ retried' = [retried EXCEPT ![x] = TRUE]
  /\ Goto(x, IF retried[x] THEN "failed" ELSE "consume")
  /\ UNCHANGED <<present, transport, dag, message, branches, broken, triggered, store>>

(* Mutants of Counted: the instances of every cloud are counted; the       *)
(* resource group is counted among them.                                   *)
CountedAnyCloud(x) == Wanted[message[x].request]
CountedWithGroup(x) == Wanted[message[x].request] \cup {"rg"}

(* get_config_info: None and a request that is gone raise; otherwise the   *)
(* instances are counted in the tables of the run's own cloud.             *)
Counted(x) ==
  LET r == message[x].request
  IN  IF Provider[r] = dag[x] THEN Wanted[r] ELSE {}

(* Mutant of Fetch: no run makes a resource group.                         *)
FetchSkipsGroup(x) ==
  /\ task[x] = "fetch"
  /\ IF message[x] # NoMessage /\ message[x].request \in present
       THEN Goto(x, "branch") /\ branches' = [branches EXCEPT ![x] = Counted(x)]
       ELSE Goto(x, "failed") /\ UNCHANGED branches
  /\ UNCHANGED <<present, transport, queue, dropped, dag, message, retried, broken,
                 triggered, store, count>>

Fetch(x) ==
  /\ task[x] = "fetch"
  /\ IF message[x] # NoMessage /\ message[x].request \in present
       THEN /\ branches' = [branches EXCEPT ![x] = Counted(x)]
            /\ Goto(x, IF dag[x] = "AZURE" THEN "write" ELSE "branch")
       ELSE /\ Goto(x, "failed")
            /\ UNCHANGED branches
  /\ UNCHANGED <<present, transport, queue, dropped, dag, message, retried, broken,
                 triggered, store, count>>

(* create_tf_dir and write_tf_files of AZURE_Resource_Group, which has one *)
(* main file, and overwrites it.                                           *)
GroupDir(x) == Directory(message[x].request, "rg")

WriteFiles(x) ==
  /\ task[x] = "write"
  /\ store' = Written(store, GroupDir(x), message[x].request)
  /\ Goto(x, "apply")
  /\ UNCHANGED <<present, transport, queue, dropped, locals, triggered, count>>

ApplyGroup(x) ==
  /\ task[x] = "apply"
  /\ store' = Applied(store, GroupDir(x))
  /\ Goto(x, "branch")
  /\ UNCHANGED <<present, transport, queue, dropped, locals, triggered, count>>

(* Mutant of Branch: dbCount > 1 for dbCount > 0.                          *)
BranchOffByOne(x) ==
  /\ task[x] = "branch"
  /\ Goto(x, IF branches[x] \ {"db"} = {} THEN "success" ELSE "trigger")
  /\ branches' = [branches EXCEPT ![x] = @ \ {"db"}]
  /\ UNCHANGED <<present, transport, queue, dropped, dag, message, retried, broken,
                 triggered, store, count>>

(* branch_resources: with nothing to trigger, the run goes to its end.     *)
Branch(x) ==
  /\ task[x] = "branch"
  /\ Goto(x, IF branches[x] = {} THEN "success" ELSE "trigger")
  /\ UNCHANGED <<present, transport, queue, dropped, locals, triggered, store, count>>

(* The provisioning DAGs that exist.  AWS_provide_vm.py registers its DAG  *)
(* as AZURE_terraform_vm_provision: there is no AWS_terraform_vm_provision.*)
Registered == (Clouds \X Kinds) \ {<<"AWS", "vm">>}

(* One trigger task ends, well or badly; the last one ends the run.        *)
TriggerEnds(x, k, well) ==
  /\ task[x] = "trigger"
  /\ k \in branches[x]
  /\ branches' = [branches EXCEPT ![x] = @ \ {k}]
  /\ broken' = [broken EXCEPT ![x] = @ \/ ~well]
  /\ Goto(x, IF branches[x] # {k} THEN "trigger"
             ELSE IF broken'[x] THEN "failed" ELSE "success")
  /\ triggered' = IF well
                    THEN triggered \cup {[run |-> x, request |-> message[x].request, kind |-> k]}
                    ELSE triggered
  /\ UNCHANGED <<present, transport, queue, dropped, dag, message, retried, store>>

TriggerChild(x, k) ==
  /\ TriggerEnds(x, k, <<dag[x], k>> \in Registered)
  /\ UNCHANGED count

TriggerFails(x, k) ==
  /\ TriggerEnds(x, k, FALSE)
  /\ Count("faults", MaxFaults)

(* A task fails with its retry; one that writes or applies may have been   *)
(* through, or halfway.                                                    *)
TaskFails(x) ==
  /\ task[x] \in Tasks \ {"trigger"}
  /\ Count("faults", MaxFaults)
  /\ Goto(x, "failed")
  /\ \/ UNCHANGED store
     \/ task[x] = "write" /\ store' \in PartlyWritten(store, GroupDir(x), message[x].request)
     \/ task[x] = "apply" /\ store' = Applied(store, GroupDir(x))
  /\ UNCHANGED <<present, transport, queue, dropped, locals, triggered>>

(* DELETE /request/:id.                                                    *)
RemoveRequest(r) ==
  /\ r \in present
  /\ Count("requestRemovals", MaxRequestRemovals)
  /\ present' = present \ {r}
  /\ UNCHANGED <<transport, queue, dropped, task, locals, triggered, store>>

----------------------------------------------------------------------------
(* What happens by itself: the transport delivers, the scheduler goes on.  *)
Deliver == (\E m \in publishing : Publish(m)) \/ (\E i \in triggering : StartRun(i))

Work(x) ==
  \/ Consume(x)
  \/ Fetch(x)
  \/ WriteFiles(x)
  \/ ApplyGroup(x)
  \/ Branch(x)

RunStep(x) == Work(x) \/ \E k \in Kinds : TriggerChild(x, k)

Faults ==
  \/ \E m \in publishing : LoseMessage(m)
  \/ \E i \in triggering : LoseTrigger(i)
  \/ \E x \in Runs :
       \/ ConsumeDies(x)
       \/ TaskFails(x)
       \/ \E k \in Kinds : TriggerFails(x, k)

Next ==
  \/ \E i \in Sends, r \in Requests : Send(i, r)
  \/ \E x \in DirectRuns, c \in Clouds : StartDirect(x, c)
  \/ \E r \in Requests : RemoveRequest(r)
  \/ Deliver
  \/ \E x \in Runs : RunStep(x)
  \/ Faults

Spec == Init /\ [][Next]_vars

(* What is in transit arrives unless it is lost, and Airflow's scheduler   *)
(* and workers go on with every run.                                       *)
FairSpec ==
  /\ Spec
  /\ WF_vars(Deliver)
  /\ \A x \in Runs : WF_vars(RunStep(x))

----------------------------------------------------------------------------
(* Every message is in one place: no run ever works on a message that is   *)
(* still queued or that another run has, whichever DAG it is of and        *)
(* however consumers and their retries interleave.                         *)
NoMessageTwice ==
  /\ \A i, j \in DOMAIN queue : queue[i] = queue[j] => i = j
  /\ publishing \cap ToSet(queue) = {}
  /\ dropped \cap (publishing \cup ToSet(queue)) = {}
  /\ \A x \in Runs : message[x] # NoMessage =>
       /\ message[x] \notin publishing \cup ToSet(queue) \cup dropped
       /\ \A y \in Runs : message[y] = message[x] => y = x

----------------------------------------------------------------------------
(* The messages as Delivery sees them.                                     *)
Place ==
  [i \in Sends |->
     IF i \notin sent THEN "unsent"
     ELSE IF \E m \in publishing : m.id = i THEN "underway"
     ELSE IF \E m \in ToSet(queue) : m.id = i THEN "queued"
     ELSE IF \E x \in Runs : message[x].id = i THEN "taken"
     ELSE "lost"]

D == INSTANCE Delivery WITH
       Ids    <- Sends,
       Takers <- Runs,
       place  <- Place,
       line   <- [n \in DOMAIN queue |-> queue[n].id],
       taker  <- [x \in Runs |-> message[x] # NoMessage]

(* The queue, the consumers of both DAGs and their retries implement       *)
(* delivery at most once in order of arrival: no message returns to the    *)
(* queue, overtakes another one, or is worked on by two runs.              *)
DeliversAtMostOnce == D!Spec

(* A provisioning DAG is started only for a kind the request asks for, in  *)
(* the request's own cloud: a run that took the message of the other       *)
(* cloud's request starts none.                                            *)
ChildrenMatchRequest ==
  \A t \in triggered :
    /\ t.kind \in Wanted[t.request]
    /\ Provider[t.request] = dag[t.run]

(* The Azure provisioning DAGs look the resource group up: when one is     *)
(* started, the group of its request exists.                               *)
GroupBeforeChildren ==
  \A t \in triggered : dag[t.run] = "AZURE" => <<t.request, "rg">> \in store.cloud

Waiting == {x \in Runs : task[x] = "consume"}
CameUpEmpty == {x \in Runs : task[x] \notin {"none", "consume"} /\ message[x] = NoMessage}

(* As long as no task failed and nothing was lost, the messages that wait  *)
(* or are on their way are as many as the runs that are to come, less the  *)
(* direct ones: a message is stranded exactly when some run looked into    *)
(* the queue too early.                                                    *)
QueueBalance ==
  count["faults"] = 0 /\ count["losses"] = 0 =>
    Cardinality(publishing) + Len(queue) + Cardinality({x \in DirectRuns : task[x] # "none"})
      = Cardinality(triggering) + Cardinality(Waiting) + Cardinality(CameUpEmpty)

(* If no task fails and no row is removed, the run that takes a request of *)
(* its own cloud starts a provisioning DAG for every kind the request asks *)
(* for ("Step 5: Trigger VM or ST or DB").                                 *)
TakenLeadsToChildren ==
  \A x \in Runs, r \in Requests, k \in Kinds :
    (message[x].request = r /\ dag[x] = Provider[r] /\ k \in Wanted[r])
      ~> \E t \in triggered : t.request = r /\ t.kind = k
============================================================================
