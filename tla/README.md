# Orchestronic: a TLA+ model of the backend and its DAGs

Orchestronic lets developers ask for cloud resources (virtual machines, databases, storage,
Kubernetes clusters on Azure or AWS) together with a GitLab repository. An IT user approves a
request; the backend then creates the GitLab project and hands the request to Airflow, whose
DAGs run Terraform. The backend is a NestJS application (`src/`), deployed as a serverless
function; the DAGs are Python files (`dags/`); both use one PostgreSQL database through
Prisma (`prisma/schema.prisma`) and psycopg2. Paths below are relative to the repository.

This directory holds TLA+ modules translated from that code, TLC configurations that check
them on small instances, and proofs that TLAPS checks for all values of the constants.

## 1. Inventory

| Component | State it keeps | Operations | What is hard | What makes it correct |
|---|---|---|---|---|
| Request intake: `request.service.ts` 97-345, 538-542, `repositories.service.ts` 83-167 | rows of Request, Repository, Resources, ResourceConfig | create (Azure, AWS, repository only), remove | chain of awaited writes without a transaction; check of the name and reading of the last number long before the writes that rely on them | names and numbers stay unique and in order; what a finished call wrote is connected; leftovers have a cause |
| Approval: `request.service.ts` 347-471, `gitlab.service.ts`, `user.service.ts` 74-86 | Request.status, Repository.status, User.gitlabName; projects and members at GitLab | PATCH status | overlapping and repeated approvals; failures after the GitLab project exists; search by a text | at most one dispatch for a project; only the right people are invited; approval leads to dispatch |
| Queue and entry DAGs: `rabbitmq.service.ts`, `airflow.service.ts`, `AZURE_Resource_Group.py`, `AWS_Resources.py` | queue `request`; DAG runs; Terraform directories `rg` | queueRequest, triggerDag, the tasks | message and trigger are independent, neither awaited; two DAGs share one queue; `auto_ack`; retries | at most once, in order; only what the request asks for is started, after its resource group exists |
| Provisioning DAGs: `AZURE_provide_{vm,db,st}.py`, `AWS_provide_{vm,db,st}.py` | Terraform directories and states; resources at the provider; `terraformState` columns | the tasks | runs in the same directory, where some files are overwritten, some kept and some added; a repeated write; failures between apply and write_to_db | rows list what exists; the state of a directory does, and its files do not clash |
| Destroy: `infrastructure.service.ts` 117-175, `AZURE_Destroy.py`, `AWS_Destroy.py` | queue `destroy`; directories; rows | destroyRequest, the tasks | trigger rules that go on after failures; a retried task with a commit after each kind of row; two DAGs on one queue; directories shared with provisioning | only what was asked for goes; rows go, and Terraform forgets, only what is gone; leftover rows have a cause |
| GitLab synchronisation: `gitlab-sync.service.ts` 15-69 | projects at GitLab; rows of Repository, and of Request by cascade | GET sync, DELETE project | the list of projects is one page and older than the list of rows; creations, approvals and deployments go on meanwhile; a restricted row ends it half way | only rows without a project go; rows and projects agree when it ends undisturbed |
| Cluster requests: `project-request.service.ts` 109-414, `project-request.controller.ts` | ClusterRequest, its Resources and K8s cluster; queue `resource`; runs of the clusters' DAGs | create, the listings, PATCH status | the status is written before anything else and its old value not looked at; message and trigger fail separately; decisions are made from listings read earlier | who is Approved is dispatched; a second dispatch was asked for |
| Kubernetes deployment: `project-request.service.ts` 416-707, `k8sautomation.service.ts`, `cloudflare.service.ts` | ImageDeployment, what the clusters run, DNS records | PATCH deploy | many external steps, the record last; find-then-create of a DNS record; several clusters of one name | rows say what runs; a host leads to its cluster |
| Authentication: `auth/`, `user/` | users and roles; tokens in cookies | login, callback, test-login, refresh, logout, creation and role of users | roles are signed into tokens and not looked up again; a refreshed token has none; one of test-login has no id, and a condition on an undefined id is none | authority ends with the token it was signed into |
| Policies and cloud secrets: `azure-policy/`, `aws-policy/`, `cloud/` | tables of policies; secrets, unique by client id | create and overwrite policies; create, change and delete secrets | - | only an administrator changes what a policy endpoint shows; a secret is its owner's |
| Log readers: `airflow.service.ts` 95-310, `azure-storage.service.ts` | nothing of their own | report on the latest run, log of a pipeline, search for a run's logs | each answer is put together from several reads, between which tries end, are repeated or cleared | a log goes with the state shown next to it; a search finds its run |
| Dashboard: `infrastructure.service.ts` 26-115 | nothing of its own | the figures | counted one by one, not in a transaction | figures are off by no more than what moved |
| Catalogues: `cloud-providers.service.ts` | seeded rows | pages of sizes | pages of queries without an order, or sorted by a key that ties | each entry once |

How they meet: PATCH `:id/status` calls GitLab, then `queueRequest` and `triggerDag`; the
trigger carries no id, the first task of the entry DAG takes whatever the queue has. The
entry DAG starts the provisioning DAGs with the request's id in their conf. Everybody shares
the request rows; all DAGs share the directories of the Airflow host. The synchronisation deletes
rows that creations and approvals are at work on, and is stopped by the rows deployments leave. A
token's role decides whether `triggerDag` accepts the call whose message is already out.

`PROJECT.json` lists every component with its status and every hazard at its line.

## 2. Modules

| Module | Models | Extends / composes |
|---|---|---|
| `RequestIntake` | creation and removal of requests | |
| `Approval` | PATCH status with GitLab | |
| `Terraform` | directories, states and the cloud, as operators on a store | |
| `EntryDags` | queue, triggers, the two entry DAGs | `Terraform` |
| `Delivery` | abstract: delivery at most once, in order | implemented by `EntryDags` |
| `ChildDags` | the provisioning DAGs | `Terraform` |
| `DestroyDags` | destroy queue, triggers, the two destroy DAGs | `Terraform` |
| `Teardown` | destruction next to provisioning | extends `DestroyDags`, instance of `ChildDags` |
| `Pipeline` | approval to resources | instances of `Approval`, `EntryDags`, `ChildDags` |
| `GitlabSync` | the synchronisation, next to what makes and drops rows and projects | |
| `K8sDeploy` | deployments of images, DNS records | extends `GitlabSync` |
| `Sessions` | sessions, roles, policies, secrets | |
| `ClusterRequests` | requests for clusters, from creation to dispatch | |
| `RunLogs` | the readers of Airflow's and the store's logs | |
| `Dashboard`, `Catalogue` | the figures of the dashboard; the catalogues page by page | |
| `MCConsole` | `Sessions`, `ClusterRequests`, `RunLogs`, `Dashboard` and `Catalogue` side by side | extends all five |
| `RequestIntakeProofs`, `ApprovalProofs`, `EntryDagsProofs`, `ChildDagsProofs`, `TeardownProofs` | theorems about the module of the name | that module |
| `PipelineProofs` | theorems about `Pipeline`, from the lemmas about its parts | `Pipeline`, instances of its parts' proofs |
| `ConsoleProofs` | theorems about `Sessions`, `ClusterRequests`, `RunLogs`, `GitlabSync` and `K8sDeploy`, `Dashboard`, `Catalogue` | these |
| `SequenceLemmas` | lemmas about queues and lists: removal, appending, maxima | |
| other `MC*` | constants for TLC | the module of the same name |

### RequestIntake
A *call* is one invocation of a creating handler. Its `step` is the await it stands at; one
action runs it from one await to the next, since Node does not switch between handlers
elsewhere: `Check` (the reads before anything is written), `CreateConfig`,
`CreateResources`, `CreateRepository`, `ReadCode`, `InsertRequest`. `Abort` is an awaited
call that throws, or a stop of the process: nothing is rolled back. Rows are named by the
call that wrote them; `requests` is a sequence in order of `createdAt`, because ReadCode looks
at the newest one. The unique indexes of `schema.prisma` are the guards `NameTaken` and
`NumberTaken`. Displaying a number as `R-<n>` and parsing it back is left out: the code does
both with decimal integers. `overlapped` is a history variable.

### Approval
A *patch* is one invocation of `updateRequestInfo`; `step` again is the await. `Load`
summarises three reads in a row of which only the last matters later (the owner's
`gitlabName`). `CreateProject` is refused when the account has a project of that name;
`FindProject` is the text search, newest first, of which the code takes element 0: a project whose
name contains the text (`NameIn`), so that the collaborators of one request may be invited to the
project of another. `Invite` is one turn of the loop; `MembersAreInvitees` traces each member to
the search and the invitees of the call that invited him. `Dispatch` stands for `queueRequest` and `triggerDag`, called in one
turn of the event loop. `Fail` and `Crash` end handlers without undoing anything; the
rejection of the `triggerDag` promise that nobody awaits is one way a crash comes about. GitLab is modelled from how
`gitlab.service.ts` uses it. A request stands for its repository too (one-to-one).

### Terraform, EntryDags, ChildDags
A *run* is a DAG run; its `task` or `stage` is the task it stands at, one action for each
task (`create_tf_dir` and `write_tf_files` are one, `init` and `apply` are one: they fail
with the same effect). All tasks have `retries: 1`; a task that may be repeated without
effect fails in the model when both attempts have. The consumer is not such a task: its
retry takes another message (`ConsumeDies`); nor is a write by Azure's database and storage DAGs.
The store keeps for each directory whose settings (`files`), which main files (`mains`) and
whose resources (`state`) it holds, and what exists at the provider. `Applied` is `terraform
apply` with a local backend: resources the state lists and the settings do not are destroyed.

The DAGs differ in what a second write to a directory does. Azure's virtual machines, its groups and
AWS overwrite all files, so that the last run to apply takes the directory over. Azure's storage
overwrites the settings, and its databases keep those that are there (`Keeps`); both add a main file
named by the time (`Stamped`, `MainFile`), and two main files declare the same providers, resources
and outputs, which Terraform refuses (`Clashes`): init fails, and with it every later apply or destroy
there. It takes no second run to get there: a write that dies and is retried (`WriteFilesTwice`) leaves
two main files as well. Since AWS and Azure name their directories differently (by
`Repository.name` and by `Resources.name`), runs of both may meet in one directory, which `child` covers.
`SettingsWritten` and `PartlyWritten` are what a write that fails halfway may leave. Two writes within
one second, whose main files would have one name, are left out.
Applies in one directory are atomic, as Terraform's state lock makes them; an apply that
finds the lock taken is a failed task, as is one that finds files that clash. A request's instances are of the cloud of its
provider: `POST /request/azure` accepts another `cloudProvider`, and the instances of such a
request would not be counted by any run.

### Pipeline
The variables of the parts, with `present` and `store` shared and `dispatched` being `sent`.
`Dispatch` is `Approval!Dispatch` and `EntryDags!Send` in one step, `TriggerChild` is
`EntryDags!TriggerChild` and `ChildDags!Start`. Every other step is a step of one part that
leaves the others' variables alone.

### DestroyDags, Teardown
`Ask` is `infrastrutureDestroy`: it does not look at the request's status and awaits neither
the message nor the trigger. A run's `task` again is the task it stands at; `max_active_runs=1`
is the guard of `StartRun`. The destroy tasks of the chosen kinds run side by side: `todo` holds
those that have not ended. Airflow fails the tasks behind a failed task at once, so
`AfterFailure` is reached while other destroy tasks are still at work: from there only the
tasks under `all_done` run, which are `cleanup_dir` on Azure and `supabase_delete_request` on
both. `named` says whether `get_repository_name` has succeeded; without a name `cleanup_dir`
removes a directory nobody uses. A destroy task needs the directory and files that do not clash
(`Destroyable`). A directory whose resources have all been destroyed keeps a
state that lists nothing (`Empty`); a directory that was removed has none. The deletion is one
action for each commit; an action of it fails where the schema restricts (`ImageDeployment`,
`AwsVMInstance`), and `TaskFails` ends it between any two commits, which is final because a
retry finds no request.

`Directory` is the name provisioning uses, which on Azure is `Resources.name`; the destroy DAGs
use `rg-{Repository.name}` there. The two agree if the name was chosen by the convention that the
example in `create-azure-resource.dto.ts` shows; nothing in the backend enforces it. `DestroyName`
is the second name, for each of the two DAGs since a crossed run looks under its own cloud's. A
request whose `DestroyName` is nobody's `DirName` has no directory to destroy in, and its destroy tasks
fail as those of a missing directory do; one whose `DestroyName` is another's `DirName` is destroyed there.

`Teardown` lets the runs of `ChildDags` share store, rows and bounds with the destroy runs. A
provisioning step whose directory, state file or Resources row has been taken away fails
(`ProvisionFails`). `recorded` keeps what was once written, also when its row is gone. Its
properties leave out a request that somebody else gets in the way of: `Undisturbed(r)` says that no
provisioning run came in between, and that no other request's directory has the name under which
either destroy DAG looks for r's, nor r's destruction another's. `CleanRunLeavesNothing` looks at the
provider and, kind by kind, at the settings, main files and state of the directory (`Bare`). `FindsNothing`
takes a directory without a main file for one that has been removed; that another run's failing
write may have put settings there again, on which apply has nothing to do, counts as the same.

### GitlabSync
One synchronisation at a time, read by read: `ListProjects` takes the first page, newest first, `ReadRows`
the rows, and then projects no row names (`DeleteProject`) and rows no project has the name of
(`DeleteRow`) are deleted. `onDelete: Cascade` takes the Request with its repository; a
repository an ImageDeployment refers to restricts, `delete` throws, and what was still to be
deleted stays. What creates rows and projects is cut down to what the two tables and GitLab see of
it: `CreateRow`, `CreateRequestRow`, `MakeProject`, `DropProject`. Projects are a set, ordered by their ids,
which GitLab gives in ascending order. `there`, all projects at the moment of the listing, and `alone` are
history; `Cut` says that not all of them went on the page.

### K8sDeploy
A *deploy* is one invocation of `DeployToK8sCluster`; both clouds run the same steps, on Azure a
cluster may have no address, and then no host is registered. `FindProject` is the same text
search as in `Approval`; an image is named by the id of its project. `SearchRecord` and
`WriteRecord` are `upsertARecord`, `LoseName` the `catch` around it. The record is of the cluster's
name trimmed and without quotes, the host of a deployment on Azure of the name as it is; `HostOf` takes
them for one, as they are for names without either. The service that
applies a deployment replaces what runs under the repository's name; it may fail having done
so. `RecordDeployment` is the `create` that `repositoryId @unique` refuses the second time.

### Sessions
Cookies are tokens with a role and the ticks they have left; a tick is the unit in which the
lifetimes are counted. `LookUp`, `CreateAtLogin` and `AzureCallback` are the login, which
interleaves with changes of roles. `Refresh` signs a token with the id alone, as
`auth.controller.ts:163` does. `TestLogin` is `GET auth/test-login`, which no guard and no look at the
environment protects: an Admin's token for whoever calls, with a `sub` and no `id`. Refreshed it is a
token without role and id, under which a listing of what belongs to `user.id` is one of everything,
because Prisma leaves a condition on `undefined` out (`Matches`); what takes an id, such as registering a secret,
fails under it. The guards are `May(u, roles)`: they look at the token and never at
the row. Tokens are signed with the secret written in `auth.module.ts` and verified with `JWT_SECRET`: the
module is about deployments in which the two agree; in any other no token is accepted at all.
`AuthorityIsRecent` is about what tokens open. The routes that ask for none are outside it: `GET
request/status` lists the rows of everybody's requests for anyone, as the listings of clusters
do theirs (`ClusterRequests`), and `GET request/:id` converts the id, a uuid, to a number, which
no row has, and finds nothing for anyone. Policies are the distinct rows of each table: `create` adds one, `updateMany` overwrites all,
`findFirst` shows any. `age` is history: the ticks since a user last had a role or called test-login, counted
as far as each can matter (`Horizon`).

### ClusterRequests
A *creation* is a `createCluster`, whose rows have ids of their own: `Ids` keeps apart those of
ClusterRequest and those of Resources, which the listings of approved and of one's own clusters
show. A *patch* is a browser that picked a row from a listing, at some earlier time, and its
`updateClusterRequestStatus`: `Find`, `WriteStatus`, `DispatchCluster` (message and role check in
one turn), `Trigger`. `after` and `reset` are history: who had dispatched the cluster when the
listing was read, and which clusters some call gave another status.

### RunLogs, Dashboard, Catalogue
`RunLogs` models one DAG: runs, tasks, tries that write a log while they run, uploads. The three
readers take their steps in between: `ReadLatestRun`, `ReadInstance`, `ReadLog` for each task;
`ListTasks`, `ShowLog`, always of the first try; `SearchExact`, `SearchBroad`, either of which may end
with a listing that throws (`ListingFails`); a blob whose download fails is found with its error by the
first and left out by the second. `Dashboard` counts
statement by statement while requests move. `Catalogue` reads pages until one says that there is no
next, each page a query whose answer may be in any order the `orderBy` allows.

## 3. Runs

| Run | Instance and bounds | What it shows |
|---|---|---|
| `intake` | 3 calls, 3 names, all in flight at once, 1 removal | numbers have no gap before a removal, every leftover row has a cause, requests are connected to rows of their own; without overlap the newest number is the highest and no index rejects a row |
| `approval` | 3 patches on 2 requests (one with resources, one without, a collaborator on both; the name of one part of the other's), 2 accounts, 1 failure or crash, relink, project removal, request removal | one dispatch for each project; Created implies a project; members were invited by a call that found the project and invites them; what is dispatched is Approved and Created |
| `approval_search` (violation) | 2 names, one inside the other | the search may return another project than the one created |
| `entry` | 2 dispatches and 1 run started by a user, an Azure and an AWS request, 2 faults, 1 loss, 1 removal | no message in two places, children match the request and follow its group, queue and runs balance without faults, refinement of `Delivery` |
| `entry_awsvm` (violation) | one dispatch | AWS virtual machines are never provisioned |
| `child` | 3 runs, 2 requests of different clouds sharing a name and 1 with its own, 1 fault or repeated write, 1 removal | rows list what exists; a shared directory is the only way to lose it; Terraform's states miss nothing, and only Azure's databases and storage clash, after a second write |
| `teardown` | 2 destructions about 3 requests (Azure with two kinds; AWS with an ImageDeployment; AWS with a machine), 1 provisioning run, 1 fault, 1 removal | resources go only if asked for; a run of the request's cloud with no failed task leaves nothing behind, at the provider or in a directory; Terraform loses track only through Azure's `cleanup_dir`; leftover rows have a cause |
| `teardown_crossed` (violation) | the same without faults and removals | rows are deleted while the resources exist |
| `pipeline_safety` | 2 patches on 2 requests, 1 of each fault, loss, relink and removal | no kind of instance is provisioned twice unless the request had a second project; nothing is provisioned that was not approved |
| `pipeline_live` | 2 patches, 1 run started by a user, no faults | approval leads to dispatch; a message taken by a run of its cloud leads to recorded instances |
| `console` | 2 users who log in, refresh or call test-login, 2 clusters and 3 decisions, 2 runs of 2 tasks with 2 tries, 3 requests moving twice, 4 entries on pages of up to 3 | authority ends with its token; clusters are dispatched as asked; logs, figures and pages are what they claim |
| `deploy` | 2 repositories, one name inside the other, up to 3 projects on pages of 2, 1 fault, 2 or 3 deployments to 3 clusters, two of one name, each changing its address once | the synchronisation deletes only rows without a project, unless the list was cut; rows say what runs or a later call explains it; a host of one unmoved cluster leads there |

Bounds. Two calls are enough for each race between a check and the write that relies on it,
the third gives a bystander that can be hit, or a later call that finds what the race left.
Faults and removals are bounded by one or two because each property names what one of them
may break; a second one of a kind adds only combinations of calls that have ended. In `teardown` the
single fault leaves one branch to larger bounds: a consumer that dies in its retry too, after
which the run goes on as after any other failed first task. In `console` and `deploy` the variable `moving`
chooses at the start which part moves. The parts of `console` read and write variables of their own,
so that what holds for each alone holds for all interleavings; the properties of `deploy` each
rest on two of its parts, and each of its four scenarios joins two that meet. Three decisions
are about one cluster, or two about two; in `names` two calls write while addresses change. A
lifetime of two ticks lets a token outlive a role, be refreshed, and expire; the other's of two lets a session
without an id outlast its role. In `console` one secret exists at a time, and while somebody may be in a session
of test-login nobody else is signed in (`FewSessions`), so that sessions side by side are those of
logins; `AuthorityExpires` covers all of them, since no such bound is in `Sessions`. Symmetry
is used in safety runs only, on calls, patches, accounts, dispatches, runs, users or policy values, whose names no
definition mentions. `CHECK_DEADLOCK FALSE` is in every configuration because a system
whose calls have all ended is quiet.

Fairness. `Approval`: each handler that has begun goes on (`WF` of `Advance(p)`): the event
loop runs it, and an awaited call returns or throws in the end. `EntryDags`: what is in
transit arrives unless it is lost; Airflow goes on with every run. `Pipeline`: the sum of
these. Nobody is obliged to send a request, faults are never fair, and no fairness is
assumed between the message and the trigger: their order is free.

### Findings
* `approval_search`: the comment "Fetch created GitLab project to get its ID"
  (`request.service.ts:412`) against a search that returns the newest project whose name
  contains the text.
* `entry_awsvm`: `AWS_Resources.py` triggers `AWS_terraform_vm_provision`;
  `AWS_provide_vm.py:396` registers `AZURE_terraform_vm_provision`.
* `teardown_crossed`: "This action destroys ... resources for request"
  (`infrastructure.service.ts:174`): the run of one cloud's DAG may take the message of the
  other's, finds nothing to destroy and deletes the rows.

The models also show, without a comment of the code to compare with: the status may be set
to Pending and Deleted, although the validator's message says "Approved or Rejected"; after a
removal and overlapping creations the newest request need not have the highest number, and then
every creation fails on `displayCode` until that row is gone; a creation that failed late
keeps the repository's name; an approval that fails after the project was created cannot be
repeated, because GitLab refuses the name, and leaves its request Approved without a dispatch for good; the group that a
failed apply has created stays until somebody asks for its destruction; a second write by Azure's database or storage
DAG leaves a directory in which Terraform neither applies nor destroys; it is only this refusal that keeps a request
approved twice from being provisioned twice; AZURE_Destroy removes Terraform's directory, state
included, also when a destroy task has failed, or while another one is still at work, so that no
later run can destroy what is left; once a deletion has been interrupted nothing takes it up again;
a run may look into the queue before its message is there; the synchronisation
takes the projects beyond GitLab's first page for missing and deletes their rows; a second deployment
of a repository replaces what runs and then fails to record it; a refreshed token has no role, so
that an approval under it emits its message and is refused the trigger; a role that was taken away
is accepted until the token expires; test-login makes an Admin of anyone, and its refreshed session sees
everybody's requests; `findAwsDB` fails whenever `maxStorageSize` is given; the search
of a deployment may pick another repository's project and image; clusters of one name share a
host, whose record is the last writer's; a pipeline's log is that of the first try, also when the state
next to it is that of a later one.

## 4. Proofs

Every theorem holds for all values of the constants that satisfy the named assumptions of
its module, which TLC evaluates in the runs:

* `RequestIntake`: `MaxInFlight` and `MaxRemovals` are naturals;
* `Approval`: owner, invitees and provider are functions of their types; a name contains itself;
* `Terraform`, `EntryDags`: `None` is no request; dispatches are not runs started by users;
  providers and wanted kinds have their types;
* `Pipeline`: those of its parts (`PartsAssumption`);
* `DestroyDags`: providers and wanted kinds have their types; what is provisioned at the start
  is of a kind that was wanted and has a directory of its own; `None` is no name, `"empty"` no request;
* `Sessions`: the lifetimes are positive, `"nobody"` is no user;
* `ClusterRequests`: there are finitely many decisions, since messages are counted;
* `RunLogs`: the bounds are naturals, and a search for a text that names a run includes that run;
* `GitlabSync`, `K8sDeploy`: the bounds are naturals, and GitLab's pages hold something; no foreign
  name is a repository's; a name contains itself; a cluster has a cloud, and "no address" is no address;
* `Dashboard`, `Catalogue`: there are finitely many rows, of clouds and classes of their types.

The bounds on faults, losses, removals and open handlers are arbitrary.

| Module | Theorem | Establishes |
|---|---|---|
| `RequestIntakeProofs` | `TypeCorrect` | `TypeOK` |
| | `NumbersNeverSkip` | `NumbersFollowInsertion` |
| | `NamesStayDistinct` | `NamesDistinct` |
| | `RequestsStayConnected` | `RequestsConnected` |
| | `NewestStaysHighest`, `NoClashAlone` | `NewestIsHighest`, `NoClash` |
| | `LeftoversStayExplained` | `LeftoversExplained` |
| `ApprovalProofs` | `TypeCorrect` | `TypeOK` |
| | `DispatchedOncePerProject` | `OneDispatchPerProject` |
| | `CreatedMeansProject` | `CreatedHasProject` |
| | `DispatchesAreApproved` | `DispatchSeesApproved` |
| | `MembersStayInvitees` | `MembersAreInvitees`, whatever names contain each other |
| `EntryDagsProofs` | `TypeCorrect` | `TypeOK` |
| | `MessagesAreNotShared` | `NoMessageTwice` |
| | `QueueImplementsDelivery` | `DeliversAtMostOnce`: `EntryDags` implements `Delivery` |
| | `ChildrenMatch` | `ChildrenMatchRequest` |
| | `GroupComesFirst` | `GroupBeforeChildren`, if requests have distinct directory names |
| | `MessagesMatchRuns` | `QueueBalance` |
| `ChildDagsProofs` | `TypeCorrect` | `TypeOK` |
| | `RowsListWhatExists` | `RecordedIsReal` |
| | `LeftoversHaveARun` | `UnrecordedExplained` |
| | `OnlyTakeoversLose` | `LostOnlyByTakeover` |
| | `StateFilesKeepTrack` | `NothingOrphaned` |
| `PipelineProofs` | `RequestsProvisionedOnce` | `ProvisionedOnce` |
| | `OnlyTheApprovedProvisioned` | `ProvisionedWasApproved` |
| | `PipelineImplementsApproval`, `PipelineImplementsEntryDags`, `PipelineImplementsChildDags` | every step of `Pipeline` is a step of each part or leaves it alone |
| | `ApprovalHoldsInPipeline` | `OneDispatchPerProject`, `CreatedHasProject`, `DispatchSeesApproved` of the whole |
| | `DeliveryHoldsInPipeline` | `DeliversAtMostOnce`, `NoMessageTwice`, `ChildrenMatchRequest`, `QueueBalance` of the whole |
| | `RecordingHoldsInPipeline` | `RecordedIsReal`, `LostOnlyByTakeover`, `UnrecordedExplained`, `NothingOrphaned` of the whole |
| | `GroupsHoldInPipeline` | `GroupBeforeChildren` of the whole, if no two requests share a name |
| `TeardownProofs` | `TeardownTypeCorrect` | `TeardownTypeOK` |
| | `NothingIsLeft` | `CleanRunLeavesNothing` |
| | `OnlyAzureLosesTrack` | `LosesTrackOnlyOnAzure` |
| | `OnlyWhatWasAskedGoes` | `GoesOnlyIfAsked` |
| | `LeftoversAreExplained` | `LeftoverRowsExplained` |
| `ConsoleProofs` | `SessionTypeCorrect`, `ClusterTypeCorrect` | `SessionTypeOK`, `ClusterTypeOK` |
| | `AuthorityExpires` | `AuthorityIsRecent` |
| | `SecondDispatchesAreAsked` | `RepeatedDispatchWasAsked` |
| | `SplitDispatchesAreExplained` | `SplitDispatchExplained` |
| | `ReportsTellTheTruth` | `ReportsAreTrue` |
| | `SearchesFindTheirRun` | `SearchFindsItsRun` |
| | `DeployTypeCorrect` | `SyncTypeOK`, `DeployTypeOK` |
| | `SynchronisationAligns` | `SyncAligns`, an action property |
| | `RecordedDeploymentsRun`, `RegisteredHostsResolve` | `RowsAreRunning`, `HostsResolve` |
| | `DashboardTypeCorrect`, `FiguresOffByMoves` | `DashboardTypeOK`, `CountsOffByMoves` |
| | `CatalogueTypeCorrect`, `PagesAreComplete` | `CatalogueTypeOK`, `PagesComplete` |

`NamesStayDistinct` and the type invariants of `Teardown`, `Sessions`, `ClusterRequests`, `Dashboard` and
`Catalogue` are what other theorems rest on or follow from; no run checks them. The hypothesis about names in `GroupComesFirst` and `GroupsHoldInPipeline` is the one under which the
property is claimed at all: with a shared directory one run's apply may take away another's group.

**RequestIntake.** `NumbersFollowInsertion` speaks of rows only and is not inductive: an
insert relies on a number read earlier. `Numbering` adds that a number read is never ahead of
the rows, so that an insert continues the numbering or meets the unique index.
`Connection` adds what each call has written by the await it stands at. The two properties
about calls that ran alone share `Alone`: what such a call looked up, the free name and the
newest number, still holds when it writes, because every other step that could change it
marks an overlap. `Leftovers` adds that a call whose row exists is done.

**Approval.** GitLab's refusal of a name that is taken is what bounds the dispatches:
`Dispatching` says that each dispatch belongs to a finished handler which created a project,
and that no project was created twice. `DispatchSeesApproved` is an action property;
`OpenMeansApproved` says that the status seen at the first await lasts while nobody else has begun
on the request. `InvitesToFound` ties what a handler that is about to invite has
found to the text it searched for, and `Invited` each member to a handler behind its search, whose
result no later step changes.

**EntryDags.** `IdsOnce` and `NotYet` give every message one place (in transit, queued,
taken, dropped) and each place one message; and the
refinement theorem then takes one step per action: arrival, consumption and loss map to
`Delivery`'s actions, the rest to stuttering. `BranchesAsked` records which branches the
choosing task may have picked, `TriggeredHaveStarted` that only started runs trigger.
`Grouping` follows the group from its files to the cloud.

**ChildDags.** `Recording` is the conjunction of the four properties with `DirsMatch`: files
and state of a directory are of a request whose directory it is, about which some run got as
far as writing, and what the state lists exists; with `Listed`, that the state lists what exists; and with
`MainsExplained`, that several main files come of Azure's databases or storage and of two runs or a fault. With it, an apply that destroys something
destroys it in a directory whose files are another request's, which is the takeover that
`LostOnlyByTakeover` asks for, or replaces it by itself. `AfterWriteFiles`, `AfterApplied` and
`AfterRecord` are the steps that matter; `RunsOnly` covers all others.

`QueueBalance` compares sizes of sets. `Balanced` says that the sets are finite; each step
then adds or removes one element on both sides, or moves one from set to set of a side.

**Pipeline.** `PipelineProofs` instantiates the proofs of the three parts with `Pipeline`'s
variables: a step of a part is a step of its own specification (`HandlersAsProved`, `EntryAsProved`,
`ChildAsProved`), so that its lemma applies, and it leaves what the other parts' invariants speak of
alone or, as with the store, in order (`HandlersUndisturbed` and the like). `Typed` collects
what the parts keep to; `Linked` says what they have told each other: a message is about the request of
its handler, a provisioning run about the message of its entry run, files are only written,
resources only created and rows only filled for a request somebody has dispatched. Two runs about one
kind of one request then lead back through two messages to two handlers, and these, by `Approval`'s
`Dispatching`, to two projects.

That the parts do not undo each other's guarantees is shown by refinement. Of the store an entry DAG
only touches the directories of resource groups, a provisioning DAG those of instances; `Part` cuts the
store in two accordingly, and `PartsApart` says that what is written or applied in one half does not
show in the other; main files are cut with the rest, and a group's directory never has more than one. A row is removed by a user, whom `Approval` counts (`Removals`). With the store
and that count so mapped, each step of `Pipeline` is a step of `Approval`, of `EntryDags` (`ES`) and
of `ChildDags` (`CS`), or a stutter, and the theorems about them carry over without another
induction. `UnrecordedExplained` is so shown of instances; for resource groups it would be false, since
no row lists them. `NothingOrphaned` is shown of both halves at once, by `StoreKeepsTrack`: whichever
DAG works in a directory works in that of its own request and kind.

**Teardown.** `Runs` says what a destroy run knows at each task; `Children` what a provisioning run
about a request has done; `Store` that directories and resources have owners (`Owned`), that a
resource was there at the start or has a run (`Origins`), and that a state file lists what exists
unless somebody is in the way (`Tracked`), and that a main file never is without settings (`HasSettings`). `Gone`
is what a run of the request's cloud has destroyed when it gets to its cleanup; `Found` that it was looking where
provisioning had written, since its destroy tasks went well; `Swept`, therefore, that the directory it
removes is the request's, all kinds of it. `AskedFor` follows a run's request back to the call that asked.
`Leftovers` orders the rows: which of them are gone tells how far a deletion has come
(`Progress`, `Ordered`), and if it is not at work it was interrupted (`Afterwards`, `Explained`).

**Sessions, ClusterRequests, RunLogs.** `Authority` ties the age of a role to the ticks its token
has left: their sum never exceeds the lifetime of the token; a session that has lost its id did so at test-login
(`IdLostAtTest`), and ends with the refresh token it got there. `Asking` says of each call what it has seen
when it goes on; `Splitting` counts messages and runs by the calls that sent them. `Truth` says
what a reader knows between two of its reads that Airflow can no longer change: a try that has
ended keeps its log. `Searched` says which runs' logs the search may have met.

**GitlabSync, K8sDeploy.** `Aligning` says what a synchronisation has read, and what it makes of it
while it is alone: GitLab is as it was listed (`AsListed`), and then as it was but for the deletions
(`AsDeleted`), so that a row has a project on the page or is doomed, and a project has a row or is about to
go. Every other step that could change this, a deployment's record included, makes it one that is not alone.
`Naming` is about hosts: a call that writes or has written a record has its cluster's address
(`HasAddress`), a record once written keeps its host and its number (`HasRecord`, `HasFound`), and every
record is some call's. Without `HasFound` the property is not inductive: a call overwrites the record
it found several awaits ago, which has to be of its host still. `Running` is about what is deployed:
what landed runs or was replaced by another call's (`Replaced`), and a repository has a record only of the
one call that recorded it.

**Dashboard.** `OffByChanges` speaks of all eight figures from the start: one that is still to be
counted is taken for what it would be now (`Figure`). Before anything is counted they add up
(`AddUpAtOnce`); counting leaves them as they are; and a request that changes is in at most one of the
states, and one of the clouds, so that each sum goes up or down by one at most, as `missed` goes up.

**Catalogue.** `Reading` says that what has been read are the first places of the list, each out of some
answer, and whether there are more. `Placed` bounds the place of an entry by the number of entries with a
smaller key, and with one that is not greater; the places of a key are therefore the same in all
answers (`AsManyOfAKey`), and it does not matter that each page is a query of its own. To be sorted is
stated for any two places and not for neighbours, because to get from these to those takes induction.

Every invariant and every action property that a passing run checks is proved. Only model-checked
are the liveness properties (`ApprovalLeadsToDispatch`, `TakenLeadsToRecorded`), because
fairness and ENABLED are out of the prover's reach, and the three violations. No module declares a
RECURSIVE operator; facts about sequences are proved from the index form of their definitions, since
induction over data is out of reach as well.

## 5. Not modelled

`RabbitmqController` posts messages without a trigger: in `EntryDags` that is a `Send` whose
trigger is lost. `createRepositoryAws` is empty. `updateRequestFeedback` writes a text that
nothing reads. An owner without a GitLab name makes `createProjectForAUser` search for the empty
username; that is a `Fail`, or another account than the owner's. Nested creation of
Azure machines passes fields the schema lacks; if they are given, creation throws (`Abort`).
The Kubernetes branch of `AZURE_Destroy` is left out: it counts clusters in the request's own
configuration, and `createCluster` makes a configuration of its own, without a Request. Reads
(`findAll`, `findWithRequestDisplayCode`) change nothing, and what they show to whom is in `Sessions`; those that
pass one answer of Airflow, GitLab or the blob store on are left out. The filters of the catalogues stand for the set of entries
they let pass. Routes that ask for no token and change nothing (`GET request/status`,
`GET request/:id`) show everybody the same and are no part of what a session opens; a `JWT_SECRET` that differs from
the secret in `auth.module.ts` is left out, as no token would be accepted under it.
`POST /gitlab` and `POST /gitlab/users/:username/projects` make a project outside any approval: in
`GitlabSync` that is a project of a foreign name. Code that is commented out is left out. The DAGs that provision
clusters (`AZURE_Resource_Group_Cluster` and that for AWS) are not in the repository: what
they leave, a kubeConfig and an address, is a step of the environment in `K8sDeploy`. Terraform,
GitLab, RabbitMQ, Airflow, Cloudflare and the service that applies deployments are modelled from how
the code uses them. Logging, formatting of Terraform files, HTTP and Swagger set-up, the health
check, the unused Elasticsearch client, seeds and generated migrations are left out.

## 6. Plan

Done: the path from a new request to recorded resources, which is the system's purpose, and
the way back, both with their proofs; the synchronisation, deployments, requests for clusters,
sessions, readers of logs, dashboard and catalogues. Left, in this order:

1. Composition of `RequestIntake` with `GitlabSync`, where a creation's row is deleted under it
   before its Request row refers to it; now the two meet only in `GitlabSync`'s own short creation.
2. `Teardown`'s provisioning runs as steps of `ChildDags` in the proofs too, as `PipelineProofs` does it, so
   that what `ChildDagsProofs` shows of rows carries over until the destruction begins.
3. The DAGs for clusters, once they are in the repository.
