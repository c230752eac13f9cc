----------------------------- MODULE Approval -----------------------------
(***************************************************************************)
(* PATCH /request/:id/status, that is updateRequestInfo: set the status of *)
(* a request and, if the new status is Approved, create its GitLab project *)
(* under the owner's account, invite the collaborators, mark the           *)
(* repository Created, and dispatch the request to the provisioning side   *)
(* (a message to RabbitMQ and a DAG trigger to Airflow, neither awaited).  *)
(*                                                                         *)
(* Several calls may be open at once, on the same request or on different  *)
(* ones; they interleave at every await.  Nothing in the handler looks at  *)
(* the previous status, and nothing is undone when a step throws.          *)
(*                                                                         *)
(* GitLab and the actions of users that the handler races with (linking    *)
(* another GitLab account, removing a project, removing the request) are   *)
(* part of the model.  A request stands for its repository too: the two    *)
(* rows are one-to-one and the repository's name is unique.                *)
(***************************************************************************)
EXTENDS Integers, FiniteSets, SequencesExt

CONSTANTS
  Requests,
  Patches,             \* invocations of the handler
  Users,
  Accounts,            \* GitLab accounts
  Collaborators,
  Owner,               \* Owner[r]: the user who asked for r
  Invitees,            \* Invitees[r]: collaborators of r with a GitLab id
  Provider,            \* Provider[r]: cloud of r's resources, "none" if it has none
  NameIn,              \* <<r, s>>: the name of r's repository occurs in s's
  MaxOpen,             \* bound: handlers open at a time
  MaxFailures,         \* bound: awaited calls that throw, and crashes
  MaxRelinks,          \* bound: users linking another GitLab account
  MaxProjectRemovals,  \* bound: GitLab projects removed
  MaxRequestRemovals   \* bound: request rows removed

ASSUME OwnerAssumption == Owner \in [Requests -> Users]
ASSUME InviteesAssumption == Invitees \in [Requests -> SUBSET Collaborators]
ASSUME ProviderAssumption == Provider \in [Requests -> {"AWS", "AZURE", "none"}]
ASSUME NameInAssumption ==
  /\ NameIn \subseteq Requests \X Requests
  /\ \A r \in Requests : <<r, r>> \in NameIn

Statuses == {"Pending", "Approved", "Rejected", "Deleted"}

(* A project of GitLab: the account it is under, the request it is for.    *)
Project == [account : Accounts, request : Requests]

(* What a handler has not read yet.                                        *)
NoProject == [account |-> "none", request |-> "none"]

VARIABLES
  status,      \* Request.status
  present,     \* the requests whose row exists
  repoStatus,  \* Repository.status
  account,     \* User.gitlabName
  projects,    \* the projects of GitLab, in order of creation
  removed,     \* the projects that have been removed from GitLab
  members,     \* <<project, collaborator>> pairs of GitLab
  step,        \* the await each handler has reached, or how it ended
  subject,     \* the request a handler is about
  namespace,   \* the owner's account, as the handler read it
  found,       \* the project the handler's search returned
  uninvited,   \* collaborators the handler has still to invite
  dispatched,  \* the handlers that have dispatched their request
  count        \* how often each bounded event has happened

rows    == <<status, present, repoStatus, account>>
gitlab  == <<projects, removed, members>>
locals  == <<subject, namespace, found, uninvited>>
vars    == <<status, present, repoStatus, account, projects, removed, members,
             step, subject, namespace, found, uninvited, dispatched, count>>

Events == {"failures", "relinks", "projectRemovals", "requestRemovals"}

(* The awaits at which an open handler may stand.                          *)
Open == {"load", "create", "find", "invite", "mark", "dispatch"}

(* Those that follow the creation of its project.                          *)
Created == {"find", "invite", "mark", "dispatch"}

OpenHandlers == {p \in Patches : step[p] \in Open}

TypeOK ==
  /\ status \in [Requests -> Statuses]
  /\ present \subseteq Requests
  /\ repoStatus \in [Requests -> {"Pending", "Created"}]
  /\ account \in [Users -> Accounts]
  /\ projects \in Seq(Project)
  /\ removed \subseteq Project
  /\ members \subseteq Project \X Collaborators
  /\ step \in [Patches -> {"idle", "done", "failed"} \cup Open]
  /\ subject \in [Patches -> Requests]
  /\ namespace \in [Patches -> Accounts]
  /\ found \in [Patches -> Project \cup {NoProject}]
  /\ uninvited \in [Patches -> SUBSET Collaborators]
  /\ dispatched \subseteq Patches
  /\ count \in [Events -> Nat]

(* Requests were created Pending, with a repository that is Pending; each  *)
(* user has linked some account.                                           *)
Init ==
  /\ status = [r \in Requests |-> "Pending"]
  /\ present = Requests
  /\ repoStatus = [r \in Requests |-> "Pending"]
  /\ account \in [Users -> Accounts]
  /\ projects = <<>>
  /\ removed = {}
  /\ members = {}
  /\ step = [p \in Patches |-> "idle"]
  /\ subject \in [Patches -> Requests]
  /\ namespace = [p \in Patches |-> account[Owner[subject[p]]]]
  /\ found = [p \in Patches |-> NoProject]
  /\ uninvited = [p \in Patches |-> {}]
  /\ dispatched = {}
  /\ count = [e \in Events |-> 0]

Goto(p, s) == step' = [step EXCEPT ![p] = s]

Count(event, bound) ==
  /\ count[event] < bound
  /\ count' = [count EXCEPT ![event] = @ + 1]

(* The project a handler creates.                                          *)
Own(p) == [account |-> namespace[p], request |-> subject[p]]

(* Mutant of UpdateStatus: the early return for other statuses is missing. *)
UpdateStatusGoesOn(p, s) ==
  /\ step[p] = "idle"
  /\ Cardinality(OpenHandlers) < MaxOpen
  /\ subject[p] \in present
  /\ status' = [status EXCEPT ![subject[p]] = s]
  /\ Goto(p, "load")
  /\ UNCHANGED <<present, repoStatus, account, gitlab, locals, dispatched, count>>

(* request.update sets whatever status was sent; only an approval goes on. *)
UpdateStatus(p, s) ==
  /\ step[p] = "idle"
  /\ Cardinality(OpenHandlers) < MaxOpen
  /\ IF subject[p] \in present
       THEN /\ status' = [status EXCEPT ![subject[p]] = s]
            /\ Goto(p, IF s = "Approved" THEN "load" ELSE "done")
       ELSE /\ Goto(p, "failed")
            /\ UNCHANGED status
  /\ UNCHANGED <<present, repoStatus, account, gitlab, locals, dispatched, count>>

(* Mutant of Load: a request that is gone is no error.                     *)
LoadMissing(p) ==
  /\ step[p] = "load"
  /\ namespace' = [namespace EXCEPT ![p] =
                     IF subject[p] \in present THEN account[Owner[subject[p]]] ELSE "none"]
  /\ Goto(p, "create")
  /\ UNCHANGED <<rows, gitlab, subject, found, uninvited, dispatched, count>>

(* The reads of the request, of its repository and of the owner's GitLab   *)
(* name: the last is what the rest of the handler works with.              *)
Load(p) ==
  /\ step[p] = "load"
  /\ IF subject[p] \in present
       THEN /\ namespace' = [namespace EXCEPT ![p] = account[Owner[subject[p]]]]
            /\ Goto(p, "create")
       ELSE /\ Goto(p, "failed")
            /\ UNCHANGED namespace
  /\ UNCHANGED <<rows, gitlab, subject, found, uninvited, dispatched, count>>

(* Mutants of CreateProject: a name that is taken counts as success; an    *)
(* error of GitLab is swallowed.                                           *)
CreateProjectOrFind(p) ==
  /\ step[p] = "create"
  /\ projects' = IF Own(p) \in ToSet(projects) THEN projects ELSE Append(projects, Own(p))
  /\ Goto(p, "find")
  /\ UNCHANGED <<rows, removed, members, locals, dispatched, count>>

CreateProjectSwallowed(p) ==
  /\ step[p] = "create"
  /\ \/ Own(p) \notin ToSet(projects) /\ projects' = Append(projects, Own(p)) /\ Goto(p, "find")
     \/ UNCHANGED projects /\ Goto(p, "mark")
  /\ UNCHANGED <<rows, removed, members, locals, dispatched, count>>

(* createProjectForAUser: GitLab refuses a name the account already has.   *)
CreateProject(p) ==
  /\ step[p] = "create"
  /\ IF Own(p) \in ToSet(projects)
       THEN /\ Goto(p, "failed")
            /\ UNCHANGED projects
       ELSE /\ projects' = Append(projects, Own(p))
            /\ Goto(p, "find")
  /\ UNCHANGED <<rows, removed, members, locals, dispatched, count>>

(* The search by name finds every project whose name contains the text;    *)
(* GitLab lists the newest first and getProjectByName takes the first.     *)
Matches(r) == {i \in DOMAIN projects : <<r, projects[i].request>> \in NameIn}

(* Mutant of FirstFound: the name is not searched for.                     *)
FirstFoundNewest(r) == Last(projects)

FirstFound(r) == projects[Max(Matches(r))]

FindProject(p) ==
  /\ step[p] = "find"
  /\ IF Matches(subject[p]) = {}
       THEN /\ Goto(p, "failed")
            /\ UNCHANGED <<found, uninvited>>
       ELSE /\ found' = [found EXCEPT ![p] = FirstFound(subject[p])]
            /\ uninvited' = [uninvited EXCEPT ![p] = Invitees[subject[p]]]
            /\ Goto(p, IF Invitees[subject[p]] = {} THEN "mark" ELSE "invite")
  /\ UNCHANGED <<rows, gitlab, subject, namespace, dispatched, count>>

(* One turn of the loop; inviting to a project that is gone, or someone    *)
(* who is a member already, is an error of GitLab's and throws.            *)
Invite(p, u) ==
  /\ step[p] = "invite"
  /\ u \in uninvited[p]
  /\ IF found[p] \in ToSet(projects) /\ <<found[p], u>> \notin members
       THEN /\ members' = members \cup {<<found[p], u>>}
            /\ uninvited' = [uninvited EXCEPT ![p] = @ \ {u}]
            /\ Goto(p, IF uninvited[p] = {u} THEN "mark" ELSE "invite")
       ELSE /\ Goto(p, "failed")
            /\ UNCHANGED <<members, uninvited>>
  /\ UNCHANGED <<rows, projects, removed, subject, namespace, found, dispatched, count>>

(* Mutants of MarkCreated: only AWS is provisioned; the update is missing. *)
MarkCreatedAwsOnly(p) ==
  /\ step[p] = "mark"
  /\ repoStatus' = [repoStatus EXCEPT ![subject[p]] = "Created"]
  /\ Goto(p, IF Provider[subject[p]] = "AWS" THEN "dispatch" ELSE "done")
  /\ UNCHANGED <<status, present, account, gitlab, locals, dispatched, count>>

MarkCreatedForgotten(p) ==
  /\ step[p] = "mark"
  /\ Goto(p, IF Provider[subject[p]] = "none" THEN "done" ELSE "dispatch")
  /\ UNCHANGED <<rows, gitlab, locals, dispatched, count>>

(* repository.update, after which a request without resources is finished. *)
MarkCreated(p) ==
  /\ step[p] = "mark"
  /\ repoStatus' = [repoStatus EXCEPT ![subject[p]] = "Created"]
  /\ Goto(p, IF Provider[subject[p]] = "none" THEN "done" ELSE "dispatch")
  /\ UNCHANGED <<status, present, account, gitlab, locals, dispatched, count>>

(* The cloud provider is read, then queueRequest and triggerDag are called *)
(* in the same turn of the event loop; the handler waits for neither.      *)
Dispatch(p) ==
  /\ step[p] = "dispatch"
  /\ dispatched' = dispatched \cup {p}
  /\ Goto(p, "done")
  /\ UNCHANGED <<rows, gitlab, locals, count>>

(* An awaited call throws; the handler ends and undoes nothing.            *)
Fail(p) ==
  /\ step[p] \in Open
  /\ Count("failures", MaxFailures)
  /\ Goto(p, "failed")
  /\ UNCHANGED <<rows, gitlab, locals, dispatched>>

(* The API process stops with every handler it has open.                   *)
Crash ==
  /\ OpenHandlers # {}
  /\ Count("failures", MaxFailures)
  /\ step' = [p \in Patches |-> IF p \in OpenHandlers THEN "failed" ELSE step[p]]
  /\ UNCHANGED <<rows, gitlab, locals, dispatched>>

(* addGitlabUrl: a user links another GitLab account.                      *)
Relink(u, a) ==
  /\ a # account[u]
  /\ Count("relinks", MaxRelinks)
  /\ account' = [account EXCEPT ![u] = a]
  /\ UNCHANGED <<status, present, repoStatus, gitlab, step, locals, dispatched>>

(* A project is deleted through DELETE /gitlab/:id, or in GitLab itself.   *)
RemoveProject(i) ==
  /\ i \in DOMAIN projects
  /\ Count("projectRemovals", MaxProjectRemovals)
  /\ removed' = removed \cup {projects[i]}
  /\ members' = {m \in members : m[1] # projects[i]}
  /\ projects' = RemoveAt(projects, i)
  /\ UNCHANGED <<rows, step, locals, dispatched>>

(* DELETE /request/:id.                                                    *)
RemoveRequest(r) ==
  /\ r \in present
  /\ Count("requestRemovals", MaxRequestRemovals)
  /\ present' = present \ {r}
  /\ UNCHANGED <<status, repoStatus, account, gitlab, step, locals, dispatched>>

(* What the event loop does by itself once a handler has begun.            *)
Proceed(p) ==
  \/ Load(p)
  \/ CreateProject(p)
  \/ FindProject(p)
  \/ \E u \in Collaborators : Invite(p, u)
  \/ MarkCreated(p)

Advance(p) == Proceed(p) \/ Dispatch(p)

Environment ==
  \/ \E p \in Patches : Fail(p)
  \/ Crash
  \/ \E u \in Users, a \in Accounts : Relink(u, a)
  \/ \E i \in DOMAIN projects : RemoveProject(i)
  \/ \E r \in Requests : RemoveRequest(r)

Next ==
  \/ \E p \in Patches, s \in Statuses : UpdateStatus(p, s)
  \/ \E p \in Patches : Advance(p)
  \/ Environment

Spec == Init /\ [][Next]_vars

(* Node runs every handler on: an awaited call returns or throws in the    *)
(* end.  Nobody is obliged to send a PATCH.                                *)
FairSpec == Spec /\ \A p \in Patches : WF_vars(Advance(p))

----------------------------------------------------------------------------
(* A request is dispatched at most once for each project created for it:   *)
(* however many approvals of it are sent, repeated or overlap, all but one *)
(* stop at GitLab, which refuses the second project of the same name.  The *)
(* exception is a project that was removed in between.                     *)
OneDispatchPerProject ==
  \A p, q \in dispatched : p # q /\ Own(p) = Own(q) => Own(p) \in removed

(* A repository is marked Created only if there is, or was, a GitLab       *)
(* project created for it.                                                 *)
CreatedHasProject ==
  \A r \in Requests : repoStatus[r] = "Created" =>
    \E x \in ToSet(projects) \cup removed : x.request = r

(* Every member of a project was invited by a call about a request that he *)
(* collaborates on, and whose search returned that project: the request's  *)
(* own, or one whose name contains the text that was searched for.         *)
(* Without names that contain each other nobody gets into another          *)
(* request's project.                                                      *)
MembersAreInvitees ==
  \A m \in members : \E p \in Patches :
    /\ found[p] = m[1] /\ <<subject[p], m[1].request>> \in NameIn
    /\ m[2] \in Invitees[subject[p]]

(* What is dispatched is at that moment a request whose repository is      *)
(* Created, and which is Approved, unless another call about it has begun. *)
DispatchSeesApproved ==
  [][\A p \in dispatched' \ dispatched :
       /\ repoStatus[subject[p]] = "Created"
       /\ \/ status[subject[p]] = "Approved"
          \/ \E q \in Patches \ {p} : subject[q] = subject[p] /\ step[q] # "idle"]_vars

(* If nothing fails and nothing is removed, a request with resources that  *)
(* has become Approved is dispatched in the end, even if approvals of it   *)
(* overlap and all but one of them fail.                                   *)
ApprovalLeadsToDispatch ==
  \A r \in Requests :
    (status[r] = "Approved" /\ Provider[r] # "none")
      ~> \E p \in dispatched : subject[p] = r

(* What request.service.ts says of the search (line 412): it fetches the   *)
(* project the handler has just created.                                   *)
SearchFindsCreated ==
  \A p \in Patches : found[p] # NoProject => found[p] = Own(p)
============================================================================
