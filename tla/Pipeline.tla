------------------------------ MODULE Pipeline ------------------------------
(***************************************************************************)
(* From the approval of a request to its resources: the handlers of        *)
(* Approval, the queue and entry DAGs of EntryDags and the provisioning    *)
(* DAGs of ChildDags, put together.                                        *)
(*                                                                         *)
(* They share the request rows (present), the Airflow host and the cloud   *)
(* (store), and meet in two steps: a handler that dispatches is a Send of  *)
(* EntryDags, and a trigger task that succeeds is a Start of ChildDags.    *)
(* Everything else one of them does leaves what is the others' alone.      *)
(***************************************************************************)
EXTENDS Integers, FiniteSets, SequencesExt

CONSTANTS
  Requests, Patches, Users, Accounts, Collaborators, Owner, Invitees, Provider, NameIn,
  DirectRuns, Wanted, DirName, None,
  MaxOpen, MaxFailures, MaxRelinks, MaxProjectRemovals, MaxRequestRemovals,
  MaxFaults, MaxLosses

VARIABLES
  present, store,                                     \* shared
  handlerEvents, entryEvents, childEvents,            \* the count of each part
  status, repoStatus, account, projects, removed, members,
  step, subject, namespace, found, uninvited,         \* of Approval
  dispatched,                                         \* of Approval, sent in EntryDags
  publishing, triggering, queue, dropped, task, dag,
  message, retried, branches, broken, triggered,      \* of EntryDags
  stage, about, recorded                              \* of ChildDags

approvalVars == <<status, repoStatus, account, projects, removed, members,
                  step, subject, namespace, found, uninvited>>
entryVars == <<publishing, triggering, queue, dropped, task, dag,
               message, retried, branches, broken, triggered>>
childVars == <<stage, about, recorded>>
vars == <<present, store, handlerEvents, entryEvents, childEvents, approvalVars, dispatched, entryVars, childVars>>

(* A trigger task creates at most one run, of the DAG of its kind.         *)
ChildRuns == (Patches \cup DirectRuns) \X {"vm", "db", "st"}

A == INSTANCE Approval WITH count <- handlerEvents
E == INSTANCE EntryDags WITH Sends <- Patches, sent <- dispatched, count <- entryEvents
C == INSTANCE ChildDags WITH count <- childEvents

ASSUME PartsAssumption ==
  /\ A!OwnerAssumption /\ A!InviteesAssumption /\ A!ProviderAssumption /\ A!NameInAssumption
  /\ E!SendsAssumption /\ E!ProviderAssumption /\ E!WantedAssumption
  /\ C!NoneAssumption

Init ==
  /\ A!Init
  /\ E!Init
  /\ C!Init

(* A handler dispatches: its message and its trigger are on their way.     *)
Dispatch(p) ==
  /\ A!Dispatch(p)
  /\ E!Send(p, subject[p])
  /\ UNCHANGED <<childVars, childEvents>>

(* A trigger task runs: a provisioning DAG starts if there is one.         *)
TriggerChild(x, k) ==
  /\ E!TriggerChild(x, k)
  /\ IF <<dag[x], k>> \in E!Registered
       THEN C!Start(<<x, k>>, message[x].request, k)
       ELSE UNCHANGED <<childVars, childEvents>>
  /\ UNCHANGED <<approvalVars, handlerEvents>>

InApproval == UNCHANGED <<store, entryVars, entryEvents, childVars, childEvents>>
InEntry    == UNCHANGED <<approvalVars, handlerEvents, childVars, childEvents>>
InChild    == UNCHANGED <<approvalVars, handlerEvents, dispatched, entryVars, entryEvents>>

(* What the event loop, the transport and Airflow do by themselves.        *)
Handle(p)  == Dispatch(p) \/ (A!Proceed(p) /\ InApproval)
Deliver    == E!Deliver /\ InEntry
RunEntry(x) == (E!Work(x) /\ InEntry) \/ \E k \in E!Kinds : TriggerChild(x, k)
RunChild(i) == C!RunStep(i) /\ InChild

Next ==
  \/ \E p \in Patches, s \in A!Statuses : A!UpdateStatus(p, s) /\ InApproval
  \/ A!Environment /\ InApproval
  \/ \E p \in Patches : Handle(p)
  \/ \E x \in DirectRuns, c \in E!Clouds : E!StartDirect(x, c) /\ InEntry
  \/ Deliver
  \/ \E x \in Patches \cup DirectRuns : RunEntry(x)
  \/ E!Faults /\ InEntry
  \/ \E i \in ChildRuns : RunChild(i) \/ (C!Faults(i) /\ InChild)

Spec == Init /\ [][Next]_vars

(* The fairness of the parts: Node runs its handlers on, what is in        *)
(* transit arrives, Airflow goes on with every run.                        *)
FairSpec ==
  /\ Spec
  /\ \A p \in Patches : WF_vars(Handle(p))
  /\ WF_vars(Deliver)
  /\ \A x \in Patches \cup DirectRuns : WF_vars(RunEntry(x))
  /\ \A i \in ChildRuns : WF_vars(RunChild(i))

----------------------------------------------------------------------------
(* One kind of instance of a request is provisioned by one run only,       *)
(* however often the request is approved, unless it had more than one      *)
(* project at GitLab: one was removed, or the owner linked another account *)
(* in between.  Nothing downstream of GitLab would notice the second time. *)
ProvisionedOnce ==
  \A i, j \in ChildRuns :
    (i # j /\ stage[i] # "none" /\ about[i] = about[j]) =>
      LET r == about[i][1]
      IN  \/ \E x \in removed : x.request = r
          \/ \E x, y \in ToSet(projects) : x # y /\ x.request = r /\ y.request = r

(* Nothing is created in the cloud, and nothing is recorded, for a request *)
(* that nobody approved or whose repository is not Created, even if runs   *)
(* take each other's messages.                                             *)
ProvisionedWasApproved ==
  \A r \in Requests :
    (\E k \in E!TfKinds : <<r, k>> \in store.cloud) \/ (\E k \in E!Kinds : recorded[<<r, k>>] # None)
      => /\ \E p \in dispatched : subject[p] = r
         /\ repoStatus[r] = "Created"

(* If nothing fails and nothing is removed, a request that has become      *)
(* Approved is dispatched in the end, even if approvals of it overlap.     *)
ApprovalLeadsToDispatch == A!ApprovalLeadsToDispatch

(* If moreover nothing is lost, a request whose message is taken by a run  *)
(* of its own cloud has, in the end, every kind of instance it asks for    *)
(* recorded as its own.                                                    *)
TakenLeadsToRecorded ==
  \A r \in Requests : \A k \in Wanted[r], x \in Patches \cup DirectRuns :
    (message[x].request = r /\ dag[x] = Provider[r]) ~> recorded[<<r, k>>] = r
=============================================================================
