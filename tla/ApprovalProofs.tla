---------------------------- MODULE ApprovalProofs ----------------------------
(***************************************************************************)
(* Theorems about Approval, for any requests, calls, users, accounts and   *)
(* names, and for any value of the bounds.                                 *)
(***************************************************************************)
EXTENDS Approval, SequenceLemmas, TLAPS

(* What the search returns is a project of GitLab whose name has the text. *)
LEMMA FirstFoundMatches ==
  ASSUME projects \in Seq(Project), NEW r, Matches(r) # {}
  PROVE  FirstFound(r) \in Project /\ <<r, FirstFound(r).request>> \in NameIn
<1>1. DOMAIN projects = 1..Len(projects) /\ Len(projects) \in Nat
  BY LenProperties
<1>2. Matches(r) \in SUBSET (1..Len(projects))
  BY <1>1 DEF Matches
<1>3. Max(Matches(r)) \in Matches(r)
  BY <1>1, <1>2, MaxOfBounded
<1>4. projects[Max(Matches(r))] \in Project
  BY <1>2, <1>3, ElementOfSeq
<1>. QED
  BY <1>3, <1>4 DEF FirstFound, Matches

(* Counting keeps the counters' type.                                      *)
LEMMA CountType ==
  ASSUME count \in [Events -> Nat], NEW event \in Events, NEW bound, Count(event, bound)
  PROVE  count' \in [Events -> Nat]
BY DEF Count

(* Every step keeps the types.                                             *)
LEMMA TypeStep == TypeOK /\ [Next]_vars => TypeOK'
<1> USE OwnerAssumption, InviteesAssumption
<1> SUFFICES ASSUME TypeOK, [Next]_vars PROVE TypeOK'
  OBVIOUS
<1> USE DEF TypeOK, Goto, Open, rows, gitlab, locals
<1>1. ASSUME NEW p \in Patches, NEW s \in Statuses, UpdateStatus(p, s) PROVE TypeOK'
  <2>1. status' \in [Requests -> Statuses]
    BY <1>1 DEF UpdateStatus
  <2>2. step' \in [Patches -> {"idle", "done", "failed"} \cup Open]
    BY <1>1 DEF UpdateStatus
  <2>. QED
    BY <1>1, <2>1, <2>2 DEF UpdateStatus
<1>2. ASSUME NEW p \in Patches, Load(p) PROVE TypeOK'
  BY <1>2 DEF Load
<1>3. ASSUME NEW p \in Patches, CreateProject(p) PROVE TypeOK'
  <2>1. Own(p) \in Project
    BY DEF Own, Project
  <2>2. projects' \in Seq(Project)
    <3>1. Append(projects, Own(p)) \in Seq(Project)
      BY <2>1, AppendProperties
    <3>. QED
      BY <1>3, <3>1 DEF CreateProject
  <2>. QED
    BY <1>3, <2>2 DEF CreateProject
<1>4. ASSUME NEW p \in Patches, FindProject(p) PROVE TypeOK'
  <2>1. found' \in [Patches -> Project \cup {NoProject}]
    <3>1. CASE Matches(subject[p]) = {}
      BY <1>4, <3>1 DEF FindProject
    <3>2. CASE Matches(subject[p]) # {}
      <4>1. FirstFound(subject[p]) \in Project
        BY <3>2, FirstFoundMatches
      <4>. QED
        BY <1>4, <3>2, <4>1 DEF FindProject
    <3>. QED
      BY <3>1, <3>2
  <2>2. uninvited' \in [Patches -> SUBSET Collaborators]
    <3>1. Invitees[subject[p]] \in SUBSET Collaborators
      OBVIOUS
    <3>. QED
      BY <1>4, <3>1 DEF FindProject
  <2>. QED
    BY <1>4, <2>1, <2>2 DEF FindProject
<1>5. ASSUME NEW p \in Patches, NEW u \in Collaborators, Invite(p, u) PROVE TypeOK'
  <2>1. members' \subseteq Project \X Collaborators
    <3>1. CASE members' = members
      BY <3>1
    <3>2. CASE members' # members
      <4>1. found[p] \in ToSet(projects) /\ members' = members \cup {<<found[p], u>>}
        BY <1>5, <3>2 DEF Invite
      <4>2. found[p] \in Project
        BY <4>1, ElementOfSeq, LenProperties DEF ToSet
      <4>. QED
        BY <4>1, <4>2
    <3>. QED
      BY <3>1, <3>2
  <2>2. uninvited' \in [Patches -> SUBSET Collaborators]
    <3>1. uninvited[p] \ {u} \in SUBSET Collaborators
      OBVIOUS
    <3>2. uninvited' = uninvited \/ uninvited' = [uninvited EXCEPT ![p] = uninvited[p] \ {u}]
      BY <1>5 DEF Invite
    <3>. QED
      BY <3>1, <3>2
  <2>3. step' \in [Patches -> {"idle", "done", "failed"} \cup Open]
    BY <1>5 DEF Invite
  <2>. QED
    BY <1>5, <2>1, <2>2, <2>3 DEF Invite
<1>6. ASSUME NEW p \in Patches, MarkCreated(p) PROVE TypeOK'
  BY <1>6 DEF MarkCreated
<1>7. ASSUME NEW p \in Patches, Dispatch(p) PROVE TypeOK'
  BY <1>7 DEF Dispatch
<1>8. ASSUME NEW p \in Patches, Fail(p) PROVE TypeOK'
  <2>1. count' \in [Events -> Nat]
    BY <1>8, CountType DEF Fail, Events
  <2>. QED
    BY <1>8, <2>1 DEF Fail
<1>9. ASSUME Crash PROVE TypeOK'
  <2>1. count' \in [Events -> Nat]
    BY <1>9, CountType DEF Crash, Events
  <2>. QED
    BY <1>9, <2>1 DEF Crash
<1>10. ASSUME NEW u \in Users, NEW a \in Accounts, Relink(u, a) PROVE TypeOK'
  <2>1. count' \in [Events -> Nat]
    BY <1>10, CountType DEF Relink, Events
  <2>. QED
    BY <1>10, <2>1 DEF Relink
<1>11. ASSUME NEW i \in DOMAIN projects, RemoveProject(i) PROVE TypeOK'
  <2>1. projects[i] \in Project
    BY ElementOfSeq, LenProperties
  <2>2. projects' \in Seq(Project)
    BY <1>11, RemoveAtType DEF RemoveProject
  <2>3. count' \in [Events -> Nat]
    BY <1>11, CountType DEF RemoveProject, Events
  <2>. QED
    BY <1>11, <2>1, <2>2, <2>3 DEF RemoveProject
<1>12. ASSUME NEW r \in Requests, RemoveRequest(r) PROVE TypeOK'
  <2>1. count' \in [Events -> Nat]
    BY <1>12, CountType DEF RemoveRequest, Events
  <2>. QED
    BY <1>12, <2>1 DEF RemoveRequest
<1>13. CASE UNCHANGED vars
  BY <1>13 DEF vars
<1>. QED
  BY <1>1, <1>2, <1>3, <1>4, <1>5, <1>6, <1>7, <1>8, <1>9, <1>10, <1>11, <1>12, <1>13
     DEF Next, Advance, Proceed, Environment

(* The variables keep their types; of the request's owner the handler      *)
(* reads the account as it is when it loads the request.                   *)
THEOREM TypeCorrect == Spec => []TypeOK
<1> USE OwnerAssumption, InviteesAssumption
<1>1. Init => TypeOK
  <2> SUFFICES ASSUME Init PROVE TypeOK
    OBVIOUS
  <2>1. projects \in Seq(Project)
    BY EmptySeq DEF Init
  <2>2. namespace \in [Patches -> Accounts]
    BY DEF Init
  <2>. QED
    BY <2>1, <2>2 DEF Init, TypeOK, Statuses
<1>. QED
  BY <1>1, TypeStep, PTL DEF Spec

----------------------------------------------------------------------------
(* The handlers whose project has been created and who are to dispatch, or *)
(* have dispatched, their request.                                         *)
Made == {p \in Patches : step[p] \in Created \/ p \in dispatched}

(* What is dispatched is over, so that it does not read another account.   *)
DispatchedAreDone == \A p \in dispatched : step[p] = "done"

(* Such a project is there, unless it has been removed.                    *)
MadeHaveProject == \A p \in Made : Own(p) \in ToSet(projects) \cup removed

(* Two handlers have made the same project only if it was removed in       *)
(* between.                                                                *)
MadeOncePerProject == \A p, q \in Made : p # q /\ Own(p) = Own(q) => Own(p) \in removed

Dispatching == DispatchedAreDone /\ MadeHaveProject /\ MadeOncePerProject

(* At most one dispatch for each project created: a second handler would   *)
(* have had to create the project again while it is there, which GitLab    *)
(* refuses.                                                                *)
LEMMA DispatchingStep == TypeOK /\ Dispatching /\ [Next]_vars => Dispatching'
<1> SUFFICES ASSUME TypeOK, Dispatching, [Next]_vars PROVE Dispatching'
  OBVIOUS
<1>0. /\ projects \in Seq(Project) /\ dispatched \subseteq Patches
      /\ step \in [Patches -> {"idle", "done", "failed"} \cup Open]
      /\ subject \in [Patches -> Requests] /\ namespace \in [Patches -> Accounts]
  BY DEF TypeOK
<1> USE <1>0 DEF Goto, Dispatching, rows, gitlab, locals
(* Steps after which no more handlers have made a project, and which       *)
(* leave GitLab alone.                                                     *)
<1>1. ASSUME UNCHANGED <<projects, removed, subject>>, Made' \subseteq Made,
             \A p \in Made : namespace'[p] = namespace[p],
             DispatchedAreDone'
      PROVE  Dispatching'
  BY <1>1 DEF MadeHaveProject, MadeOncePerProject, Own
<1>2. ASSUME NEW p \in Patches, NEW s \in Statuses, UpdateStatus(p, s) PROVE Dispatching'
  <2>1. /\ UNCHANGED <<projects, removed, subject, namespace, dispatched>>
        /\ step[p] = "idle" /\ \A q \in Patches : q # p => step'[q] = step[q]
        /\ step'[p] \in {"load", "done", "failed"}
    BY <1>2 DEF UpdateStatus
  <2>. QED
    BY <1>1, <2>1 DEF Made, Created, DispatchedAreDone
<1>3. ASSUME NEW p \in Patches, Load(p) PROVE Dispatching'
  <2>1. /\ UNCHANGED <<projects, removed, subject, dispatched>>
        /\ step[p] = "load" /\ \A q \in Patches : q # p => step'[q] = step[q]
        /\ \A q \in Patches : q # p => namespace'[q] = namespace[q]
        /\ step'[p] \in {"create", "failed"}
    BY <1>3 DEF Load
  <2>2. p \notin Made
    BY <2>1 DEF Made, Created, DispatchedAreDone
  <2>. QED
    BY <1>1, <2>1, <2>2 DEF Made, Created, DispatchedAreDone
<1>4. ASSUME NEW p \in Patches, CreateProject(p) PROVE Dispatching'
  <2>1. CASE Own(p) \in ToSet(projects)
    <3>1. /\ UNCHANGED <<projects, removed, subject, namespace, dispatched>>
          /\ step[p] = "create" /\ step' = [step EXCEPT ![p] = "failed"]
      BY <1>4, <2>1 DEF CreateProject
    <3>. QED
      BY <1>1, <3>1 DEF Made, Created, DispatchedAreDone
  <2>2. CASE Own(p) \notin ToSet(projects)
    <3>1. /\ UNCHANGED <<removed, subject, namespace, dispatched>>
          /\ projects' = Append(projects, Own(p))
          /\ step[p] = "create" /\ step' = [step EXCEPT ![p] = "find"]
      BY <1>4, <2>2 DEF CreateProject
    <3>2. ToSet(projects') = ToSet(projects) \cup {Own(p)}
      <4>1. Own(p) \in Project
        BY DEF Own, Project
      <4>. QED
        BY <3>1, <4>1, AppendSet
    <3>3. Made' \subseteq Made \cup {p} /\ \A q \in Patches : Own(q)' = Own(q)
      BY <3>1 DEF Made, Created, Own
    <3>4. DispatchedAreDone'
      BY <3>1 DEF DispatchedAreDone
    <3>5. MadeHaveProject'
      BY <3>1, <3>2, <3>3 DEF MadeHaveProject, Made
    <3>6. ASSUME NEW q \in Made, Own(q) = Own(p) PROVE Own(p) \in removed
      BY <2>2, <3>6 DEF MadeHaveProject
    <3>7. MadeOncePerProject'
      BY <3>1, <3>3, <3>6 DEF MadeOncePerProject, Made
    <3>. QED
      BY <3>4, <3>5, <3>7
  <2>. QED
    BY <2>1, <2>2
<1>5. ASSUME NEW p \in Patches,
             FindProject(p) \/ (\E u \in Collaborators : Invite(p, u)) \/ MarkCreated(p)
      PROVE  Dispatching'
  <2>1. /\ UNCHANGED <<projects, removed, subject, namespace, dispatched>>
        /\ step[p] \in Created /\ \A q \in Patches : q # p => step'[q] = step[q]
    BY <1>5 DEF FindProject, Invite, MarkCreated, Created
  <2>. QED
    BY <1>1, <2>1 DEF Made, Created, DispatchedAreDone
<1>6. ASSUME NEW p \in Patches, Dispatch(p) PROVE Dispatching'
  <2>1. /\ UNCHANGED <<projects, removed, subject, namespace>>
        /\ step[p] = "dispatch" /\ step' = [step EXCEPT ![p] = "done"]
        /\ dispatched' = dispatched \cup {p}
    BY <1>6 DEF Dispatch
  <2>. QED
    BY <1>1, <2>1 DEF Made, Created, DispatchedAreDone
<1>7. ASSUME (\E p \in Patches : Fail(p)) \/ Crash PROVE Dispatching'
  <2>1. /\ UNCHANGED <<projects, removed, subject, namespace, dispatched>>
        /\ \A q \in Patches : step'[q] = step[q] \/ (step[q] \in Open /\ step'[q] = "failed")
    BY <1>7 DEF Fail, Crash, OpenHandlers
  <2>. QED
    BY <1>1, <2>1 DEF Made, Created, Open, DispatchedAreDone
<1>8. ASSUME NEW i \in DOMAIN projects, RemoveProject(i) PROVE Dispatching'
  <2>1. /\ UNCHANGED <<step, subject, namespace, dispatched>>
        /\ removed' = removed \cup {projects[i]} /\ projects' = RemoveAt(projects, i)
    BY <1>8 DEF RemoveProject
  <2>2. ToSet(projects) \subseteq ToSet(projects') \cup {projects[i]}
    BY <2>1, RemoveAtSet
  <2>3. Made' = Made /\ \A q \in Patches : Own(q)' = Own(q)
    BY <2>1 DEF Made, Own
  <2>4. DispatchedAreDone'
    BY <2>1 DEF DispatchedAreDone
  <2>5. MadeHaveProject'
    BY <2>1, <2>2, <2>3 DEF MadeHaveProject, Made
  <2>6. MadeOncePerProject'
    BY <2>1, <2>3 DEF MadeOncePerProject, Made
  <2>. QED
    BY <2>4, <2>5, <2>6
<1>9. CASE UNCHANGED <<projects, removed, step, subject, namespace, dispatched>>
  BY <1>1, <1>9 DEF Made, DispatchedAreDone
<1>10. ASSUME \/ \E u \in Users, a \in Accounts : Relink(u, a)
              \/ \E r \in Requests : RemoveRequest(r)
              \/ UNCHANGED vars
       PROVE  Dispatching'
  BY <1>9, <1>10 DEF Relink, RemoveRequest, vars
<1>. QED
  BY <1>2, <1>3, <1>4, <1>5, <1>6, <1>7, <1>8, <1>10 DEF Next, Advance, Proceed, Environment

(* So it is for every sequence of calls.                                   *)
LEMMA DispatchingInvariant == Spec => []Dispatching
<1>1. Init => Dispatching
  BY DEF Init, Dispatching, DispatchedAreDone, MadeHaveProject, MadeOncePerProject, Made, Created
<1>. QED
  BY <1>1, DispatchingStep, TypeCorrect, PTL DEF Spec

(* A request is dispatched once for each project created for it, however   *)
(* many approvals are sent and however they overlap.                       *)
THEOREM DispatchedOncePerProject == Spec => []OneDispatchPerProject
<1>1. TypeOK /\ Dispatching => OneDispatchPerProject
  BY DEF TypeOK, Dispatching, MadeOncePerProject, Made, OneDispatchPerProject
<1>. QED
  BY <1>1, TypeCorrect, DispatchingInvariant, PTL

(* A repository that is marked Created has, or had, its project.           *)
THEOREM CreatedMeansProject == Spec => []CreatedHasProject
<1>1. Init => CreatedHasProject
  BY DEF Init, CreatedHasProject
<1>2. TypeOK /\ TypeOK' /\ Dispatching /\ CreatedHasProject /\ [Next]_vars => CreatedHasProject'
  <2> SUFFICES ASSUME TypeOK, TypeOK', Dispatching, CreatedHasProject, [Next]_vars
               PROVE  CreatedHasProject'
    OBVIOUS
  <2>0. /\ projects \in Seq(Project) /\ subject \in [Patches -> Requests]
        /\ namespace \in [Patches -> Accounts] /\ repoStatus \in [Requests -> {"Pending", "Created"}]
    BY DEF TypeOK
  <2> USE <2>0 DEF Goto, rows, gitlab, locals
  <2>1. ASSUME NEW p \in Patches, MarkCreated(p) PROVE CreatedHasProject'
    <3>1. Own(p) \in ToSet(projects) \cup removed /\ Own(p).request = subject[p]
      BY <2>1 DEF MarkCreated, Dispatching, MadeHaveProject, Made, Created, Own
    <3>2. /\ UNCHANGED <<projects, removed>>
          /\ repoStatus' = [repoStatus EXCEPT ![subject[p]] = "Created"]
      BY <2>1 DEF MarkCreated
    <3>. QED
      BY <3>1, <3>2 DEF CreatedHasProject
  <2>2. ASSUME repoStatus' = repoStatus,
               ToSet(projects) \cup removed \subseteq ToSet(projects') \cup removed'
        PROVE  CreatedHasProject'
    BY <2>2 DEF CreatedHasProject
  <2>3. ASSUME NEW p \in Patches, CreateProject(p) PROVE CreatedHasProject'
    <3>1. Own(p) \in Project
      BY DEF Own, Project
    <3>. QED
      BY <2>2, <2>3, <3>1, AppendSet DEF CreateProject
  <2>4. ASSUME NEW i \in DOMAIN projects, RemoveProject(i) PROVE CreatedHasProject'
    BY <2>2, <2>4, RemoveAtSet DEF RemoveProject
  <2>5. CASE UNCHANGED <<repoStatus, projects, removed>>
    BY <2>2, <2>5
  <2>. QED
    BY <2>1, <2>3, <2>4, <2>5
       DEF Next, Advance, Proceed, Environment, vars, UpdateStatus, Load, FindProject, Invite,
           Dispatch, Fail, Crash, Relink, RemoveRequest
<1>. QED
  BY <1>1, <1>2, TypeCorrect, DispatchingInvariant, PTL DEF Spec

----------------------------------------------------------------------------
(* Another call about the same request has begun.                          *)
Intervened(p) == \E q \in Patches \ {p} : subject[q] = subject[p] /\ step[q] # "idle"

(* An open handler's request is Approved, unless another call intervened,  *)
(* and its repository is Created once it is about to dispatch.             *)
OpenMeansApproved ==
  \A p \in Patches :
    /\ step[p] \in Open => status[subject[p]] = "Approved" \/ Intervened(p)
    /\ step[p] = "dispatch" => repoStatus[subject[p]] = "Created"

LEMMA OpenInvariant == Spec => []OpenMeansApproved
<1>1. Init => OpenMeansApproved
  BY DEF Init, OpenMeansApproved, Open
<1>2. TypeOK /\ OpenMeansApproved /\ [Next]_vars => OpenMeansApproved'
  <2> SUFFICES ASSUME TypeOK, OpenMeansApproved, [Next]_vars PROVE OpenMeansApproved'
    OBVIOUS
  <2>0. /\ step \in [Patches -> {"idle", "done", "failed"} \cup Open]
        /\ subject \in [Patches -> Requests]
        /\ status \in [Requests -> Statuses] /\ repoStatus \in [Requests -> {"Pending", "Created"}]
    BY DEF TypeOK
  <2> USE <2>0 DEF Goto, rows, gitlab, locals
  (* Once begun, a call stays begun: that another intervened is not undone. *)
  <2>1. ASSUME subject' = subject, \A q \in Patches : step[q] # "idle" => step'[q] # "idle"
        PROVE  \A p \in Patches : Intervened(p) => Intervened(p)'
    BY <2>1 DEF Intervened
  <2>2. ASSUME NEW p \in Patches, NEW s \in Statuses, UpdateStatus(p, s) PROVE OpenMeansApproved'
    <3>1. /\ UNCHANGED <<subject, repoStatus>> /\ step[p] = "idle"
          /\ \/ /\ step' = [step EXCEPT ![p] = IF s = "Approved" THEN "load" ELSE "done"]
                /\ status' = [status EXCEPT ![subject[p]] = s]
             \/ step' = [step EXCEPT ![p] = "failed"] /\ status' = status
      BY <2>2 DEF UpdateStatus
    <3>2. \A q \in Patches : Intervened(q) => Intervened(q)'
      BY <2>1, <3>1
    <3>3. step'[p] # "idle" /\ step'[p] # "dispatch"
      BY <3>1
    <3>4. step'[p] \in Open => status'[subject[p]] = "Approved"
      BY <3>1 DEF Open
    <3>5. ASSUME NEW q \in Patches, q # p
          PROVE  step'[q] = step[q] /\ (status'[subject[q]] = status[subject[q]] \/ Intervened(q)')
      <4>1. CASE subject[q] = subject[p]
        BY <3>1, <3>3, <3>5, <4>1 DEF Intervened
      <4>2. CASE subject[q] # subject[p]
        BY <3>1, <3>5, <4>2
      <4>. QED
        BY <4>1, <4>2
    <3>. QED
      BY <3>1, <3>2, <3>3, <3>4, <3>5 DEF OpenMeansApproved
  <2>3. ASSUME NEW p \in Patches, MarkCreated(p) PROVE OpenMeansApproved'
    <3>1. /\ UNCHANGED <<subject, status>> /\ step[p] = "mark"
          /\ repoStatus' = [repoStatus EXCEPT ![subject[p]] = "Created"]
          /\ \A q \in Patches : q # p => step'[q] = step[q]
          /\ step'[p] # "idle"
      BY <2>3 DEF MarkCreated
    <3>2. \A q \in Patches : Intervened(q) => Intervened(q)'
      BY <2>1, <3>1
    <3>3. \A q \in Patches :
            repoStatus[subject[q]] = "Created" \/ q = p => repoStatus'[subject[q]] = "Created"
      BY <3>1
    <3>. QED
      BY <3>1, <3>2, <3>3 DEF OpenMeansApproved, Open
  <2>4. ASSUME UNCHANGED <<subject, status, repoStatus>>,
               \A q \in Patches :
                 \/ step'[q] = step[q]
                 \/ step[q] \in Open /\ step'[q] \notin {"idle", "dispatch"}
        PROVE  OpenMeansApproved'
    <3>1. \A q \in Patches : Intervened(q) => Intervened(q)'
      BY <2>1, <2>4
    <3>. QED
      BY <2>4, <3>1 DEF OpenMeansApproved
  <2>5. ASSUME NEW p \in Patches,
               \/ Load(p) \/ CreateProject(p) \/ FindProject(p)
               \/ \E u \in Collaborators : Invite(p, u)
               \/ Dispatch(p) \/ Fail(p)
        PROVE  OpenMeansApproved'
    <3>1. /\ UNCHANGED <<subject, status, repoStatus>> /\ step[p] \in Open
          /\ \A q \in Patches : q # p => step'[q] = step[q]
          /\ step'[p] \notin {"idle", "dispatch"}
      BY <2>5 DEF Load, CreateProject, FindProject, Invite, Dispatch, Fail, Open
    <3>. QED
      BY <2>4, <3>1
  <2>6. ASSUME Crash PROVE OpenMeansApproved'
    <3>1. \A q \in Patches : step'[q] = step[q] \/ (step[q] \in Open /\ step'[q] = "failed")
      BY <2>6 DEF Crash, OpenHandlers
    <3>. QED
      BY <2>4, <2>6, <3>1 DEF Crash
  <2>7. CASE UNCHANGED <<subject, status, repoStatus, step>>
    BY <2>4, <2>7
  <2>8. ASSUME \/ \E u \in Users, a \in Accounts : Relink(u, a)
               \/ \E i \in DOMAIN projects : RemoveProject(i)
               \/ \E r \in Requests : RemoveRequest(r)
               \/ UNCHANGED vars
        PROVE  OpenMeansApproved'
    BY <2>7, <2>8 DEF Relink, RemoveProject, RemoveRequest, vars
  <2>. QED
    BY <2>2, <2>3, <2>5, <2>6, <2>8 DEF Next, Advance, Proceed, Environment
<1>. QED
  BY <1>1, <1>2, TypeCorrect, PTL DEF Spec

(* A step that dispatches a request finds its repository Created and the   *)
(* request Approved, unless another call about it has begun.               *)
THEOREM DispatchesAreApproved == Spec => DispatchSeesApproved
<1>1. TypeOK /\ OpenMeansApproved /\ [Next]_vars =>
        [\A p \in dispatched' \ dispatched :
           /\ repoStatus[subject[p]] = "Created"
           /\ \/ status[subject[p]] = "Approved"
              \/ \E q \in Patches \ {p} : subject[q] = subject[p] /\ step[q] # "idle"]_vars
  <2> SUFFICES ASSUME TypeOK, OpenMeansApproved, Next, NEW p \in dispatched' \ dispatched
               PROVE  /\ repoStatus[subject[p]] = "Created"
                      /\ status[subject[p]] = "Approved" \/ Intervened(p)
    BY DEF Intervened
  <2>1. PICK q \in Patches : Dispatch(q)
    BY DEF Next, Advance, Proceed, Environment, UpdateStatus, Load, CreateProject, FindProject,
           Invite, MarkCreated, Fail, Crash, Relink, RemoveProject, RemoveRequest, locals, rows, gitlab
  <2>2. p = q /\ step[p] = "dispatch"
    BY <2>1 DEF Dispatch
  <2>. QED
    BY <2>1, <2>2 DEF OpenMeansApproved, Open
<1>. QED
  BY <1>1, TypeCorrect, OpenInvariant, PTL DEF Spec, DispatchSeesApproved

----------------------------------------------------------------------------
(* While it invites, a handler holds a project whose name has the text it  *)
(* searched for, and its own request's invitees.                           *)
InvitesToFound ==
  \A p \in Patches : step[p] = "invite" =>
    <<subject[p], found[p].request>> \in NameIn /\ uninvited[p] \subseteq Invitees[subject[p]]

(* The handlers that have still to search.                                 *)
Searching == {"idle", "load", "create", "find"}

(* The handler that invited a member keeps what its search returned.       *)
Invited ==
  \A m \in members : \E p \in Patches :
    /\ step[p] \notin Searching
    /\ found[p] = m[1] /\ <<subject[p], m[1].request>> \in NameIn
    /\ m[2] \in Invitees[subject[p]]

(* Whatever the names: every member was invited by a call about a request  *)
(* he collaborates on, to the project which that call's search returned;   *)
(* in another request's project he is only if its name contains the text.  *)
THEOREM MembersStayInvitees == Spec => []MembersAreInvitees
<1> DEFINE Inv == InvitesToFound /\ Invited
<1>1. Init => Inv
  BY DEF Init, InvitesToFound, Invited
<1>2. TypeOK /\ Inv /\ [Next]_vars => Inv'
  <2> SUFFICES ASSUME TypeOK, Inv, [Next]_vars PROVE Inv'
    OBVIOUS
  <2>0. /\ projects \in Seq(Project) /\ members \subseteq Project \X Collaborators
        /\ step \in [Patches -> {"idle", "done", "failed"} \cup Open]
        /\ subject \in [Patches -> Requests]
        /\ found \in [Patches -> Project \cup {NoProject}]
        /\ uninvited \in [Patches -> SUBSET Collaborators]
    BY DEF TypeOK
  <2> USE <2>0 DEF Goto, rows, gitlab, locals, Searching
  <2>1. ASSUME NEW p \in Patches, FindProject(p) PROVE Inv'
    <3>1. /\ step[p] = "find" /\ UNCHANGED <<subject, members>> /\ step'[p] \notin Searching
          /\ \A q \in Patches : q # p =>
               step'[q] = step[q] /\ found'[q] = found[q] /\ uninvited'[q] = uninvited[q]
      BY <2>1 DEF FindProject
    <3>2. Invited'
      BY <3>1 DEF Invited
    <3>3. CASE Matches(subject[p]) = {}
      BY <2>1, <3>1, <3>2, <3>3 DEF FindProject, InvitesToFound
    <3>4. CASE Matches(subject[p]) # {}
      <4>1. <<subject[p], FirstFound(subject[p]).request>> \in NameIn
        BY <3>4, FirstFoundMatches
      <4>2. found'[p] = FirstFound(subject[p]) /\ uninvited'[p] = Invitees[subject[p]]
        BY <2>1, <3>4 DEF FindProject
      <4>. QED
        BY <3>1, <3>2, <4>1, <4>2 DEF InvitesToFound
    <3>. QED
      BY <3>3, <3>4
  <2>2. ASSUME NEW p \in Patches, NEW u \in Collaborators, Invite(p, u) PROVE Inv'
    <3>1. /\ step[p] = "invite" /\ u \in uninvited[p] /\ UNCHANGED <<subject, found>>
          /\ step'[p] \notin Searching
          /\ \A q \in Patches : q # p => step'[q] = step[q] /\ uninvited'[q] = uninvited[q]
          /\ uninvited'[p] \subseteq uninvited[p]
          /\ members' \subseteq members \cup {<<found[p], u>>}
      BY <2>2 DEF Invite
    <3>2. InvitesToFound'
      BY <3>1 DEF InvitesToFound
    <3>3. u \in Invitees[subject[p]] /\ <<subject[p], found[p].request>> \in NameIn
      BY <3>1 DEF InvitesToFound
    <3>4. ASSUME NEW m \in members', m \in members
          PROVE  \E q \in Patches : /\ step'[q] \notin Searching
                                    /\ found'[q] = m[1] /\ <<subject'[q], m[1].request>> \in NameIn
                                    /\ m[2] \in Invitees[subject'[q]]
      BY <3>1, <3>4 DEF Invited
    <3>5. ASSUME NEW m \in members', m = <<found[p], u>>
          PROVE  /\ step'[p] \notin Searching
                 /\ found'[p] = m[1] /\ <<subject'[p], m[1].request>> \in NameIn
                 /\ m[2] \in Invitees[subject'[p]]
      BY <3>1, <3>3, <3>5
    <3>6. Invited'
      BY <3>1, <3>4, <3>5 DEF Invited
    <3>. QED
      BY <3>2, <3>6
  <2>3. ASSUME UNCHANGED <<subject, found, uninvited>>, members' \subseteq members,
               \A q \in Patches : step'[q] = "invite" => step[q] = "invite",
               \A q \in Patches : step'[q] \in Searching => step[q] \in Searching
        PROVE  Inv'
    BY <2>3 DEF InvitesToFound, Invited
  <2>4. ASSUME NEW p \in Patches,
               \/ \E s \in Statuses : UpdateStatus(p, s)
               \/ Load(p) \/ CreateProject(p) \/ MarkCreated(p) \/ Dispatch(p) \/ Fail(p)
        PROVE  Inv'
    <3>1. UNCHANGED <<subject, found, uninvited, members>>
      BY <2>4 DEF UpdateStatus, Load, CreateProject, MarkCreated, Dispatch, Fail
    <3>2. \A q \in Patches : /\ step'[q] = "invite" => step[q] = "invite"
                             /\ step'[q] \in Searching => step[q] \in Searching
      BY <2>4 DEF UpdateStatus, Load, CreateProject, MarkCreated, Dispatch, Fail, Open
    <3>. QED
      BY <2>3, <3>1, <3>2
  <2>5. ASSUME \/ Crash \/ UNCHANGED vars
               \/ \E u \in Users, a \in Accounts : Relink(u, a)
               \/ \E i \in DOMAIN projects : RemoveProject(i)
               \/ \E r \in Requests : RemoveRequest(r)
        PROVE  Inv'
    BY <2>3, <2>5 DEF Crash, Relink, RemoveProject, RemoveRequest, vars
  <2>. QED
    BY <2>1, <2>2, <2>4, <2>5 DEF Next, Advance, Proceed, Environment
<1>3. Inv => MembersAreInvitees
  BY DEF Invited, MembersAreInvitees
<1>. QED
  BY <1>1, <1>2, <1>3, TypeCorrect, PTL DEF Spec
=============================================================================
