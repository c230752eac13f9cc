----------------------------- MODULE GitlabSync -----------------------------
(***************************************************************************)
(* GET /gitlab/sync: bring GitLab's projects and the rows of Repository    *)
(* into line, by deleting the projects no row names and then the rows no   *)
(* project has the name of.  The projects are those of the first page of   *)
(* GitLab's list, newest first; the rows are read later; and creations,    *)
(* approvals and deployments go on meanwhile.                              *)
(*                                                                         *)
(* A row takes its Request with it (onDelete: Cascade), but stays, and     *)
(* ends the synchronisation, when an ImageDeployment refers to it.  What   *)
(* creates rows and projects is modelled in RequestIntake and Approval;    *)
(* here it is cut down to what the two tables and GitLab see of it.        *)
(***************************************************************************)
EXTENDS Integers, FiniteSets

CONSTANTS
  Repos,        \* names of repositories, unique in the database
  Foreign,      \* names of projects somebody makes at GitLab
  PageSize,     \* projects on the first page
  MaxProjects,  \* bound: projects made
  MaxFaults     \* bound: deletions at GitLab that fail, statements that throw

ASSUME ForeignAssumption == Foreign \cap Repos = {}
ASSUME PageAssumption == PageSize \in Nat \ {0}
ASSUME SyncBoundsAssumption == MaxProjects \in Nat /\ MaxFaults \in Nat

VARIABLES
  rows,      \* the rows of Repository
  requests,  \* the rows of Request, by the name of the repository
  projects,  \* GitLab's projects; their ids grow in the order of their creation
  made,      \* projects made so far; the next one's id is made + 1
  recorded,  \* the rows of ImageDeployment
  sync,      \* the synchronisation
  faults

syncVars == <<rows, requests, projects, made, recorded, sync, faults>>

Project == [id : 1 .. MaxProjects, name : Repos \cup Foreign]

Names(ps) == {p.name : p \in ps}

NoSync == [step |-> "idle", listed |-> {}, there |-> {}, doomed |-> {}, stray |-> {},
           alone |-> TRUE]

SyncTypeOK ==
  /\ rows \subseteq Repos
  /\ requests \subseteq rows
  /\ projects \subseteq Project
  /\ made \in 0 .. MaxProjects
  /\ Names(recorded) \subseteq rows
  /\ sync \in [step   : {"idle", "listed", "deleting", "done", "aborted"},
               listed : SUBSET Project,   \* the first page
               there  : SUBSET Project,   \* history: all there were
               doomed : SUBSET Repos,     \* rows to delete
               stray  : SUBSET Project,   \* projects to delete
               alone  : BOOLEAN]          \* history: nothing failed or came between
  /\ faults \in 0 .. MaxFaults

SyncInit ==
  /\ rows = {}
  /\ requests = {}
  /\ projects = {}
  /\ made = 0
  /\ recorded = {}
  /\ sync = NoSync
  /\ faults = 0

Disturb == sync' = [sync EXCEPT !.alone = sync.step \in {"idle", "done", "aborted"}]

----------------------------------------------------------------------------
(* Of a creation: the row of Repository, ...                               *)
CreateRow(r) ==
  /\ r \notin rows
  /\ rows' = rows \cup {r}
  /\ Disturb
  /\ UNCHANGED <<requests, projects, made, recorded, faults>>

(* ... and the Request, which needs it.                                    *)
CreateRequestRow(r) ==
  /\ r \in rows \ requests
  /\ requests' = requests \cup {r}
  /\ Disturb
  /\ UNCHANGED <<rows, projects, made, recorded, faults>>

(* Of an approval: the project.  Or somebody makes one of another name.    *)
MakeProject(name) ==
  /\ name \in requests \cup Foreign
  /\ made < MaxProjects
  /\ projects' = projects \cup {[id |-> made + 1, name |-> name]}
  /\ made' = made + 1
  /\ Disturb
  /\ UNCHANGED <<rows, requests, recorded, faults>>

Without(id) == {p \in projects : p.id # id}

(* DELETE /gitlab/:id, or the same at GitLab.                              *)
DropProject(p) ==
  /\ p \in projects
  /\ projects' = Without(p.id)
  /\ Disturb
  /\ UNCHANGED <<rows, requests, made, recorded, faults>>

----------------------------------------------------------------------------
(* The first page of the list, the newest projects first.                  *)
FirstPage ==
  {p \in projects : Cardinality({q \in projects : q.id > p.id}) < PageSize}

ListProjects ==
  /\ sync.step \in {"idle", "done", "aborted"}
  /\ sync' = [NoSync EXCEPT !.step = "listed", !.listed = FirstPage,
                            !.there = projects]
  /\ UNCHANGED <<rows, requests, projects, made, recorded, faults>>

(* Mutant of ReadRows: rows without a request are spared.                  *)
ReadRequestedRows ==
  /\ sync.step = "listed"
  /\ sync' = [sync EXCEPT !.step = "deleting",
                          !.stray = {p \in sync.listed : p.name \notin requests},
                          !.doomed = requests \ Names(sync.listed)]
  /\ UNCHANGED <<rows, requests, projects, made, recorded, faults>>

ReadRows ==
  /\ sync.step = "listed"
  /\ sync' = [sync EXCEPT !.step = "deleting",
                          !.stray = {p \in sync.listed : p.name \notin rows},
                          !.doomed = rows \ Names(sync.listed)]
  /\ UNCHANGED <<rows, requests, projects, made, recorded, faults>>

(* A project is deleted, if it still exists; a failure is logged.          *)
DeleteProject(p) ==
  /\ sync.step = "deleting"
  /\ p \in sync.stray
  /\ \/ /\ projects' = Without(p.id)
        /\ sync' = [sync EXCEPT !.stray = @ \ {p}]
        /\ UNCHANGED faults
     \/ /\ faults < MaxFaults
        /\ faults' = faults + 1
        /\ sync' = [sync EXCEPT !.stray = @ \ {p}, !.alone = FALSE]
        /\ UNCHANGED projects
  /\ UNCHANGED <<rows, requests, made, recorded>>

(* Then the rows, in any order: delete throws for one that is gone, or     *)
(* that a deployment refers to, and the others are left.                   *)
DeleteRow(r) ==
  /\ sync.step = "deleting"
  /\ sync.stray = {}
  /\ r \in sync.doomed
  /\ IF r \in rows \ Names(recorded)
       THEN /\ rows' = rows \ {r}
            /\ requests' = requests \ {r}
            /\ sync' = [sync EXCEPT !.doomed = @ \ {r}]
       ELSE /\ sync' = [sync EXCEPT !.step = "aborted"]
            /\ UNCHANGED <<rows, requests>>
  /\ UNCHANGED <<projects, made, recorded, faults>>

(* The list or the database fails.                                         *)
AbortSync ==
  /\ sync.step \in {"listed", "deleting"}
  /\ faults < MaxFaults
  /\ faults' = faults + 1
  /\ sync' = [sync EXCEPT !.step = "aborted"]
  /\ UNCHANGED <<rows, requests, projects, made, recorded>>

FinishSync ==
  /\ sync.step = "deleting"
  /\ sync.stray = {} /\ sync.doomed = {}
  /\ sync' = [sync EXCEPT !.step = "done"]
  /\ UNCHANGED <<rows, requests, projects, made, recorded, faults>>

SyncRepositories ==
  \/ ListProjects \/ ReadRows \/ AbortSync \/ FinishSync
  \/ \E p \in Project : DeleteProject(p)
  \/ \E r \in Repos : DeleteRow(r)

Surroundings ==
  \/ \E r \in Repos : CreateRow(r) \/ CreateRequestRow(r)
  \/ \E name \in Repos \cup Foreign : MakeProject(name)
  \/ \E p \in Project : DropProject(p)

SyncNext == SyncRepositories \/ Surroundings

SyncSpec == SyncInit /\ [][SyncNext]_syncVars

----------------------------------------------------------------------------
(* There were more projects than a page holds.                             *)
Cut == Cardinality(sync.there) > PageSize

(* A row that the synchronisation deletes had no project when the list was *)
(* taken, unless there were more of them than the first page holds; one    *)
(* that is deployed stays; and a synchronisation that comes to its end     *)
(* with nothing between leaves a project for each row and, if they were on *)
(* one page, a row for each project.                                       *)
SyncAligns ==
  [][/\ \A r \in rows \ rows' :
          /\ r \in Names(sync.there) => Cut
          /\ r \notin Names(recorded)
     /\ FinishSync /\ sync.alone =>
          /\ Cut \/ Names(projects) = rows
          /\ rows \subseteq Names(projects)]_syncVars
=============================================================================
