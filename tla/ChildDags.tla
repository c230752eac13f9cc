----------------------------- MODULE ChildDags -----------------------------
(***************************************************************************)
(* The DAGs that provision one kind of instance of one request: virtual    *)
(* machines, databases or storage, on Azure or AWS.  A run gets the        *)
(* request id in its conf, reads the request's configuration, writes       *)
(* Terraform files into the directory of the request and kind, applies     *)
(* them, and copies the state file of the directory into the instances'    *)
(* rows.  The DAGs of Azure's databases and storage write a main file of   *)
(* another name each time, so that a directory can be written once: a      *)
(* second write, of another run or of the task's own retry, leaves files   *)
(* that Terraform refuses.  The others overwrite theirs.  No DAG file      *)
(* bounds the runs in one directory to one.                                *)
(*                                                                         *)
(* A task has one retry.  Fetching, applying and recording may be repeated *)
(* without effect, so that such a task that fails here is one that failed  *)
(* twice; writing may not, and its retry is an action.  Two writes within  *)
(* one second, whose main files would have one name, are left out.         *)
(***************************************************************************)
EXTENDS Integers, Terraform

CONSTANTS
  ChildRuns,           \* runs of the DAGs
  MaxFaults,           \* bound: failing tasks
  MaxRequestRemovals   \* bound: request rows removed

Stages == {"fetch", "write", "apply", "record"}

(* What a run that was not created is about.                               *)
NoSubject == <<None, None>>

VARIABLES
  present,   \* the requests whose row exists
  stage,     \* the task a run is at, or how it ended
  about,     \* the request and kind a run is about
  store,     \* see Terraform
  recorded,  \* terraformState of the instances' rows: whose resources it lists
  count      \* how often each bounded event has happened

vars == <<present, stage, about, store, recorded, count>>

Events == {"faults", "requestRemovals"}

TypeOK ==
  /\ present \subseteq Requests
  /\ stage \in [ChildRuns -> {"none", "success", "failed"} \cup Stages]
  /\ about \in [ChildRuns -> (Requests \X Kinds) \cup {NoSubject}]
  /\ store \in Stores
  /\ recorded \in [Requests \X Kinds -> Requests \cup {None}]
  /\ count \in [Events -> Nat]

Init ==
  /\ present = Requests
  /\ stage = [i \in ChildRuns |-> "none"]
  /\ about = [i \in ChildRuns |-> NoSubject]
  /\ store = EmptyStore
  /\ recorded = [o \in Requests \X Kinds |-> None]
  /\ count = [e \in Events |-> 0]

Goto(i, s) == stage' = [stage EXCEPT ![i] = s]

Count(event, bound) ==
  /\ count[event] < bound
  /\ count' = [count EXCEPT ![event] = @ + 1]

DirOf(i) == Directory(about[i][1], about[i][2])

(* The entry DAG creates the run.                                          *)
Start(i, r, k) ==
  /\ stage[i] = "none"
  /\ about' = [about EXCEPT ![i] = <<r, k>>]
  /\ Goto(i, "fetch")
  /\ UNCHANGED <<present, store, recorded, count>>

(* fetch_config raises if the request is gone.                             *)
Fetch(i) ==
  /\ stage[i] = "fetch"
  /\ Goto(i, IF about[i][1] \in present THEN "write" ELSE "failed")
  /\ UNCHANGED <<present, about, store, recorded, count>>

(* Mutant of WriteFiles: the directory is emptied first.                   *)
WriteFilesAfresh(i) ==
  /\ stage[i] = "write"
  /\ store' = [Written(store, DirOf(i), about[i][1]) EXCEPT !.state[DirOf(i)] = None]
  /\ Goto(i, "apply")
  /\ UNCHANGED <<present, about, recorded, count>>

(* create_terraform_dir, generate_ssh_key and write_terraform_files.       *)
WriteFiles(i) ==
  /\ stage[i] = "write"
  /\ store' = Written(store, DirOf(i), about[i][1])
  /\ Goto(i, "apply")
  /\ UNCHANGED <<present, about, recorded, count>>

(* The task dies when it has written, and its retry writes once more.      *)
WriteFilesTwice(i) ==
  /\ stage[i] = "write"
  /\ Count("faults", MaxFaults)
  /\ store' = Written(Written(store, DirOf(i), about[i][1]), DirOf(i), about[i][1])
  /\ Goto(i, "apply")
  /\ UNCHANGED <<present, about, recorded>>

(* terraform_init, which refuses what clashes, and terraform_apply.        *)
Apply(i) ==
  /\ stage[i] = "apply"
  /\ IF Clashes(store, DirOf(i))
       THEN /\ Goto(i, "failed")
            /\ UNCHANGED store
       ELSE /\ store' = Applied(store, DirOf(i))
            /\ Goto(i, "record")
  /\ UNCHANGED <<present, about, recorded, count>>

(* Mutants of Record: nothing is written; the directory is written instead *)
(* of the state file in it; the UPDATE has no WHERE.                       *)
RecordForgotten(i) ==
  /\ stage[i] = "record"
  /\ Goto(i, "success")
  /\ UNCHANGED <<present, about, store, recorded, count>>

RecordDirectory(i) ==
  /\ stage[i] = "record"
  /\ recorded' = [recorded EXCEPT ![about[i]] = DirOf(i)]
  /\ Goto(i, "success")
  /\ UNCHANGED <<present, about, store, count>>

RecordEverywhere(i) ==
  /\ stage[i] = "record"
  /\ recorded' = [o \in Requests \X Kinds |->
                   IF o[2] = about[i][2] THEN store.state[DirOf(i)] ELSE recorded[o]]
  /\ Goto(i, "success")
  /\ UNCHANGED <<present, about, store, count>>

(* write_to_db: whatever state file is in the directory goes to the rows   *)
(* of the run's own request, if there is one.                              *)
Record(i) ==
  /\ stage[i] = "record"
  /\ IF store.state[DirOf(i)] = None
       THEN /\ Goto(i, "failed")
            /\ UNCHANGED recorded
       ELSE /\ recorded' = [recorded EXCEPT ![about[i]] = store.state[DirOf(i)]]
            /\ Goto(i, "success")
  /\ UNCHANGED <<present, about, store, count>>

(* A task fails with its retry; one that writes or applies may have been   *)
(* through, or halfway.                                                    *)
TaskFails(i) ==
  /\ stage[i] \in Stages
  /\ Count("faults", MaxFaults)
  /\ Goto(i, "failed")
  /\ \/ UNCHANGED store
     \/ stage[i] = "write" /\ store' \in PartlyWritten(store, DirOf(i), about[i][1])
     \/ stage[i] = "apply" /\ ~Clashes(store, DirOf(i)) /\ store' = Applied(store, DirOf(i))
  /\ UNCHANGED <<present, about, recorded>>

(* DELETE /request/:id deletes the request row alone: the rows that        *)
(* write_to_db reads and updates stay.                                     *)
RemoveRequest(r) ==
  /\ r \in present
  /\ Count("requestRemovals", MaxRequestRemovals)
  /\ present' = present \ {r}
  /\ UNCHANGED <<stage, about, store, recorded>>

RunStep(i) == Fetch(i) \/ WriteFiles(i) \/ Apply(i) \/ Record(i)

Faults(i) == WriteFilesTwice(i) \/ TaskFails(i)

Next ==
  \/ \E i \in ChildRuns, r \in Requests, k \in Kinds : Start(i, r, k)
  \/ \E i \in ChildRuns : RunStep(i) \/ Faults(i)
  \/ \E r \in Requests : RemoveRequest(r)

Spec == Init /\ [][Next]_vars

----------------------------------------------------------------------------
(* No other request shares r's directories.  They are made from the name   *)
(* of the Resources (Azure) or of the Repository (AWS); the database keeps *)
(* only the second unique.                                                 *)
Alone(r) == \A s \in Requests : DirName[s] = DirName[r] => s = r

(* The terraformState of an instance of a request that shares no directory *)
(* lists that request's resources, and they exist: runs about other        *)
(* requests, or a second run about the same one, do not get in between.    *)
RecordedIsReal ==
  \A o \in Requests \X Kinds : Alone(o[1]) /\ recorded[o] # None =>
    recorded[o] = o[1] /\ o \in store.cloud

(* Nothing of a request that shares no directory is left at the cloud      *)
(* provider without a row that lists it, except by a run that has still to *)
(* record it or that failed.                                               *)
UnrecordedExplained ==
  \A o \in store.cloud : Alone(o[1]) =>
    \/ recorded[o] = o[1]
    \/ \E i \in ChildRuns : about[i] = o /\ stage[i] \in {"record", "failed"}

(* A run about another request has written into the directory of o, or has *)
(* failed and may have.                                                    *)
SharedWith(o) ==
  \E i \in ChildRuns :
    /\ stage[i] \in {"apply", "record", "success", "failed"}
    /\ about[i][1] # o[1]
    /\ DirOf(i) = Directory(o[1], o[2])

(* Runs about requests that share a name work in one directory.  Where the *)
(* files are overwritten, the last to apply takes it over; where Azure's   *)
(* databases and storage clash, the later ones fail.  If nothing else goes *)
(* wrong: rows that list another request's resources, or resources that    *)
(* have been destroyed, belong to a request whose directory was written    *)
(* into for another one.                                                   *)
LostOnlyByTakeover ==
  \A o \in Requests \X Kinds :
    recorded[o] # None /\ (recorded[o] # o[1] \/ o \notin store.cloud) => SharedWith(o)

(* Two runs wrote into directory d.                                        *)
WrittenByTwo(d) ==
  \E i, j \in ChildRuns :
    /\ i # j
    /\ stage[i] \in {"apply", "record", "success", "failed"} /\ DirOf(i) = d
    /\ stage[j] \in {"apply", "record", "success", "failed"} /\ DirOf(j) = d

(* Whoever shares a directory, the state in it lists whatever is left at   *)
(* the cloud provider.  A destroy can make use of that unless the files    *)
(* clash, and they do only in a directory of Azure's databases or storage  *)
(* that two runs, or a task and its retry, wrote into.                     *)
NothingOrphaned ==
  \A o \in store.cloud :
    LET d == Directory(o[1], o[2])
    IN  /\ store.state[d] = o[1]
        /\ Clashes(store, d) =>
             /\ count["faults"] > 0 \/ WrittenByTwo(d)
             /\ \E i \in ChildRuns : DirOf(i) = d /\ Stamped(about[i][1], about[i][2])
============================================================================
