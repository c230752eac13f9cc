----------------------------- MODULE Terraform -----------------------------
(***************************************************************************)
(* Terraform as the DAGs use it: each DAG writes its files into a          *)
(* directory of the Airflow host, then runs "terraform apply" there.  The  *)
(* backend is local, so the state of a directory is kept in it too.        *)
(*                                                                         *)
(* A store is a record: files[d] is the request whose settings (tfvars and *)
(* variables) are in directory d, mains[d] the main files there, state[d]  *)
(* the request whose resources the state file lists, cloud the             *)
(* <<request, kind>> pairs that exist at the cloud provider.  Terraform    *)
(* itself is not part of the repository.                                   *)
(***************************************************************************)
CONSTANTS
  Requests,
  DirName,   \* DirName[r]: the name under which r's directories are made
  Provider,  \* Provider[r]: the cloud of r's resources
  None

ASSUME NoneAssumption == None \notin Requests

Kinds == {"vm", "db", "st"}
TfKinds == Kinds \cup {"rg"}

Names == {DirName[r] : r \in Requests}
Dirs == Names \X TfKinds

(* Mutant of Directory: one directory for each kind.                       *)
DirectoryOfKind(r, k) == <<DirName[CHOOSE s \in Requests : TRUE], k>>

(* terraform/{name}/{kind}: by Resources.name in the Azure DAGs and by     *)
(* Repository.name in the AWS ones.                                        *)
Directory(r, k) == <<DirName[r], k>>

(* A main file is main.tf, or has the time of its writing in its name:     *)
(* further ones of that kind are alike here.                               *)
MainFiles == {"main", "stamped", "later"}

Stores == [files : [Dirs -> Requests \cup {None}],
           mains : [Dirs -> SUBSET MainFiles],
           state : [Dirs -> Requests \cup {None}],
           cloud : SUBSET (Requests \X TfKinds)]

EmptyStore == [files |-> [d \in Dirs |-> None],
               mains |-> [d \in Dirs |-> {}],
               state |-> [d \in Dirs |-> None],
               cloud |-> {}]

(* The DAGs of Azure's databases and storage never write a main file twice.*)
Stamped(r, k) == Provider[r] = "AZURE" /\ k \in {"db", "st"}

(* The name of the main file that is written next to mains.                *)
MainFile(mains, r, k) ==
  IF ~Stamped(r, k) THEN "main"
  ELSE IF "stamped" \in mains THEN "later" ELSE "stamped"

(* The DAG of Azure's databases leaves settings alone that are there.      *)
Keeps(s, r, k) ==
  /\ Provider[r] = "AZURE" /\ k = "db"
  /\ s # None /\ Provider[s] = "AZURE"

(* The settings are written before the main file, which a task that dies   *)
(* in between does not write.  Variables that are written after it count   *)
(* with it.                                                                *)
SettingsWritten(store, d, r) ==
  [store EXCEPT !.files[d] = IF Keeps(@, r, d[2]) THEN @ ELSE r]

Written(store, d, r) ==
  [SettingsWritten(store, d, r) EXCEPT !.mains[d] = @ \cup {MainFile(@, r, d[2])}]

(* What a write that fails, and has been repeated, may have left.          *)
PartlyWritten(store, d, r) ==
  {store, SettingsWritten(store, d, r), Written(store, d, r), Written(Written(store, d, r), d, r)}

(* Every main file names the providers, the resources and the outputs:     *)
(* Terraform refuses a directory in which two of them do.                  *)
Clashes(store, d) == \E f, g \in store.mains[d] : f # g

(* Apply makes the cloud match the settings: what the state lists and they *)
(* do not is destroyed, what they say is created.                          *)
Applied(store, d) ==
  [store EXCEPT !.state[d] = store.files[d],
                !.cloud = (@ \ {<<store.state[d], d[2]>>}) \cup {<<store.files[d], d[2]>>}]
============================================================================
