--------------------------- MODULE TeardownProofs ---------------------------
(* Proofs about Teardown: what destruction next to provisioning leaves at  *)
(* the cloud provider, what Terraform loses track of, and which rows stay. *)
EXTENDS Teardown, TLAPS

(* A run behind its destroy tasks.                                         *)
Behind == {"clean", "delete", "success"} \cup Deleting

(* What a run has and has not, by the task it stands at.                   *)
Controlled(x) ==
  /\ task[x] \in {"none", "triggered", "consume"} => subject[x] = None
  /\ task[x] \in {"none", "triggered", "consume", "name"} =>
       x \notin named /\ x \notin broken /\ todo[x] = {}
  /\ x \in named \/ task[x] \in Deleting => subject[x] \in Requests
  /\ todo[x] # {} \/ task[x] \in {"branch", "destroy", "group"} => x \in named
  /\ todo[x] # {} \/ task[x] \in {"destroy", "group"} => dag[x] = Provider[subject[x]]
  /\ task[x] \in {"branch", "destroy", "group"} => x \notin broken
  /\ todo[x] # {} /\ task[x] # "destroy" => x \in broken
  /\ task[x] = "clean" /\ x \in broken => dag[x] = "AZURE"
  /\ task[x] = "group" => dag[x] = "AZURE"
  /\ task[x] \in Behind /\ x \notin broken =>
       x \in named /\ dag[x] = Provider[subject[x]]
  /\ task[x] # "none" => dag[x] \in Clouds

(* The types of what the destroy runs keep.                                *)
RunTypes ==
  /\ rows \in [Requests -> SUBSET Rows]
  /\ asked \subseteq Requests
  /\ publishing \in [Asks -> Requests \cup {None}]
  /\ queue \in Seq(Requests)
  /\ task \in [Asks -> {"none", "triggered", "success", "failed"} \cup Tasks]
  /\ dag \in [Asks -> Clouds \cup {None}]
  /\ subject \in [Asks -> Requests \cup {None}]
  /\ retried \subseteq Asks /\ named \subseteq Asks /\ broken \subseteq Asks
  /\ todo \in [Asks -> SUBSET Kinds]
  /\ count \in [Events -> Nat]

Runs == RunTypes /\ \A x \in Asks : Controlled(x)

----------------------------------------------------------------------------
(* What a step does to the other runs: nothing.                            *)
Elsewhere(x) ==
  \A y \in Asks \ {x} :
    /\ task[y]' = task[y] /\ dag[y]' = dag[y] /\ subject[y]' = subject[y]
    /\ todo[y]' = todo[y] /\ (y \in named' <=> y \in named)
    /\ (y \in broken' <=> y \in broken)

LEMMA WorkTyped ==
  ASSUME Runs, NEW x \in Asks, Work(x) \/ Faults(x)
  PROVE  RunTypes'
<1> USE DEF RunTypes, Tasks, Deleting, Clouds
<1>0. Controlled(x) /\ RunTypes
  BY DEF Runs
<1>1. ASSUME Consume(x) PROVE RunTypes'
  <2>1. queue # <<>> => Head(queue) \in Requests /\ Tail(queue) \in Seq(Requests)
    BY <1>0
  <2> QED
    BY <1>0, <1>1, <2>1 DEF Consume, Goto
<1>2. ASSUME Name(x) PROVE RunTypes'
  BY <1>0, <1>2 DEF Name, Goto, Breaks, AfterFailure
<1>3. ASSUME Branch(x) PROVE RunTypes'
  <2>1. Counted(x) \in SUBSET Kinds
    BY <1>0, <1>3, DestroyWantedAssumption DEF Branch, Controlled, Counted
  <2> QED
    BY <1>0, <1>3, <2>1 DEF Branch, Goto, Breaks, AfterFailure
<1>4. ASSUME DestroyGroup(x) PROVE RunTypes'
  BY <1>0, <1>4 DEF DestroyGroup, Goto, Breaks, AfterFailure
<1>5. ASSUME Clean(x) PROVE RunTypes'
  BY <1>0, <1>5 DEF Clean, Goto, runs
<1>6. ASSUME DeleteStep(x) PROVE RunTypes'
  <2>1. rows' \in [Requests -> SUBSET Rows]
    BY <1>0, <1>6 DEF DeleteStep, SelectRequest, DeleteRequest, DeleteRepository,
                      DeleteResources, DeleteInstances, DeleteConfig, Loses
  <2>2. task' \in [Asks -> {"none", "triggered", "success", "failed"} \cup Tasks]
    BY <1>0, <1>6 DEF DeleteStep, SelectRequest, DeleteRequest, DeleteRepository,
                      DeleteResources, DeleteInstances, DeleteConfig, Goto
  <2>3. UNCHANGED <<asked, publishing, queue, runs, count>>
    BY <1>6 DEF DeleteStep, SelectRequest, DeleteRequest, DeleteRepository,
                DeleteResources, DeleteInstances, DeleteConfig
  <2> QED
    BY <1>0, <2>1, <2>2, <2>3 DEF runs
<1>7. ASSUME NEW k \in Kinds, Destroy(x, k) \/ DestroyFails(x, k) PROVE RunTypes'
  <2>1. PICK well \in BOOLEAN : DestroyEnds(x, k, well)
    BY <1>7 DEF Destroy, DestroyFails, Destroyable, Exists
  <2>2. AfterDestroy(x, k, well) \in {"none", "triggered", "success", "failed"} \cup Tasks
    BY <1>0 DEF AfterDestroy, AfterFailure
  <2>3. task' \in [Asks -> {"none", "triggered", "success", "failed"} \cup Tasks]
    BY <1>0, <2>1, <2>2 DEF DestroyEnds, Goto
  <2>4. todo' \in [Asks -> SUBSET Kinds]
    BY <1>0, <2>1 DEF DestroyEnds
  <2>5. count' \in [Events -> Nat]
    <3>1. UNCHANGED count \/ count' = [count EXCEPT !["faults"] = @ + 1]
      BY <1>7 DEF Destroy, DestroyFails, Count
    <3> QED
      BY <1>0, <3>1 DEF Events
  <2>6. UNCHANGED <<rows, asked, publishing, queue, dag, subject, retried, named>>
    BY <2>1 DEF DestroyEnds
  <2>7. broken' \subseteq Asks
    BY <1>0, <2>1 DEF DestroyEnds
  <2> QED
    BY <1>0, <2>3, <2>4, <2>5, <2>6, <2>7
<1>8. ASSUME LoseMessage(x) \/ LoseTrigger(x) PROVE RunTypes'
  BY <1>0, <1>8 DEF LoseMessage, LoseTrigger, Goto, Count, runs, Events
<1>9. ASSUME ConsumeDies(x) PROVE RunTypes'
  BY <1>0, <1>9 DEF ConsumeDies, Goto, Breaks, AfterFailure, Count, Events
<1>10. ASSUME TaskFails(x) PROVE RunTypes'
  BY <1>0, <1>10 DEF TaskFails, Goto, Breaks, AfterFailure, Count, Events
<1> QED
  BY <1>1, <1>2, <1>3, <1>4, <1>5, <1>6, <1>7, <1>8, <1>9, <1>10 DEF Work, Faults

(* A step of a run leaves the others where they are, ...                   *)
LEMMA WorkElsewhere ==
  ASSUME Runs, NEW x \in Asks, Work(x) \/ Faults(x)
  PROVE  Elsewhere(x)
<1> USE DEF RunTypes, Elsewhere
<1>0. RunTypes
  BY DEF Runs
<1>1. ASSUME Consume(x) PROVE Elsewhere(x)
  BY <1>0, <1>1 DEF Consume, Goto
<1>2. ASSUME Name(x) PROVE Elsewhere(x)
  BY <1>0, <1>2 DEF Name, Goto, Breaks
<1>3. ASSUME Branch(x) PROVE Elsewhere(x)
  BY <1>0, <1>3 DEF Branch, Goto, Breaks
<1>4. ASSUME DestroyGroup(x) PROVE Elsewhere(x)
  BY <1>0, <1>4 DEF DestroyGroup, Goto, Breaks
<1>5. ASSUME Clean(x) PROVE Elsewhere(x)
  BY <1>0, <1>5 DEF Clean, Goto, runs
<1>6. ASSUME DeleteStep(x) PROVE Elsewhere(x)
  BY <1>0, <1>6 DEF DeleteStep, SelectRequest, DeleteRequest, DeleteRepository,
                    DeleteResources, DeleteInstances, DeleteConfig, Goto, runs
<1>7. ASSUME NEW k \in Kinds, Destroy(x, k) \/ DestroyFails(x, k) PROVE Elsewhere(x)
  <2>1. PICK well \in BOOLEAN : DestroyEnds(x, k, well)
    BY <1>7 DEF Destroy, DestroyFails, Destroyable, Exists
  <2> QED
    BY <1>0, <2>1 DEF DestroyEnds, Goto
<1>8. ASSUME LoseMessage(x) \/ LoseTrigger(x) PROVE Elsewhere(x)
  BY <1>0, <1>8 DEF LoseMessage, LoseTrigger, Goto, runs
<1>9. ASSUME ConsumeDies(x) PROVE Elsewhere(x)
  BY <1>0, <1>9 DEF ConsumeDies, Goto, Breaks
<1>10. ASSUME TaskFails(x) PROVE Elsewhere(x)
  BY <1>0, <1>10 DEF TaskFails, Goto, Breaks
<1> QED
  BY <1>1, <1>2, <1>3, <1>4, <1>5, <1>6, <1>7, <1>8, <1>9, <1>10 DEF Work, Faults

(* ... and itself in order.                                                *)
LEMMA WorkControlled ==
  ASSUME Runs, NEW x \in Asks, Work(x) \/ Faults(x)
  PROVE  Controlled(x)'
<1> USE DEF RunTypes, Controlled
<1>0. Controlled(x) /\ RunTypes
  BY DEF Runs
<1>1. ASSUME Consume(x) PROVE Controlled(x)'
  BY <1>0, <1>1 DEF Consume, Goto, Deleting, Behind
<1>2. ASSUME Name(x) PROVE Controlled(x)'
  BY <1>0, <1>2 DEF Name, Goto, Breaks, AfterFailure, Deleting, Behind
<1>3. ASSUME Branch(x) PROVE Controlled(x)'
  BY <1>0, <1>3 DEF Branch, Goto, Breaks, AfterFailure, Deleting, Behind, Counted
<1>4. ASSUME DestroyGroup(x) PROVE Controlled(x)'
  BY <1>0, <1>4 DEF DestroyGroup, Goto, Breaks, AfterFailure, Deleting, Behind
<1>5. ASSUME Clean(x) PROVE Controlled(x)'
  BY <1>0, <1>5 DEF Clean, Goto, runs, Deleting, Behind
<1>6. ASSUME DeleteStep(x) PROVE Controlled(x)'
  <2>1. UNCHANGED runs
    BY <1>6 DEF DeleteStep, SelectRequest, DeleteRequest, DeleteRepository,
                DeleteResources, DeleteInstances, DeleteConfig
  <2>2. /\ task[x] \in {"delete"} \cup Deleting
        /\ task'[x] \in {"failed", "success"} \cup Deleting
        /\ task'[x] \in Deleting => subject[x] \in Requests
    BY <1>0, <1>6 DEF DeleteStep, SelectRequest, DeleteRequest, DeleteRepository,
                DeleteResources, DeleteInstances, DeleteConfig, Goto, Deleting
  <2> QED
    BY <1>0, <2>1, <2>2 DEF runs, Deleting, Behind
<1>7. ASSUME NEW k \in Kinds, Destroy(x, k) \/ DestroyFails(x, k) PROVE Controlled(x)'
  <2>1. PICK well \in BOOLEAN : DestroyEnds(x, k, well)
    BY <1>7 DEF Destroy, DestroyFails, Destroyable, Exists
  <2> QED
    BY <1>0, <2>1 DEF DestroyEnds, Goto, AfterDestroy, AfterFailure, Deleting, Behind, Clouds
<1>8. ASSUME LoseMessage(x) \/ LoseTrigger(x) PROVE Controlled(x)'
  BY <1>0, <1>8 DEF LoseMessage, LoseTrigger, Goto, runs, Deleting, Behind
<1>9. ASSUME ConsumeDies(x) PROVE Controlled(x)'
  BY <1>0, <1>9 DEF ConsumeDies, Goto, Breaks, AfterFailure, Deleting, Behind
<1>10. ASSUME TaskFails(x) PROVE Controlled(x)'
  BY <1>0, <1>10 DEF TaskFails, Goto, Breaks, AfterFailure, Deleting, Behind
<1> QED
  BY <1>1, <1>2, <1>3, <1>4, <1>5, <1>6, <1>7, <1>8, <1>9, <1>10 DEF Work, Faults

(* Asking, publishing, starting a run, and removing a request leave the    *)
(* runs in order too.                                                      *)
LEMMA AskRuns ==
  ASSUME Runs, NEW x \in Asks, NEW r \in Requests, Ask(x, r)
  PROVE  Runs' /\ Elsewhere(x)
<1>0. RunTypes /\ Controlled(x) /\ task[x] = "none"
  BY DEF Runs, Ask
<1>1. RunTypes'
  BY <1>0, DestroyProviderAssumption DEF Ask, Goto, RunTypes
<1>2. Elsewhere(x)
  BY <1>0 DEF Ask, Goto, RunTypes, Elsewhere
<1>3. Controlled(x)'
  BY <1>0, DestroyProviderAssumption DEF Ask, Goto, RunTypes, Controlled, Deleting, Behind
<1>4. ASSUME NEW y \in Asks, y # x PROVE Controlled(y)'
  BY <1>2, <1>4 DEF Runs, Elsewhere, Controlled
<1> QED
  BY <1>1, <1>2, <1>3, <1>4 DEF Runs

LEMMA RunsInductive ==
  ASSUME Runs, [TeardownNext]_allVars
  PROVE  Runs'
<1>0. RunTypes
  BY DEF Runs
<1>1. ASSUME UNCHANGED <<task, runs>> PROVE \A y \in Asks : Controlled(y)'
  BY <1>1 DEF Runs, Controlled, runs
<1>2. ASSUME NEW x \in Asks, NEW r \in Requests, Ask(x, r) PROVE Runs'
  BY <1>2, AskRuns
<1>3. ASSUME NEW x \in Asks, Publish(x) PROVE Runs'
  <2>1. RunTypes'
    <3>1. Append(queue, publishing[x]) \in Seq(Requests)
      BY <1>0, <1>3 DEF Publish, RunTypes
    <3> QED
      BY <1>0, <1>3, <3>1 DEF Publish, RunTypes, runs
  <2> QED
    BY <1>1, <1>3, <2>1 DEF Publish, Runs
<1>4. ASSUME NEW x \in Asks, StartRun(x) PROVE Runs'
  <2>1. RunTypes'
    BY <1>0, <1>4 DEF StartRun, Goto, RunTypes, Tasks, runs
  <2>2. ASSUME NEW y \in Asks PROVE Controlled(y)'
    <3>1. Controlled(y)
      BY DEF Runs
    <3> QED
      BY <1>0, <1>4, <3>1 DEF StartRun, Goto, RunTypes, Controlled, Deleting, Behind, runs
  <2> QED
    BY <2>1, <2>2 DEF Runs
<1>5. ASSUME NEW x \in Asks, Work(x) \/ Faults(x) PROVE Runs'
  <2>1. Elsewhere(x) /\ Controlled(x)' /\ RunTypes'
    BY <1>5, WorkElsewhere, WorkControlled, WorkTyped
  <2>2. ASSUME NEW y \in Asks, y # x PROVE Controlled(y)'
    BY <2>1, <2>2 DEF Runs, Elsewhere, Controlled
  <2> QED
    BY <2>1, <2>2 DEF Runs
<1>6. ASSUME NEW r \in Requests, RemoveRequest(r) PROVE Runs'
  <2>1. RunTypes'
    BY <1>0, <1>6 DEF RemoveRequest, Loses, Count, RunTypes, runs, Events
  <2> QED
    BY <1>1, <1>6, <2>1 DEF RemoveRequest, Runs
<1>7. ASSUME NEW i \in ChildRuns, Provision(i),
             UNCHANGED <<rows, asked, publishing, queue, task, runs>>
      PROVE  Runs'
  <2>1. count' \in [Events -> Nat]
    <3>1. UNCHANGED count \/ C!Count("faults", MaxFaults)
      BY <1>7 DEF Provision, Start, C!Start, C!RunStep, C!Fetch, C!WriteFiles, C!Apply, C!Record,
                  C!Faults, C!WriteFilesTwice, C!TaskFails, ProvisionFails
    <3> QED
      BY <1>0, <3>1 DEF C!Count, RunTypes, Events
  <2> QED
    BY <1>0, <1>1, <1>7, <2>1 DEF Runs, RunTypes, runs
<1>8. CASE UNCHANGED allVars
  BY <1>0, <1>1, <1>8 DEF Runs, RunTypes, allVars, vars, runs
<1> QED
  BY <1>2, <1>3, <1>4, <1>5, <1>6, <1>7, <1>8 DEF TeardownNext, Next

----------------------------------------------------------------------------
(* What is known of the provisioning runs.                                 *)
Children ==
  /\ stage \in [ChildRuns -> {"none", "success", "failed"} \cup C!Stages]
  /\ about \in [ChildRuns -> (Requests \X Kinds) \cup {C!NoSubject}]
  /\ \A i \in ChildRuns : stage[i] = "none" => about[i] = C!NoSubject
  /\ \A i \in ChildRuns : stage[i] \in C!Stages => about[i] \in Requests \X Kinds

(* Nothing a provisioning run is about is forgotten.                       *)
Remembers == \A i \in ChildRuns : about[i] # C!NoSubject => about[i]' = about[i]

LEMMA ChildrenInductive ==
  ASSUME Children, [TeardownNext]_allVars
  PROVE  Children' /\ Remembers
<1>1. CASE UNCHANGED childVars
  BY <1>1 DEF Children, Remembers, childVars
<1>2. ASSUME NEW i \in ChildRuns, Provision(i) PROVE Children' /\ Remembers
  <2>1. ASSUME NEW r \in Requests, NEW k \in Kinds, Start(i, r, k)
        PROVE  Children' /\ Remembers
    BY <2>1 DEF Start, C!Start, C!Goto, C!Stages, Children, Remembers
  <2>2. ASSUME stage[i] \in C!Stages, about' = about,
               \E s \in {"success", "failed"} \cup C!Stages : stage' = [stage EXCEPT ![i] = s]
        PROVE  Children' /\ Remembers
    BY <2>2 DEF C!Stages, Children, Remembers
  <2>3. ASSUME C!RunStep(i) PROVE Children' /\ Remembers
    <3>1. stage[i] \in C!Stages /\ about' = about
      BY <2>3 DEF C!RunStep, C!Fetch, C!WriteFiles, C!Apply, C!Record, C!Stages
    <3>2. \E s \in {"success", "failed"} \cup C!Stages : stage' = [stage EXCEPT ![i] = s]
      <4>1. CASE C!Fetch(i)
        BY <4>1 DEF C!Fetch, C!Goto, C!Stages
      <4>2. CASE C!WriteFiles(i)
        BY <4>2 DEF C!WriteFiles, C!Goto, C!Stages
      <4>3. CASE C!Apply(i)
        BY <4>3 DEF C!Apply, C!Goto, C!Stages
      <4>4. CASE C!Record(i)
        BY <4>4 DEF C!Record, C!Goto, C!Stages
      <4> QED
        BY <2>3, <4>1, <4>2, <4>3, <4>4 DEF C!RunStep
    <3> QED
      BY <2>2, <3>1, <3>2
  <2>4. ASSUME C!Faults(i) PROVE Children' /\ Remembers
    BY <2>2, <2>4 DEF C!Faults, C!WriteFilesTwice, C!TaskFails, C!Goto, C!Stages
  <2>5. ASSUME ProvisionFails(i) PROVE Children' /\ Remembers
    BY <2>2, <2>5 DEF ProvisionFails, FindsNothing, C!Stages
  <2> QED
    BY <1>2, <2>1, <2>3, <2>4, <2>5 DEF Provision
<1> QED
  BY <1>1, <1>2 DEF TeardownNext, allVars

----------------------------------------------------------------------------
(* The ways in which a step changes directories, states and the cloud.     *)
Destroys(x, k) ==
  /\ x \in named
  /\ dag[x] = Provider[subject[x]]
  /\ Exists(DestroyDir(x, k))
  /\ store' = Destroyed(DestroyDir(x, k))

Cleans(x) ==
  /\ task[x] = "clean"
  /\ store' = Cleaned(x)

(* u is s after writes for r into directory d: there is no main file       *)
(* without settings.                                                       *)
WritesInto(s, u, d, r) ==
  /\ u \in TeardownStores
  /\ \A e \in Dirs : e # d => u.files[e] = s.files[e] /\ u.mains[e] = s.mains[e]
  /\ u.files[d] \in {s.files[d], r}
  /\ u.mains[d] = s.mains[d] \/ u.files[d] # None
  /\ u.state = s.state /\ u.cloud = s.cloud

Writes(i) ==
  /\ about[i] \in Requests \X Kinds
  /\ WritesInto(store, store', Directory(about[i][1], about[i][2]), about[i][1])

Applies(i) ==
  /\ about[i] \in Requests \X Kinds
  /\ Exists(Directory(about[i][1], about[i][2]))
  /\ store' = Applied(store, Directory(about[i][1], about[i][2]))

StoreKept ==
  \/ store' = store
  \/ \E x \in Asks, k \in TfKinds : Destroys(x, k)
  \/ \E x \in Asks : Cleans(x)
  \/ \E i \in ChildRuns : Writes(i) \/ Applies(i)

LEMMA SettingsWrittenInto ==
  ASSUME NEW s \in TeardownStores, NEW d \in Dirs, NEW r \in Requests
  PROVE  /\ WritesInto(s, C!SettingsWritten(s, d, r), d, r)
         /\ C!SettingsWritten(s, d, r).files[d] \in Requests
<1> DEFINE x == IF C!Keeps(s.files[d], r, d[2]) THEN s.files[d] ELSE r
<1>1. x \in Requests /\ x \in {s.files[d], r}
  BY DEF TeardownStores, C!Keeps
<1>2. C!SettingsWritten(s, d, r) = [s EXCEPT !.files = [s.files EXCEPT ![d] = x]]
  BY DEF C!SettingsWritten, TeardownStores
<1> HIDE DEF x
<1> QED
  BY <1>1, <1>2, NoneAssumption DEF TeardownStores, WritesInto

LEMMA WrittenInto ==
  ASSUME NEW s \in TeardownStores, NEW d \in Dirs, NEW r \in Requests
  PROVE  WritesInto(s, C!Written(s, d, r), d, r)
<1> DEFINE u == C!SettingsWritten(s, d, r)
           f == C!MainFile(u.mains[d], r, d[2])
<1>1. WritesInto(s, u, d, r) /\ u.files[d] \in Requests
  BY SettingsWrittenInto
<1>2. f \in MainFiles
  BY DEF C!MainFile, MainFiles
<1>3. C!Written(s, d, r) = [u EXCEPT !.mains = [u.mains EXCEPT ![d] = u.mains[d] \cup {f}]]
  BY <1>1 DEF C!Written, WritesInto, TeardownStores
<1> HIDE DEF u, f
<1> QED
  BY <1>1, <1>2, <1>3, NoneAssumption DEF TeardownStores, WritesInto

(* A run's write, complete or not, repeated or not.                        *)
LEMMA RunWrites ==
  ASSUME store \in TeardownStores, NEW i \in ChildRuns, about[i] \in Requests \X Kinds,
         \/ C!WriteFiles(i) \/ C!WriteFilesTwice(i)
         \/ store' \in C!PartlyWritten(store, C!DirOf(i), about[i][1])
  PROVE  Writes(i)
<1> DEFINE d == Directory(about[i][1], about[i][2])
           r == about[i][1]
           v == C!Written(store, d, r)
<1>1. d \in Dirs /\ r \in Requests /\ C!DirOf(i) = d
  BY DEF C!DirOf, C!Directory, Directory, Dirs, Names, TfKinds
<1>2. WritesInto(store, v, d, r) /\ WritesInto(store, C!SettingsWritten(store, d, r), d, r)
  BY <1>1, SettingsWrittenInto, WrittenInto
<1>3. WritesInto(v, C!Written(v, d, r), d, r)
  BY <1>1, <1>2, WrittenInto DEF WritesInto
<1>4. store' \in {store, C!SettingsWritten(store, d, r), v, C!Written(v, d, r)}
  BY <1>1 DEF C!WriteFiles, C!WriteFilesTwice, C!PartlyWritten
<1>5. WritesInto(store, store, d, r)
  BY DEF WritesInto
<1> HIDE DEF d, r, v
<1>6. WritesInto(store, C!Written(v, d, r), d, r)
  BY <1>1, <1>2, <1>3, NoneAssumption DEF WritesInto
<1>7. WritesInto(store, store', d, r)
  BY <1>2, <1>4, <1>5, <1>6
<1> QED
  BY <1>7 DEF Writes, d, r

(* Where there is a main file, there are settings.                         *)
HasSettings == \A d \in Dirs : store.mains[d] # {} => store.files[d] # None

LEMMA StoreStep ==
  ASSUME Runs, Children, store \in TeardownStores, HasSettings, [TeardownNext]_allVars
  PROVE  StoreKept
<1>1. CASE UNCHANGED store
  BY <1>1 DEF StoreKept
<1>2. ASSUME NEW x \in Asks, NEW k \in Kinds, Destroy(x, k) \/ DestroyFails(x, k)
      PROVE  StoreKept
  <2>1. x \in named /\ dag[x] = Provider[subject[x]]
    BY <1>2 DEF Destroy, DestroyFails, DestroyEnds, Runs, Controlled
  <2>2. \/ store' = store
        \/ Exists(DestroyDir(x, k)) /\ store' = Destroyed(DestroyDir(x, k))
    BY <1>2 DEF Destroy, DestroyFails, Destroyable
  <2> QED
    BY <2>1, <2>2 DEF StoreKept, Destroys, TfKinds
<1>3. ASSUME NEW x \in Asks, task[x] = "group",
             Exists(DestroyDir(x, "rg")), store' = Destroyed(DestroyDir(x, "rg"))
      PROVE  StoreKept
  BY <1>3 DEF StoreKept, Destroys, TfKinds, Runs, Controlled
<1>4. ASSUME NEW x \in Asks, DestroyGroup(x) PROVE StoreKept
  BY <1>1, <1>3, <1>4 DEF DestroyGroup, Destroyable
<1>5. ASSUME NEW x \in Asks, Clean(x) PROVE StoreKept
  BY <1>5 DEF Clean, Cleans, StoreKept
<1>6. ASSUME NEW x \in Asks, TaskFails(x) PROVE StoreKept
  BY <1>1, <1>3, <1>6 DEF TaskFails, Destroyable, Cleans, StoreKept
<1>7. ASSUME NEW x \in Asks, Work(x) \/ Faults(x) PROVE StoreKept
  <2>1. ASSUME Consume(x) \/ Name(x) \/ Branch(x) \/ LoseMessage(x) \/ LoseTrigger(x)
               \/ ConsumeDies(x)
        PROVE  UNCHANGED store
    BY <2>1 DEF Consume, Name, Branch, LoseMessage, LoseTrigger, ConsumeDies
  <2>2. ASSUME DeleteStep(x) PROVE UNCHANGED store
    BY <2>2 DEF DeleteStep, SelectRequest, DeleteRequest, DeleteRepository,
                DeleteResources, DeleteInstances, DeleteConfig
  <2> QED
    BY <1>1, <1>2, <1>4, <1>5, <1>6, <1>7, <2>1, <2>2 DEF Work, Faults
<1>8. ASSUME NEW i \in ChildRuns, Provision(i) PROVE StoreKept
  <2>1. ASSUME NEW r \in Requests, NEW k \in Kinds, Start(i, r, k) PROVE UNCHANGED store
    BY <2>1 DEF Start, C!Start
  <2>2. ASSUME stage[i] \in C!Stages
        PROVE  /\ about[i] \in Requests \X Kinds
               /\ C!DirOf(i) = Directory(about[i][1], about[i][2]) /\ C!DirOf(i) \in Dirs
    BY <2>2 DEF Children, C!DirOf, C!Directory, Directory, Dirs, Names, TfKinds
  <2>3. ASSUME ~FindsNothing(i), stage[i] = "apply", store' = C!Applied(store, C!DirOf(i))
        PROVE  StoreKept
    <3>1. about[i] \in Requests \X Kinds /\ Exists(Directory(about[i][1], about[i][2]))
      BY <2>2, <2>3 DEF FindsNothing, HasSettings, Exists, C!Stages
    <3>2. store' = Applied(store, Directory(about[i][1], about[i][2]))
      BY <2>2, <2>3 DEF C!Applied, Applied, C!Stages
    <3> QED
      BY <3>1, <3>2 DEF Applies, StoreKept
  <2>4. ASSUME ~FindsNothing(i), C!RunStep(i) PROVE StoreKept
    <3>1. CASE C!Fetch(i) \/ C!Record(i)
      BY <1>1, <3>1 DEF C!Fetch, C!Record
    <3>2. CASE C!WriteFiles(i)
      BY <2>2, <3>2, RunWrites DEF C!WriteFiles, C!Stages, StoreKept
    <3>3. CASE C!Apply(i)
      BY <1>1, <2>3, <2>4, <3>3 DEF C!Apply
    <3> QED
      BY <2>4, <3>1, <3>2, <3>3 DEF C!RunStep
  <2>5. ASSUME ~FindsNothing(i), C!Faults(i) PROVE StoreKept
    <3>1. CASE C!WriteFilesTwice(i)
      BY <2>2, <3>1, RunWrites DEF C!WriteFilesTwice, C!Stages, StoreKept
    <3>2. CASE stage[i] = "write" /\ store' \in C!PartlyWritten(store, C!DirOf(i), about[i][1])
      BY <2>2, <3>2, RunWrites DEF C!Stages, StoreKept
    <3> QED
      BY <1>1, <2>3, <2>5, <3>1, <3>2 DEF C!Faults, C!TaskFails
  <2>6. ASSUME ProvisionFails(i) PROVE UNCHANGED store
    BY <2>6 DEF ProvisionFails
  <2> QED
    BY <1>1, <1>8, <2>1, <2>4, <2>5, <2>6 DEF Provision
<1>9. ASSUME NEW x \in Asks, Publish(x) \/ StartRun(x) PROVE UNCHANGED store
  BY <1>9 DEF Publish, StartRun
<1>10. ASSUME NEW x \in Asks, NEW r \in Requests, Ask(x, r) PROVE UNCHANGED store
  BY <1>10 DEF Ask
<1>11. ASSUME NEW r \in Requests, RemoveRequest(r) PROVE UNCHANGED store
  BY <1>11 DEF RemoveRequest
<1>12. CASE UNCHANGED allVars
  BY <1>1, <1>12 DEF allVars, vars
<1> QED
  BY <1>1, <1>7, <1>8, <1>9, <1>10, <1>11, <1>12 DEF TeardownNext, Next

----------------------------------------------------------------------------
(* What a run has got it keeps, and a run that has failed stays so.        *)
Lasting(x) ==
  /\ task[x] # "none" => dag[x]' = dag[x]
  /\ task[x] \notin {"none", "triggered", "consume"} => subject[x]' = subject[x]
  /\ x \in named => x \in named'
  /\ x \in broken => x \in broken'
  /\ task[x] = "failed" => task[x]' = "failed"

LEMMA RunsLast ==
  ASSUME Runs, [TeardownNext]_allVars
  PROVE  \A y \in Asks : Lasting(y)
<1>0. RunTypes
  BY DEF Runs
<1>1. ASSUME UNCHANGED <<dag, subject, named, broken>>,
             \A y \in Asks : task[y] = "failed" => task[y]' = "failed"
      PROVE  \A y \in Asks : Lasting(y)
  BY <1>1 DEF Lasting
<1>2. ASSUME NEW x \in Asks, NEW r \in Requests, Ask(x, r) PROVE \A y \in Asks : Lasting(y)
  BY <1>0, <1>2 DEF Ask, Goto, RunTypes, Lasting
<1>3. ASSUME NEW x \in Asks, Publish(x) \/ StartRun(x) PROVE \A y \in Asks : Lasting(y)
  BY <1>0, <1>1, <1>3 DEF Publish, StartRun, Goto, runs, RunTypes
<1>4. ASSUME NEW x \in Asks, Work(x) \/ Faults(x) PROVE \A y \in Asks : Lasting(y)
  <2> SUFFICES Lasting(x)
    BY <1>4, WorkElsewhere DEF Elsewhere, Lasting
  <2> USE <1>0 DEF RunTypes, Lasting
  <2>1. ASSUME Consume(x) PROVE Lasting(x)
    BY <2>1 DEF Consume, Goto
  <2>2. ASSUME Name(x) \/ Branch(x) PROVE Lasting(x)
    BY <2>2 DEF Name, Branch, Goto, Breaks
  <2>3. ASSUME DestroyGroup(x) \/ Clean(x) PROVE Lasting(x)
    BY <2>3 DEF DestroyGroup, Clean, Goto, Breaks, runs
  <2>4. ASSUME DeleteStep(x) PROVE Lasting(x)
    BY <2>4 DEF DeleteStep, SelectRequest, DeleteRequest, DeleteRepository,
                DeleteResources, DeleteInstances, DeleteConfig, Goto, runs
  <2>5. ASSUME NEW k \in Kinds, Destroy(x, k) \/ DestroyFails(x, k) PROVE Lasting(x)
    <3>1. PICK well \in BOOLEAN : DestroyEnds(x, k, well)
      BY <2>5 DEF Destroy, DestroyFails, Destroyable, Exists
    <3> QED
      BY <3>1 DEF DestroyEnds, AfterDestroy, Goto
  <2>6. ASSUME LoseMessage(x) \/ LoseTrigger(x) PROVE Lasting(x)
    BY <2>6 DEF LoseMessage, LoseTrigger, Goto, runs
  <2>7. ASSUME ConsumeDies(x) PROVE Lasting(x)
    BY <2>7 DEF ConsumeDies, Goto, Breaks
  <2>8. ASSUME TaskFails(x) PROVE Lasting(x)
    BY <2>8 DEF TaskFails, Goto, Breaks, Deleting
  <2> QED
    BY <1>4, <2>1, <2>2, <2>3, <2>4, <2>5, <2>6, <2>7, <2>8 DEF Work, Faults
<1>5. ASSUME NEW r \in Requests, RemoveRequest(r) PROVE \A y \in Asks : Lasting(y)
  BY <1>1, <1>5 DEF RemoveRequest, runs
<1>6. ASSUME UNCHANGED <<task, runs>> PROVE \A y \in Asks : Lasting(y)
  BY <1>1, <1>6 DEF runs
<1> QED
  BY <1>2, <1>3, <1>4, <1>5, <1>6 DEF TeardownNext, Next, allVars, vars

----------------------------------------------------------------------------
(* The four ways of changing the store, field by field.                    *)
LEMMA DestroyedFields ==
  ASSUME store \in TeardownStores, NEW d \in Dirs, store' = Destroyed(d)
  PROVE  /\ store'.files = store.files /\ store'.mains = store.mains
         /\ store'.state = [store.state EXCEPT ![d] = Empty]
         /\ store'.cloud = store.cloud \ {<<store.state[d], d[2]>>}
         /\ store' \in TeardownStores
  BY DEF Destroyed, TeardownStores

LEMMA CleanedFields ==
  ASSUME store \in TeardownStores, NEW x \in Asks, store' = Cleaned(x)
  PROVE  /\ store'.cloud = store.cloud
         /\ store' \in TeardownStores
         /\ \A d \in Dirs :
              \/ /\ store'.files[d] = store.files[d] /\ store'.mains[d] = store.mains[d]
                 /\ store'.state[d] = store.state[d]
              \/ /\ Bare(d)'
                 /\ x \in named /\ d[1] = DestroyName[subject[x]][dag[x]]
         /\ \A d \in Dirs, k \in TfKinds : x \in named /\ d = DestroyDir(x, k) => Bare(d)'
<1> DEFINE tree == IF x \in named THEN {DestroyDir(x, k) : k \in TfKinds} ELSE {}
<1>1. /\ store'.cloud = store.cloud
      /\ store'.files = [d \in Dirs |-> IF d \in tree THEN None ELSE store.files[d]]
      /\ store'.mains = [d \in Dirs |-> IF d \in tree THEN {} ELSE store.mains[d]]
      /\ store'.state = [d \in Dirs |-> IF d \in tree THEN None ELSE store.state[d]]
      /\ store' = [files |-> store'.files, mains |-> store'.mains,
                   state |-> store'.state, cloud |-> store'.cloud]
  BY DEF Cleaned, TeardownStores
<1>2. ASSUME NEW d \in Dirs, d \in tree
      PROVE  x \in named /\ d[1] = DestroyName[subject[x]][dag[x]]
  BY <1>2 DEF DestroyDir
<1>3. x \in named => \A k \in TfKinds : DestroyDir(x, k) \in tree
  OBVIOUS
<1> HIDE DEF tree
<1>4. store' \in TeardownStores
  BY <1>1 DEF TeardownStores
<1>5. ASSUME NEW d \in Dirs, d \in tree PROVE Bare(d)'
  <2>1. store'.files[d] = None /\ store'.mains[d] = {} /\ store'.state[d] = None
    BY <1>1, <1>5
  <2> QED
    BY <2>1 DEF Bare
<1>6. ASSUME NEW d \in Dirs, d \notin tree
      PROVE  /\ store'.files[d] = store.files[d] /\ store'.mains[d] = store.mains[d]
             /\ store'.state[d] = store.state[d]
  BY <1>1, <1>6
<1>7. ASSUME NEW d \in Dirs
      PROVE  \/ /\ store'.files[d] = store.files[d] /\ store'.mains[d] = store.mains[d]
                /\ store'.state[d] = store.state[d]
             \/ Bare(d)' /\ x \in named /\ d[1] = DestroyName[subject[x]][dag[x]]
  BY <1>2, <1>5, <1>6
<1> QED
  BY <1>1, <1>3, <1>4, <1>5, <1>7

LEMMA AppliedFields ==
  ASSUME store \in TeardownStores, NEW d \in Dirs, Exists(d), store' = Applied(store, d)
  PROVE  /\ store'.files = store.files /\ store'.mains = store.mains
         /\ store'.state = [store.state EXCEPT ![d] = store.files[d]]
         /\ store'.cloud = (store.cloud \ {<<store.state[d], d[2]>>})
                            \cup {<<store.files[d], d[2]>>}
         /\ store.files[d] \in Requests
         /\ store' \in TeardownStores
<1>1. store.files[d] \in Requests /\ d[2] \in TfKinds
  BY DEF Exists, TeardownStores, Dirs
<1>2. /\ store'.files = store.files /\ store'.mains = store.mains
      /\ store'.state = [store.state EXCEPT ![d] = store.files[d]]
      /\ store'.cloud = (store.cloud \ {<<store.state[d], d[2]>>})
                         \cup {<<store.files[d], d[2]>>}
      /\ store' = [files |-> store'.files, mains |-> store'.mains,
                   state |-> store'.state, cloud |-> store'.cloud]
  BY DEF Applied, TeardownStores
<1>3. store'.cloud \in SUBSET (Requests \X TfKinds)
  BY <1>1, <1>2 DEF TeardownStores
<1>4. store'.state \in [Dirs -> Requests \cup {None, Empty}]
  BY <1>1, <1>2 DEF TeardownStores
<1> QED
  BY <1>1, <1>2, <1>3, <1>4 DEF TeardownStores

----------------------------------------------------------------------------
(* Files and state of a directory are of a request whose directory it is.  *)
Owned ==
  \A d \in Dirs, r \in Requests :
    store.files[d] = r \/ store.state[d] = r => d[1] = DirName[r]

(* What exists was there from the start or has been provisioned since.     *)
Origins ==
  \A o \in store.cloud : Undisturbed(o[1]) => o \in Provisioned \/ Reprovisioned(o)

(* Terraform's state has it, or a broken run has removed its directory.    *)
Tracked ==
  \A o \in store.cloud : Undisturbed(o[1]) =>
    \/ store.state[Directory(o[1], o[2])] = o[1]
    \/ Reprovisioned(o)
    \/ /\ store.files[Directory(o[1], o[2])] = None
       /\ \E x \in broken : subject[x] = o[1] /\ dag[x] = "AZURE"

(* A run of the request's cloud without a failed task, from its destroy    *)
(* tasks on, has destroyed what is no longer among its tasks.              *)
Gone(x) ==
  task[x] \in {"destroy", "group"} \cup Behind /\ x \notin broken =>
    \A o \in store.cloud : o[1] = subject[x] /\ Undisturbed(o[1]) =>
      \/ Reprovisioned(o)
      \/ o[2] \in todo[x]
      \/ o[2] = "rg" /\ task[x] \in {"destroy", "group"}

(* Such a run has found the directories it was to destroy in, ...          *)
Found(x) ==
  task[x] \in {"group"} \cup Behind /\ x \notin broken /\ Undisturbed(subject[x]) =>
    DestroyName[subject[x]][dag[x]] = DirName[subject[x]]

(* ... and behind its cleanup has removed them.                            *)
Swept(x) ==
  task[x] \in Behind \ {"clean"} /\ x \notin broken /\ Undisturbed(subject[x]) =>
    \A k \in TfKinds : Reprovisioned(<<subject[x], k>>) \/ Bare(Directory(subject[x], k))

Store == store \in TeardownStores /\ HasSettings /\ Owned /\ Origins /\ Tracked

Thorough(x) == Gone(x) /\ Found(x) /\ Swept(x)

Invariant == Runs /\ Children /\ Store /\ \A x \in Asks : Thorough(x)

LEMMA DirectoryIsDir ==
  ASSUME NEW r \in Requests, NEW k \in TfKinds
  PROVE  /\ Directory(r, k) \in Dirs
         /\ Directory(r, k)[1] = DirName[r]
         /\ Directory(r, k)[2] = k
  BY DEF Directory, Dirs, Names

LEMMA OwnDirectory ==
  ASSUME NEW d \in Dirs, NEW r \in Requests, d[1] = DirName[r]
  PROVE  Directory(r, d[2]) = d /\ d[2] \in TfKinds
  BY DEF Directory, Dirs

(* The store keeps its type, its owners and its settings.                  *)
LEMMA OwnersLast ==
  ASSUME Runs, store \in TeardownStores, HasSettings, Owned, StoreKept
  PROVE  store' \in TeardownStores /\ HasSettings' /\ Owned'
<1>1. ASSUME NEW x \in Asks, NEW k \in TfKinds, Destroys(x, k)
      PROVE  store' \in TeardownStores /\ HasSettings' /\ Owned'
  <2> DEFINE d == DestroyDir(x, k)
  <2>1. d \in Dirs /\ store' = Destroyed(d)
    BY <1>1 DEF Destroys, Exists
  <2>2. /\ store'.files = store.files /\ store'.mains = store.mains
        /\ store'.state = [store.state EXCEPT ![d] = Empty]
        /\ store' \in TeardownStores
    BY <2>1, DestroyedFields
  <2> QED
    BY <2>1, <2>2, EmptyAssumption DEF HasSettings, Owned, Empty, TeardownStores
<1>2. ASSUME NEW x \in Asks, Cleans(x) PROVE store' \in TeardownStores /\ HasSettings' /\ Owned'
  <2>1. /\ store' \in TeardownStores
        /\ \A d \in Dirs :
              \/ /\ store'.files[d] = store.files[d] /\ store'.mains[d] = store.mains[d]
                 /\ store'.state[d] = store.state[d]
              \/ store'.files[d] = None /\ store'.mains[d] = {} /\ store'.state[d] = None
    BY <1>2, CleanedFields DEF Cleans, Bare
  <2> QED
    BY <2>1, NoneAssumption DEF HasSettings, Owned
<1>3. ASSUME NEW i \in ChildRuns, Writes(i)
      PROVE  store' \in TeardownStores /\ HasSettings' /\ Owned'
  <2> DEFINE r == about[i][1]
             d == Directory(about[i][1], about[i][2])
  <2>1. r \in Requests /\ d \in Dirs /\ d[1] = DirName[r] /\ WritesInto(store, store', d, r)
    BY <1>3, DirectoryIsDir DEF Writes, TfKinds
  <2> HIDE DEF r, d
  <2>2. HasSettings'
    BY <2>1, NoneAssumption DEF HasSettings, WritesInto
  <2>3. Owned'
    BY <2>1 DEF Owned, WritesInto
  <2> QED
    BY <2>1, <2>2, <2>3 DEF WritesInto
<1>4. ASSUME NEW i \in ChildRuns, Applies(i)
      PROVE  store' \in TeardownStores /\ HasSettings' /\ Owned'
  <2> DEFINE d == Directory(about[i][1], about[i][2])
  <2>1. d \in Dirs /\ Exists(d) /\ store' = Applied(store, d)
    BY <1>4, DirectoryIsDir DEF Applies, TfKinds
  <2> HIDE DEF d
  <2>2. /\ store'.files = store.files /\ store'.mains = store.mains
        /\ store'.state = [store.state EXCEPT ![d] = store.files[d]]
        /\ store' \in TeardownStores
    BY <2>1, AppliedFields
  <2> QED
    BY <2>1, <2>2 DEF HasSettings, Owned, TeardownStores
<1>5. CASE UNCHANGED store
  BY <1>5 DEF HasSettings, Owned
<1> QED
  BY <1>1, <1>2, <1>3, <1>4, <1>5 DEF StoreKept

(* What is new at the cloud provider has just been provisioned.            *)
LEMMA NewIsProvisioned ==
  ASSUME Runs, store \in TeardownStores, Owned, StoreKept,
         NEW o \in store'.cloud, o \notin store.cloud, Undisturbed(o[1])
  PROVE  Reprovisioned(o)
<1>1. ASSUME NEW x \in Asks, NEW k \in TfKinds, Destroys(x, k) PROVE FALSE
  BY <1>1, DestroyedFields DEF Destroys, Exists
<1>2. ASSUME NEW x \in Asks, Cleans(x) PROVE FALSE
  BY <1>2, CleanedFields DEF Cleans
<1>3. ASSUME NEW i \in ChildRuns, Writes(i) PROVE FALSE
  BY <1>3 DEF Writes, WritesInto
<1>4. ASSUME NEW i \in ChildRuns, Applies(i) PROVE Reprovisioned(o)
  <2> DEFINE d == Directory(about[i][1], about[i][2])
  <2>1. /\ about[i] \in Requests \X Kinds
        /\ d \in Dirs /\ d[1] = DirName[about[i][1]] /\ d[2] = about[i][2]
        /\ Exists(d) /\ store' = Applied(store, d)
    BY <1>4, DirectoryIsDir DEF Applies, TfKinds
  <2> HIDE DEF d
  <2>2. /\ store'.cloud = (store.cloud \ {<<store.state[d], d[2]>>}) \cup {<<store.files[d], d[2]>>}
        /\ store.files[d] \in Requests
    BY <2>1, AppliedFields
  <2>3. o = <<store.files[d], d[2]>>
    BY <2>2
  <2>4. d[1] = DirName[o[1]] /\ o[1] \in Requests
    BY <2>1, <2>2, <2>3 DEF Owned
  <2>5. about[i][1] = o[1]
    BY <2>1, <2>4 DEF Undisturbed, Clouds
  <2>6. about[i] = o
    BY <2>1, <2>3, <2>5
  <2> QED
    BY <2>6 DEF Reprovisioned
<1> QED
  BY <1>1, <1>2, <1>3, <1>4 DEF StoreKept

LEMMA ReprovisionedLasts ==
  ASSUME Remembers, NEW o \in Requests \X TfKinds, Reprovisioned(o)
  PROVE  Reprovisioned(o)'
  BY NoneAssumption DEF Remembers, Reprovisioned, C!NoSubject

LEMMA OriginsLast ==
  ASSUME Runs, Children, Store, Remembers, StoreKept, store' \in TeardownStores
  PROVE  Origins'
<1> SUFFICES ASSUME NEW o \in store'.cloud, Undisturbed(o[1])
             PROVE  o \in Provisioned \/ Reprovisioned(o)'
  BY DEF Origins
<1>1. o \in Requests \X TfKinds
  BY DEF TeardownStores
<1>2. o \in Provisioned \/ Reprovisioned(o)
  BY NewIsProvisioned DEF Store, Origins
<1> QED
  BY <1>1, <1>2, ReprovisionedLasts

(* Destroying in a directory of r is destroying for r.                     *)
LEMMA DestroysItsOwn ==
  ASSUME NEW x \in Asks, NEW k \in TfKinds, Runs, Destroys(x, k),
         NEW r \in Requests, Undisturbed(r), DestroyDir(x, k)[1] = DirName[r]
  PROVE  subject[x] = r
<1>1. subject[x] \in Requests /\ dag[x] \in Clouds
  BY DEF Destroys, Runs, Controlled
<1>2. DestroyName[subject[x]][dag[x]] = DirName[r]
  BY DEF DestroyDir
<1> QED
  BY <1>1, <1>2 DEF Undisturbed

LEMMA TrackedLast ==
  ASSUME Runs, Children, Store, \A x \in Asks : Thorough(x) /\ Lasting(x),
         Remembers, StoreKept, store' \in TeardownStores
  PROVE  Tracked'
<1>a. \A o \in store'.cloud : Reprovisioned(o) => Reprovisioned(o)'
  BY ReprovisionedLasts DEF TeardownStores
<1> SUFFICES ASSUME NEW o \in store'.cloud, Undisturbed(o[1]), ~Reprovisioned(o)
             PROVE  \/ store'.state[Directory(o[1], o[2])] = o[1]
                    \/ /\ store'.files[Directory(o[1], o[2])] = None
                       /\ \E x \in broken' : subject'[x] = o[1] /\ dag'[x] = "AZURE"
  BY <1>a DEF Tracked
<1> DEFINE d == Directory(o[1], o[2])
           Broken == \E x \in broken : subject[x] = o[1] /\ dag[x] = "AZURE"
           BrokenNow == \E x \in broken' : subject'[x] = o[1] /\ dag'[x] = "AZURE"
<1>1. o \in store.cloud /\ o \in Requests \X TfKinds /\ o = <<o[1], o[2]>>
  BY NewIsProvisioned DEF Store, TeardownStores
<1>2. d \in Dirs /\ d[1] = DirName[o[1]] /\ d[2] = o[2]
  BY <1>1, DirectoryIsDir
<1>3. store.state[d] = o[1] \/ (store.files[d] = None /\ Broken)
  BY <1>1 DEF Store, Tracked
<1>4. Broken => BrokenNow
  <2> SUFFICES ASSUME NEW x \in broken, subject[x] = o[1], dag[x] = "AZURE" PROVE BrokenNow
    OBVIOUS
  <2>1. x \in Asks /\ Controlled(x) /\ Lasting(x)
    BY DEF Runs, RunTypes
  <2> QED
    BY <2>1 DEF Controlled, Lasting
<1> SUFFICES store'.state[d] = o[1] \/ (store'.files[d] = None /\ BrokenNow)
  OBVIOUS
<1> HIDE DEF d, Broken, BrokenNow
<1>5. ASSUME NEW x \in Asks, NEW k \in TfKinds, Destroys(x, k)
      PROVE  store'.state[d] = o[1] \/ (store'.files[d] = None /\ BrokenNow)
  <2> DEFINE e == DestroyDir(x, k)
  <2>1. /\ e \in Dirs
        /\ store'.files = store.files
        /\ store'.state = [store.state EXCEPT ![e] = Empty]
        /\ store'.cloud = store.cloud \ {<<store.state[e], e[2]>>}
    BY <1>5, DestroyedFields DEF Destroys, Exists, Store
  <2> HIDE DEF e
  <2>2. e = d => store.state[d] # o[1]
    BY <1>1, <1>2, <2>1
  <2> QED
    BY <1>2, <1>3, <1>4, <2>1, <2>2 DEF Store, TeardownStores
<1>6. ASSUME NEW x \in Asks, Cleans(x)
      PROVE  store'.state[d] = o[1] \/ (store'.files[d] = None /\ BrokenNow)
  <2>1. \/ store'.files[d] = store.files[d] /\ store'.state[d] = store.state[d]
        \/ /\ store'.files[d] = None
           /\ x \in named /\ d[1] = DestroyName[subject[x]][dag[x]]
    BY <1>2, <1>6, CleanedFields DEF Cleans, Store, Bare
  <2>2. ASSUME x \in named, d[1] = DestroyName[subject[x]][dag[x]] PROVE BrokenNow
    <3>1. /\ Controlled(x) /\ Gone(x) /\ task[x] = "clean"
          /\ subject[x] \in Requests /\ dag[x] \in Clouds
      BY <1>6, <2>2 DEF Runs, Controlled, Cleans, Thorough
    <3>2. subject[x] = o[1]
      BY <1>1, <1>2, <2>2, <3>1 DEF Undisturbed, Clouds
    <3>3. x \in broken
      BY <1>1, <3>1, <3>2 DEF Gone, Controlled, Behind
    <3>4. dag[x] = "AZURE"
      BY <3>1, <3>3 DEF Controlled
    <3> QED
      BY <1>4, <3>2, <3>3, <3>4 DEF Broken
  <2> QED
    BY <1>3, <1>4, <2>1, <2>2
<1>7. ASSUME NEW i \in ChildRuns, Writes(i)
      PROVE  store'.state[d] = o[1] \/ (store'.files[d] = None /\ BrokenNow)
  <2> DEFINE e == Directory(about[i][1], about[i][2])
  <2>1. about[i] \in Requests \X Kinds /\ WritesInto(store, store', e, about[i][1])
    BY <1>7 DEF Writes
  <2>2. e \in Dirs /\ e[1] = DirName[about[i][1]] /\ e[2] = about[i][2]
    BY <2>1, DirectoryIsDir DEF TfKinds
  <2> HIDE DEF e
  <2>3. e # d
    <3>1. SUFFICES ASSUME e = d PROVE FALSE
      OBVIOUS
    <3>2. about[i][1] = o[1]
      BY <1>1, <1>2, <2>1, <2>2, <3>1 DEF Undisturbed, Clouds
    <3>3. about[i] = o
      BY <1>1, <1>2, <2>1, <2>2, <3>1, <3>2
    <3> QED
      BY <3>3 DEF Reprovisioned
  <2> QED
    BY <1>2, <1>3, <1>4, <2>1, <2>3 DEF WritesInto
<1>8. ASSUME NEW i \in ChildRuns, Applies(i)
      PROVE  store'.state[d] = o[1] \/ (store'.files[d] = None /\ BrokenNow)
  <2> DEFINE e == Directory(about[i][1], about[i][2])
  <2>1. /\ about[i] \in Requests \X Kinds
        /\ Exists(e) /\ e \in Dirs /\ store' = Applied(store, e)
    BY <1>8 DEF Applies, Exists
  <2> HIDE DEF e
  <2>2. /\ store'.files = store.files
        /\ store'.state = [store.state EXCEPT ![e] = store.files[e]]
        /\ store.files[e] \in Requests
    BY <2>1, AppliedFields DEF Store
  <2>3. e = d => store.files[e] = o[1]
    <3>1. e[1] = DirName[store.files[e]]
      BY <2>1, <2>2 DEF Store, Owned
    <3> QED
      BY <1>1, <1>2, <2>2, <3>1 DEF Undisturbed, Clouds
  <2> QED
    BY <1>2, <1>3, <1>4, <2>1, <2>2, <2>3 DEF Store, TeardownStores
<1> QED
  BY <1>3, <1>4, <1>5, <1>6, <1>7, <1>8 DEF StoreKept

(* How a run comes to stand where it must have left nothing behind.        *)
GoesOn(y) ==
  /\ task[y] \in {"destroy", "group"} \cup Behind
  /\ todo[y]' = todo[y]
  /\ task[y] \in {"destroy", "group"} => task[y]' = task[y]
  /\ task[y]' \in Behind \ {"clean"} => task[y] \in Behind \ {"clean"} \/ Cleans(y)

Branches(y) ==
  /\ task[y] = "branch" /\ task[y]' = "destroy"
  /\ dag[y] = Provider[subject[y]]
  /\ todo[y]' = Wanted[subject[y]]

DestroysKind(y, k) ==
  /\ task[y] = "destroy"
  /\ Destroys(y, k)
  /\ todo[y]' = todo[y] \ {k}
  /\ task[y]' \in {"destroy", "group", "clean"}
  /\ task[y]' = "clean" => dag[y] = "AWS"

DestroysGroup(y) ==
  /\ task[y] = "group" /\ task[y]' = "clean"
  /\ Destroys(y, "rg")
  /\ todo[y]' = todo[y]

LEMMA GoneStep ==
  ASSUME Runs, [TeardownNext]_allVars,
         NEW y \in Asks, task[y]' \in {"destroy", "group"} \cup Behind, y \notin broken'
  PROVE  \/ GoesOn(y) \/ Branches(y) \/ DestroysGroup(y)
         \/ \E k \in Kinds : DestroysKind(y, k)
<1> USE DEF Behind, Deleting
<1>0. RunTypes /\ Controlled(y)
  BY DEF Runs
<1>1. ASSUME task[y]' = task[y], todo[y]' = todo[y] PROVE GoesOn(y)
  BY <1>1 DEF GoesOn
<1>2. ASSUME NEW x \in Asks, x # y, Elsewhere(x) PROVE GoesOn(y)
  BY <1>1, <1>2 DEF Elsewhere
<1>3. ASSUME NEW x \in Asks, NEW r \in Requests, Ask(x, r) PROVE GoesOn(y)
  BY <1>0, <1>1, <1>3 DEF Ask, Goto, RunTypes
<1>4. ASSUME NEW x \in Asks, Publish(x) \/ StartRun(x) PROVE GoesOn(y)
  BY <1>0, <1>1, <1>4 DEF Publish, StartRun, Goto, RunTypes, runs
<1>5. ASSUME Work(y) \/ Faults(y)
      PROVE  \/ GoesOn(y) \/ Branches(y) \/ DestroysGroup(y)
             \/ \E k \in Kinds : DestroysKind(y, k)
  <2> USE <1>0 DEF RunTypes
  <2>1. ~Consume(y) /\ ~LoseTrigger(y)
    BY DEF Consume, LoseTrigger, Goto
  <2>2. ASSUME Name(y) PROVE FALSE
    BY <2>2 DEF Name, Goto, Breaks
  <2>3. ASSUME Branch(y) PROVE Branches(y)
    BY <2>3 DEF Branch, Branches, Goto, Breaks, Counted
  <2>4. ASSUME DestroyGroup(y) PROVE DestroysGroup(y)
    BY <2>4 DEF DestroyGroup, Destroyable, DestroysGroup, Destroys, Goto, Breaks, Controlled
  <2>5. ASSUME Clean(y) PROVE GoesOn(y)
    BY <2>5 DEF Clean, Cleans, GoesOn, Goto, runs
  <2>6. ASSUME DeleteStep(y) PROVE GoesOn(y)
    BY <2>6 DEF DeleteStep, SelectRequest, DeleteRequest, DeleteRepository,
                DeleteResources, DeleteInstances, DeleteConfig, Goto, runs, GoesOn
  <2>7. ASSUME NEW k \in Kinds, Destroy(y, k) PROVE DestroysKind(y, k)
    <3>1. Exists(DestroyDir(y, k)) /\ store' = Destroyed(DestroyDir(y, k))
      BY <2>7 DEF Destroy, DestroyEnds, Destroyable
    <3>2. DestroyEnds(y, k, TRUE)
      BY <2>7 DEF Destroy, DestroyEnds, AfterDestroy
    <3>3. y \notin broken /\ k \in todo[y] /\ todo'[y] = todo[y] \ {k}
      BY <3>2 DEF DestroyEnds
    <3>4. task[y] = "destroy" /\ y \in named /\ dag[y] = Provider[subject[y]]
      BY <3>3 DEF Controlled
    <3>5. task'[y] \in {"destroy", "group", "clean"} /\ (task'[y] = "clean" => dag[y] = "AWS")
      <4>1. dag[y] \in Clouds
        BY <3>4 DEF Controlled
      <4> QED
        BY <3>2, <3>4, <4>1 DEF DestroyEnds, AfterDestroy, Goto, Clouds
    <3> QED
      BY <3>1, <3>3, <3>4, <3>5 DEF DestroysKind, Destroys
  <2>8. ASSUME NEW k \in Kinds, DestroyFails(y, k) PROVE FALSE
    BY <2>8 DEF DestroyFails, DestroyEnds
  <2>9. ASSUME LoseMessage(y) PROVE GoesOn(y)
    BY <1>1, <2>9 DEF LoseMessage, runs
  <2>10. ASSUME ConsumeDies(y) PROVE FALSE
    BY <2>10 DEF ConsumeDies, Breaks
  <2>11. ASSUME TaskFails(y) PROVE FALSE
    BY <2>11 DEF TaskFails, Breaks, Goto
  <2> QED
    BY <1>5, <2>1, <2>2, <2>3, <2>4, <2>5, <2>6, <2>7, <2>8, <2>9, <2>10, <2>11
       DEF Work, Faults
<1>6. ASSUME UNCHANGED <<task, runs>> PROVE GoesOn(y)
  BY <1>1, <1>6 DEF runs
<1>7. ASSUME NEW r \in Requests, RemoveRequest(r) PROVE GoesOn(y)
  BY <1>6, <1>7 DEF RemoveRequest
<1> QED
  BY <1>2, <1>3, <1>4, <1>5, <1>6, <1>7, WorkElsewhere DEF TeardownNext, Next, allVars, vars

LEMMA GoneLasts ==
  ASSUME Runs, Children, Store, \A x \in Asks : Thorough(x) /\ Lasting(x),
         Remembers, StoreKept, store' \in TeardownStores, [TeardownNext]_allVars,
         NEW y \in Asks
  PROVE  Gone(y)'
<1>a. \A o \in store'.cloud : Reprovisioned(o) => Reprovisioned(o)'
  BY ReprovisionedLasts DEF TeardownStores
<1> SUFFICES ASSUME task[y]' \in {"destroy", "group"} \cup Behind, y \notin broken',
                    NEW o \in store'.cloud, o[1] = subject'[y], Undisturbed(o[1]),
                    ~Reprovisioned(o)
             PROVE  \/ o[2] \in todo'[y]
                    \/ o[2] = "rg" /\ task'[y] \in {"destroy", "group"}
  BY <1>a DEF Gone
<1>1. o \in store.cloud /\ o \in Requests \X TfKinds /\ o = <<o[1], o[2]>>
  BY NewIsProvisioned DEF Store, TeardownStores
<1>2. Controlled(y) /\ Gone(y) /\ Lasting(y) /\ y \notin broken
  BY DEF Runs, Lasting, Thorough
<1>3. o \in Provisioned
  BY <1>1 DEF Store, Origins
<1>4. ASSUME task[y] \in {"branch", "destroy", "group"} \cup Behind
      PROVE  subject'[y] = subject[y]
  BY <1>2, <1>4 DEF Lasting, Behind, Deleting
<1>5. CASE GoesOn(y)
  BY <1>1, <1>2, <1>4, <1>5 DEF GoesOn, Gone
<1>6. CASE Branches(y)
  BY <1>1, <1>3, <1>4, <1>6, ProvisionedAssumption DEF Branches
<1>7. ASSUME NEW k \in TfKinds, Destroys(y, k), subject'[y] = subject[y] PROVE o[2] # k
  <2> DEFINE d == DestroyDir(y, k)
  <2>1. SUFFICES ASSUME o[2] = k PROVE FALSE
    OBVIOUS
  <2>2. /\ d \in Dirs /\ d[2] = k /\ store.files[d] # None
        /\ store'.cloud = store.cloud \ {<<store.state[d], d[2]>>}
    BY <1>7, DestroyedFields DEF Destroys, Exists, Store, DestroyDir
  <2>3. d[1] = DestroyName[o[1]][dag[y]] /\ dag[y] \in Clouds /\ d[1] \in Names
    BY <1>2, <1>7, <2>2 DEF Destroys, Controlled, DestroyDir, Dirs
  <2>4. d[1] = DirName[o[1]]
    BY <1>1, <2>3 DEF Names, Undisturbed
  <2> HIDE DEF d
  <2>5. d = Directory(o[1], o[2])
    BY <1>1, <2>1, <2>2, <2>4, OwnDirectory
  <2>6. store.state[d] = o[1]
    BY <1>1, <2>2, <2>5 DEF Store, Tracked
  <2> QED
    BY <1>1, <2>1, <2>2, <2>6
<1>8. CASE DestroysGroup(y)
  <2>1. subject'[y] = subject[y] /\ Destroys(y, "rg")
    BY <1>4, <1>8 DEF DestroysGroup
  <2>2. o[2] # "rg"
    BY <1>7, <2>1 DEF TfKinds
  <2> QED
    BY <1>1, <1>2, <1>8, <2>1, <2>2 DEF DestroysGroup, Gone
<1>9. ASSUME NEW k \in Kinds, DestroysKind(y, k)
      PROVE  \/ o[2] \in todo'[y]
             \/ o[2] = "rg" /\ task'[y] \in {"destroy", "group"}
  <2>1. subject'[y] = subject[y] /\ Destroys(y, k)
    BY <1>4, <1>9 DEF DestroysKind
  <2>2. o[2] # k
    BY <1>7, <2>1 DEF TfKinds
  <2>3. o[2] \in todo[y] \/ o[2] = "rg"
    BY <1>1, <1>2, <1>9, <2>1 DEF DestroysKind, Gone
  <2>4. ASSUME o[2] = "rg" PROVE task'[y] \in {"destroy", "group"}
    <3>1. o[2] \notin Wanted[o[1]]
      BY <1>1, <2>4, DestroyWantedAssumption DEF Kinds
    <3>2. Provider[o[1]] = "AZURE"
      BY <1>3, <3>1, ProvisionedAssumption
    <3>3. dag[y] = "AZURE"
      BY <2>1, <3>2 DEF Destroys
    <3> QED
      BY <1>9, <3>3 DEF DestroysKind
  <2> QED
    BY <1>9, <2>2, <2>3, <2>4 DEF DestroysKind
<1> QED
  BY <1>5, <1>6, <1>8, <1>9, GoneStep

(* A run without a failed task, once past its destroy tasks, has been in   *)
(* the directories of its request.                                         *)
LEMMA FoundLasts ==
  ASSUME Runs, \A x \in Asks : Thorough(x) /\ Lasting(x), [TeardownNext]_allVars,
         NEW y \in Asks
  PROVE  Found(y)'
<1> SUFFICES ASSUME task[y]' \in {"group"} \cup Behind, y \notin broken',
                    Undisturbed(subject'[y])
             PROVE  DestroyName[subject'[y]][dag'[y]] = DirName[subject'[y]]
  BY DEF Found
<1>1. Controlled(y) /\ Found(y) /\ Lasting(y) /\ y \notin broken
  BY DEF Runs, Lasting, Thorough
<1>2. task[y] \in {"branch", "destroy", "group"} \cup Behind
  BY GoneStep DEF GoesOn, Branches, DestroysKind, DestroysGroup
<1>3. subject'[y] = subject[y] /\ dag'[y] = dag[y]
  BY <1>1, <1>2 DEF Lasting, Behind, Deleting
<1>4. CASE GoesOn(y)
  BY <1>1, <1>3, <1>4 DEF GoesOn, Found, Behind, Deleting
<1>5. CASE Branches(y)
  BY <1>5 DEF Branches, Behind, Deleting
<1>6. ASSUME NEW k \in TfKinds, Destroys(y, k)
      PROVE  DestroyName[subject[y]][dag[y]] = DirName[subject[y]]
  <2>1. subject[y] \in Requests /\ dag[y] \in Clouds
    BY <1>1, <1>6 DEF Destroys, Controlled
  <2>2. DestroyName[subject[y]][dag[y]] \in Names
    BY <1>6 DEF Destroys, Exists, DestroyDir, Dirs
  <2> QED
    BY <1>3, <2>1, <2>2 DEF Names, Undisturbed
<1>7. CASE DestroysGroup(y) \/ \E k \in Kinds : DestroysKind(y, k)
  BY <1>3, <1>6, <1>7 DEF DestroysGroup, DestroysKind, TfKinds
<1> QED
  BY <1>4, <1>5, <1>7, GoneStep

(* What is bare stays so until it is provisioned again.                    *)
LEMMA BareLasts ==
  ASSUME Runs, store \in TeardownStores, HasSettings, StoreKept,
         NEW r \in Requests, NEW k \in TfKinds, Undisturbed(r),
         ~Reprovisioned(<<r, k>>), Bare(Directory(r, k))
  PROVE  Bare(Directory(r, k))'
<1> DEFINE d == Directory(r, k)
<1>1. d \in Dirs /\ d[1] = DirName[r] /\ d[2] = k
  BY DirectoryIsDir
<1>2. store.files[d] = None /\ store.mains[d] = {} /\ store.state[d] = None
  BY DEF Bare
<1>3. SUFFICES store'.files[d] = None /\ store'.mains[d] = {} /\ store'.state[d] = None
  BY DEF Bare
<1> HIDE DEF d
<1>4. ASSUME NEW x \in Asks, NEW e \in TfKinds, Destroys(x, e)
      PROVE  store'.files[d] = None /\ store'.mains[d] = {} /\ store'.state[d] = None
  <2> DEFINE c == DestroyDir(x, e)
  <2>1. /\ c \in Dirs /\ store.files[c] # None
        /\ store'.files = store.files /\ store'.mains = store.mains
        /\ store'.state = [store.state EXCEPT ![c] = Empty]
    BY <1>4, DestroyedFields DEF Destroys, Exists
  <2> HIDE DEF c
  <2> QED
    BY <1>1, <1>2, <2>1 DEF TeardownStores
<1>5. ASSUME NEW x \in Asks, Cleans(x)
      PROVE  store'.files[d] = None /\ store'.mains[d] = {} /\ store'.state[d] = None
  BY <1>1, <1>2, <1>5, CleanedFields DEF Cleans, Bare
<1>6. ASSUME NEW i \in ChildRuns, about[i] \in Requests \X Kinds
      PROVE  Directory(about[i][1], about[i][2]) # d
  <2>1. about[i] # <<r, k>>
    BY DEF Reprovisioned
  <2>2. about[i] = <<about[i][1], about[i][2]>>
    BY <1>6
  <2>3. about[i][1] # r => DirName[about[i][1]] # DirName[r]
    BY <1>6 DEF Undisturbed, Clouds
  <2> QED
    BY <1>1, <1>6, <2>1, <2>2, <2>3, DirectoryIsDir DEF TfKinds
<1>7. ASSUME NEW i \in ChildRuns, Writes(i)
      PROVE  store'.files[d] = None /\ store'.mains[d] = {} /\ store'.state[d] = None
  BY <1>1, <1>2, <1>6, <1>7 DEF Writes, WritesInto
<1>8. ASSUME NEW i \in ChildRuns, Applies(i)
      PROVE  store'.files[d] = None /\ store'.mains[d] = {} /\ store'.state[d] = None
  <2> DEFINE e == Directory(about[i][1], about[i][2])
  <2>1. e # d /\ e \in Dirs /\ Exists(e) /\ store' = Applied(store, e)
    BY <1>6, <1>8 DEF Applies, Exists
  <2> HIDE DEF e
  <2>2. /\ store'.files = store.files /\ store'.mains = store.mains
        /\ store'.state = [store.state EXCEPT ![e] = store.files[e]]
    BY <2>1, AppliedFields
  <2> QED
    BY <1>1, <1>2, <2>1, <2>2 DEF TeardownStores
<1> QED
  BY <1>2, <1>4, <1>5, <1>7, <1>8 DEF StoreKept

LEMMA SweptLasts ==
  ASSUME Runs, Store, \A x \in Asks : Thorough(x) /\ Lasting(x), Remembers, StoreKept,
         [TeardownNext]_allVars, NEW y \in Asks
  PROVE  Swept(y)'
<1> SUFFICES ASSUME task[y]' \in Behind \ {"clean"}, y \notin broken', Undisturbed(subject'[y]),
                    NEW k \in TfKinds, ~Reprovisioned(<<subject[y], k>>)'
             PROVE  Bare(Directory(subject[y], k))'
  BY DEF Swept
<1>1. Controlled(y) /\ Found(y) /\ Swept(y) /\ Lasting(y) /\ y \notin broken
  BY DEF Runs, Lasting, Thorough
<1>2. GoesOn(y)
  BY GoneStep DEF Branches, DestroysKind, DestroysGroup, Behind, Deleting
<1>3. task[y] \in Behind
  BY <1>2 DEF GoesOn, Behind, Deleting
<1>4. subject'[y] = subject[y] /\ subject[y] \in Requests /\ y \in named
  BY <1>1, <1>3 DEF Lasting, Controlled, Behind, Deleting
<1>5. ~Reprovisioned(<<subject[y], k>>)
  BY <1>4, ReprovisionedLasts
<1>6. CASE task[y] \in Behind \ {"clean"}
  <2>1. Bare(Directory(subject[y], k))
    BY <1>1, <1>4, <1>5, <1>6 DEF Swept
  <2> QED
    BY <1>4, <1>5, <2>1, BareLasts DEF Store
<1>7. CASE Cleans(y)
  <2> DEFINE d == Directory(subject[y], k)
  <2>1. d \in Dirs /\ d = DestroyDir(y, k)
    BY <1>1, <1>3, <1>4, DirectoryIsDir DEF Found, DestroyDir, Directory
  <2>2. store'.files[d] = None /\ store'.mains[d] = {} /\ store'.state[d] = None
    BY <1>4, <1>7, <2>1, CleanedFields DEF Cleans, Store, Bare
  <2> QED
    BY <1>4, <2>2 DEF Bare, Directory
<1> QED
  BY <1>2, <1>6, <1>7 DEF GoesOn

LEMMA InvariantInitially == TeardownInit => Invariant
<1> SUFFICES ASSUME TeardownInit PROVE Invariant
  OBVIOUS
<1>1. Runs
  BY DEF TeardownInit, Init, Runs, RunTypes, Controlled, Deleting, Behind, Events, Clouds
<1>2. Children
  BY DEF TeardownInit, Children, C!Stages
<1>3. \A x \in Asks : Thorough(x)
  BY DEF TeardownInit, Init, Thorough, Gone, Found, Swept, Behind, Deleting
<1> DEFINE main == [d \in Dirs |-> IF Owners[d] = None THEN {} ELSE {MainFile({}, Owners[d], d[2])}]
<1>4. store = [files |-> Owners, mains |-> main, state |-> Owners, cloud |-> Provisioned]
  BY DEF TeardownInit, Init
<1>5. ASSUME NEW o \in Provisioned
      PROVE  /\ o \in Requests \X TfKinds
             /\ Directory(o[1], o[2]) \in Dirs
             /\ Owners[Directory(o[1], o[2])] = o[1]
  <2>1. o \in Requests \X TfKinds
    BY ProvisionedAssumption
  <2>2. Directory(o[1], o[2]) \in Dirs
    BY <2>1, DirectoryIsDir
  <2>3. (CHOOSE p \in Provisioned : Directory(p[1], p[2]) = Directory(o[1], o[2])) = o
    BY ProvisionedAssumption
  <2> QED
    BY <2>1, <2>2, <2>3 DEF Owners
<1>6. ASSUME NEW d \in Dirs, Owners[d] # None
      PROVE  Owners[d] \in Requests /\ d[1] = DirName[Owners[d]]
  <2>1. PICK o \in Provisioned : Directory(o[1], o[2]) = d
    BY <1>6 DEF Owners
  <2>2. Owners[d] = o[1] /\ o \in Requests \X TfKinds
    BY <1>5, <2>1
  <2> QED
    BY <2>1, <2>2, DirectoryIsDir
<1>7. /\ Owners \in [Dirs -> Requests \cup {None}]
      /\ main \in [Dirs -> SUBSET MainFiles]
      /\ \A d \in Dirs : main[d] # {} => Owners[d] # None
  <2>1. Owners \in [Dirs -> Requests \cup {None}]
    BY <1>6 DEF Owners
  <2> QED
    BY <2>1 DEF MainFile, MainFiles
<1> HIDE DEF main
<1>8. store \in TeardownStores
  BY <1>4, <1>7, ProvisionedAssumption DEF TeardownStores
<1>9. Owned /\ HasSettings
  BY <1>4, <1>6, <1>7, NoneAssumption DEF Owned, HasSettings
<1>10. Origins /\ Tracked
  BY <1>4, <1>5 DEF Origins, Tracked
<1> QED
  BY <1>1, <1>2, <1>3, <1>8, <1>9, <1>10 DEF Invariant, Store

LEMMA InvariantInductive == Invariant /\ [TeardownNext]_allVars => Invariant'
<1> SUFFICES ASSUME Invariant, [TeardownNext]_allVars PROVE Invariant'
  OBVIOUS
<1>1. Runs' /\ Children' /\ Remembers /\ StoreKept /\ \A x \in Asks : Lasting(x)
  BY RunsInductive, ChildrenInductive, StoreStep, RunsLast DEF Invariant, Store
<1>2. store' \in TeardownStores /\ HasSettings' /\ Owned'
  BY <1>1, OwnersLast DEF Invariant, Store
<1>3. Origins' /\ Tracked'
  BY <1>1, <1>2, OriginsLast, TrackedLast DEF Invariant
<1>4. \A x \in Asks : Thorough(x)'
  BY <1>1, <1>2, GoneLasts, FoundLasts, SweptLasts DEF Invariant, Thorough
<1> QED
  BY <1>1, <1>2, <1>3, <1>4 DEF Invariant, Store

(* A run of the request's own cloud that deletes rows with no task failed  *)
(* has left nothing of the request behind, at the cloud provider or in its *)
(* directories: no settings, no main files and no state, unless they are   *)
(* of a later provisioning run (CleanRunLeavesNothing).                    *)
THEOREM NothingIsLeft == TeardownSpec => []CleanRunLeavesNothing
<1>1. Invariant => CleanRunLeavesNothing
  <2> SUFFICES ASSUME Invariant, NEW x \in Asks,
                      task[x] \in {"delete", "success"} \cup Deleting, x \notin broken,
                      dag[x] = Provider[subject[x]], Undisturbed(subject[x]),
                      NEW k \in TfKinds, ~Reprovisioned(<<subject[x], k>>)
               PROVE  <<subject[x], k>> \notin store.cloud /\ Bare(Directory(subject[x], k))
    BY DEF CleanRunLeavesNothing
  <2>1. task[x] \in Behind \ {"clean"}
    BY DEF Behind, Deleting
  <2>2. Controlled(x) /\ Gone(x) /\ Swept(x)
    BY DEF Invariant, Runs, Thorough
  <2>3. <<subject[x], k>> \notin store.cloud
    BY <2>1, <2>2 DEF Gone, Controlled, Behind, Deleting
  <2>4. Bare(Directory(subject[x], k))
    BY <2>1, <2>2 DEF Swept
  <2> QED
    BY <2>3, <2>4
<1> QED
  BY <1>1, InvariantInitially, InvariantInductive, PTL DEF TeardownSpec

(* Terraform loses track of a resource only through a cleanup_dir that     *)
(* went on after a failed task, on Azure, or through a provisioning run    *)
(* that came in between (LosesTrackOnlyOnAzure).                           *)
THEOREM OnlyAzureLosesTrack == TeardownSpec => []LosesTrackOnlyOnAzure
<1>1. Invariant => LosesTrackOnlyOnAzure
  BY DEF Invariant, Store, Tracked, LosesTrackOnlyOnAzure
<1> QED
  BY <1>1, InvariantInitially, InvariantInductive, PTL DEF TeardownSpec

----------------------------------------------------------------------------
(* The types of everything, once what is recorded is added.                *)
RecordedTypes == recorded \in [Requests \X Kinds -> Requests \cup {None, Empty}]

LEMMA RecordedTyped ==
  ASSUME Children, store \in TeardownStores, RecordedTypes, [TeardownNext]_allVars
  PROVE  RecordedTypes'
<1>1. CASE UNCHANGED recorded
  BY <1>1 DEF RecordedTypes
<1>2. ASSUME NEW i \in ChildRuns, C!Record(i) PROVE RecordedTypes'
  <2>1. about[i] \in Requests \X Kinds
    BY <1>2 DEF C!Record, C!Stages, Children
  <2>2. C!DirOf(i) \in Dirs
    BY <2>1 DEF C!DirOf, C!Directory, Dirs, Names, TfKinds
  <2>3. store.state[C!DirOf(i)] \in Requests \cup {None, Empty}
    BY <2>2 DEF TeardownStores
  <2> QED
    BY <1>2, <2>1, <2>3 DEF C!Record, RecordedTypes
<1>3. ASSUME NEW i \in ChildRuns, Provision(i) PROVE RecordedTypes'
  <2>1. ASSUME NEW r \in Requests, NEW k \in Kinds, Start(i, r, k) PROVE UNCHANGED recorded
    BY <2>1 DEF Start, C!Start
  <2>2. ASSUME C!Fetch(i) \/ C!WriteFiles(i) \/ C!Apply(i) PROVE UNCHANGED recorded
    BY <2>2 DEF C!Fetch, C!WriteFiles, C!Apply
  <2>3. ASSUME C!Faults(i) \/ ProvisionFails(i) PROVE UNCHANGED recorded
    BY <2>3 DEF C!Faults, C!WriteFilesTwice, C!TaskFails, ProvisionFails
  <2> QED
    BY <1>1, <1>2, <1>3, <2>1, <2>2, <2>3 DEF Provision, C!RunStep
<1> QED
  BY <1>1, <1>3 DEF TeardownNext, allVars, childVars

(* The variables of Teardown keep their types: a run never applies or      *)
(* destroys in a directory that is not there, and a subject is a request.  *)
THEOREM TeardownTypeCorrect == TeardownSpec => []TeardownTypeOK
<1>1. TeardownInit => RecordedTypes
  BY ProvisionedAssumption DEF TeardownInit, RecordedTypes
<1>2. Invariant /\ RecordedTypes /\ [TeardownNext]_allVars => RecordedTypes'
  BY RecordedTyped DEF Invariant, Store
<1>3. Invariant /\ RecordedTypes => TeardownTypeOK
  BY DEF Invariant, Runs, RunTypes, Children, Store, RecordedTypes, TeardownTypeOK
<1> QED
  BY <1>1, <1>2, <1>3, InvariantInitially, InvariantInductive, PTL DEF TeardownSpec

----------------------------------------------------------------------------
(* What is on its way, queued or taken was asked for.                      *)
AskedFor ==
  /\ \A x \in Asks : publishing[x] \in asked \cup {None} /\ subject[x] \in asked \cup {None}
  /\ queue \in Seq(asked)

LEMMA AskedForInductive ==
  ASSUME Runs, AskedFor, [TeardownNext]_allVars
  PROVE  AskedFor'
<1>0. RunTypes
  BY DEF Runs
<1>1. ASSUME UNCHANGED <<asked, publishing, subject, queue>> PROVE AskedFor'
  BY <1>1 DEF AskedFor
<1>2. ASSUME NEW x \in Asks, NEW r \in Requests, Ask(x, r) PROVE AskedFor'
  <2>1. asked \subseteq asked' /\ queue' = queue /\ subject' = subject
    BY <1>2 DEF Ask
  <2>2. queue \in Seq(asked')
    <3>1. \A n \in 1 .. Len(queue) : queue[n] \in asked'
      BY <2>1 DEF AskedFor
    <3> QED
      BY <3>1 DEF AskedFor
  <2> QED
    BY <1>0, <1>2, <2>1, <2>2 DEF Ask, AskedFor, RunTypes
<1>3. ASSUME NEW x \in Asks, Publish(x) PROVE AskedFor'
  <2>1. Append(queue, publishing[x]) \in Seq(asked)
    BY <1>3 DEF Publish, AskedFor
  <2> QED
    BY <1>0, <1>3, <2>1 DEF Publish, AskedFor, RunTypes, runs
<1>4. ASSUME NEW x \in Asks, LoseMessage(x) PROVE AskedFor'
  BY <1>0, <1>4 DEF LoseMessage, AskedFor, RunTypes, runs
<1>5. ASSUME NEW x \in Asks, Consume(x) \/ ConsumeDies(x) PROVE AskedFor'
  <2>1. queue # <<>> => Head(queue) \in asked /\ Tail(queue) \in Seq(asked)
    BY DEF AskedFor
  <2> QED
    BY <1>0, <1>5, <2>1 DEF Consume, ConsumeDies, AskedFor, RunTypes
<1>6. ASSUME NEW x \in Asks, StartRun(x) \/ LoseTrigger(x) \/ Name(x) \/ Branch(x) \/ TaskFails(x)
      PROVE  AskedFor'
  BY <1>1, <1>6 DEF StartRun, LoseTrigger, Name, Branch, TaskFails, runs
<1>7. ASSUME NEW x \in Asks, DestroyGroup(x) \/ Clean(x) PROVE AskedFor'
  BY <1>1, <1>7 DEF DestroyGroup, Clean, runs
<1>8. ASSUME NEW x \in Asks, DeleteStep(x) PROVE AskedFor'
  BY <1>1, <1>8 DEF DeleteStep, SelectRequest, DeleteRequest, DeleteRepository,
                    DeleteResources, DeleteInstances, DeleteConfig, runs
<1>9. ASSUME NEW x \in Asks, NEW k \in Kinds, Destroy(x, k) \/ DestroyFails(x, k) PROVE AskedFor'
  BY <1>1, <1>9 DEF Destroy, DestroyFails, DestroyEnds
<1>10. ASSUME NEW r \in Requests, RemoveRequest(r) PROVE AskedFor'
  BY <1>1, <1>10 DEF RemoveRequest, runs
<1>11. ASSUME UNCHANGED <<rows, asked, publishing, queue, task, runs>> PROVE AskedFor'
  BY <1>1, <1>11 DEF runs
<1> QED
  BY <1>2, <1>3, <1>4, <1>5, <1>6, <1>7, <1>8, <1>9, <1>10, <1>11
     DEF TeardownNext, Next, Work, Faults, allVars, vars

(* What exists at the cloud provider goes only if the destruction of its   *)
(* own request was asked for (GoesOnlyIfAsked), whichever DAG's run took   *)
(* which message.                                                          *)
THEOREM OnlyWhatWasAskedGoes == TeardownSpec => GoesOnlyIfAsked
<1>1. TeardownInit => AskedFor
  BY DEF TeardownInit, Init, AskedFor
<1>2. Invariant /\ AskedFor /\ [TeardownNext]_allVars => AskedFor'
  BY AskedForInductive DEF Invariant
<1>3. Invariant /\ AskedFor /\ [TeardownNext]_allVars =>
        [\A o \in store.cloud :
           o \notin store'.cloud /\ Undisturbed(o[1]) => o[1] \in asked]_allVars
  <2> SUFFICES ASSUME Invariant, AskedFor, [TeardownNext]_allVars,
                      NEW o \in store.cloud, o \notin store'.cloud, Undisturbed(o[1])
               PROVE  o[1] \in asked
    OBVIOUS
  <2>1. StoreKept /\ store \in TeardownStores /\ Owned /\ Runs
    BY StoreStep DEF Invariant, Store
  <2>2. o[1] \in Requests
    BY <2>1 DEF TeardownStores
  <2>3. ASSUME NEW x \in Asks, NEW k \in TfKinds, Destroys(x, k) PROVE o[1] \in asked
    <3> DEFINE d == DestroyDir(x, k)
    <3>1. d \in Dirs /\ store'.cloud = store.cloud \ {<<store.state[d], d[2]>>}
      BY <2>1, <2>3, DestroyedFields DEF Destroys, Exists
    <3>2. store.state[d] = o[1]
      BY <3>1
    <3>3. d[1] = DirName[o[1]]
      BY <2>1, <2>2, <3>1, <3>2 DEF Owned
    <3>4. subject[x] = o[1]
      BY <2>1, <2>2, <2>3, <3>3, DestroysItsOwn
    <3> QED
      BY <2>2, <3>4, NoneAssumption DEF AskedFor
  <2>4. ASSUME NEW x \in Asks, Cleans(x) PROVE FALSE
    BY <2>1, <2>4, CleanedFields DEF Cleans
  <2>5. ASSUME NEW i \in ChildRuns, Writes(i) PROVE FALSE
    BY <2>5 DEF Writes, WritesInto
  <2>6. ASSUME NEW i \in ChildRuns, Applies(i) PROVE FALSE
    <3> DEFINE d == Directory(about[i][1], about[i][2])
    <3>1. Exists(d) /\ d \in Dirs /\ store' = Applied(store, d)
      BY <2>6 DEF Applies, Exists
    <3> HIDE DEF d
    <3>2. /\ store'.cloud = (store.cloud \ {<<store.state[d], d[2]>>})
                            \cup {<<store.files[d], d[2]>>}
          /\ store.files[d] \in Requests
      BY <2>1, <3>1, AppliedFields
    <3>3. o = <<store.state[d], d[2]>> /\ store.state[d] = o[1]
      BY <3>2
    <3>4. DirName[store.files[d]] = DirName[o[1]]
      BY <2>1, <2>2, <3>1, <3>2, <3>3 DEF Owned
    <3>5. store.files[d] = o[1]
      BY <2>2, <3>2, <3>4 DEF Undisturbed, Clouds
    <3> QED
      BY <3>2, <3>3, <3>5
  <2> QED
    BY <2>1, <2>3, <2>4, <2>5, <2>6 DEF StoreKept
<1> QED
  BY <1>1, <1>2, <1>3, InvariantInitially, InvariantInductive, PTL
     DEF TeardownSpec, GoesOnlyIfAsked

----------------------------------------------------------------------------
(* What a run that deletes rows has deleted already.                       *)
Progress(x) ==
  /\ task[x] \in Deleting \ {"deleteRequest"} => "request" \notin rows[subject[x]]
  /\ task[x] \in {"deleteResources", "deleteInstances", "deleteConfig"} =>
       "repository" \notin rows[subject[x]] /\ subject[x] \notin Deployed
  /\ task[x] \in {"deleteInstances", "deleteConfig"} => "resources" \notin rows[subject[x]]
  /\ task[x] = "deleteConfig" /\ dag[x] = Provider[subject[x]] =>
       "instances" \notin rows[subject[x]]

(* The request goes first, of a deployed one nothing else, and the         *)
(* configuration with or after its instances.                              *)
Ordered(r) ==
  /\ "request" \in rows[r] => rows[r] = Rows
  /\ r \in Deployed => Rows \ {"request"} \subseteq rows[r]
  /\ "config" \notin rows[r] => "instances" \notin rows[r]

(* A run has r among its tasks; one was interrupted; one of the other      *)
(* cloud has left the machines.                                            *)
AtWork(r, tasks) == \E x \in Asks : subject[x] = r /\ task[x] \in tasks

Interrupted(r) == count["faults"] > 0 /\ \E x \in Asks : subject[x] = r /\ task[x] = "failed"

LeftBehind(r) ==
  /\ rows[r] = {"instances", "config"}
  /\ \E x \in Asks : subject[x] = r /\ dag[x] # Provider[r]

(* Resources that are gone have been deleted by a run that is at work      *)
(* still, or has been as far as it could.                                  *)
Afterwards(r) ==
  "resources" \notin rows[r] =>
    AtWork(r, {"deleteInstances", "deleteConfig"}) \/ Interrupted(r) \/ rows[r] = {} \/ LeftBehind(r)

Explained(r) ==
  rows[r] \notin {{}, Rows} =>
    \/ AtWork(r, Deleting) \/ Interrupted(r) \/ LeftBehind(r)
    \/ rows[r] = Rows \ {"request"} /\ (r \in Deployed \/ count["requestRemovals"] > 0)

Leftovers ==
  /\ \A x \in Asks : Progress(x)
  /\ \A r \in Requests : Ordered(r) /\ Afterwards(r) /\ Explained(r)

(* A step that deletes nothing leaves the runs that do at their tasks, or  *)
(* interrupts one.                                                         *)
Interrupts(x) ==
  /\ task[x]' \in Deleting => task[x]' = task[x] /\ dag[x]' = dag[x] /\ subject[x]' = subject[x]
  /\ task[x] \in Deleting =>
       task[x]' = task[x] \/ (task[x]' = "failed" /\ count'["faults"] > 0)

Quiet ==
  /\ rows' = rows
  /\ count["faults"] > 0 => count'["faults"] > 0
  /\ count["requestRemovals"] > 0 => count'["requestRemovals"] > 0
  /\ \A x \in Asks : Interrupts(x)

LEMMA QuietKeepsLeftovers ==
  ASSUME Runs, Leftovers, Quiet, \A x \in Asks : Lasting(x)
  PROVE  Leftovers'
<1>1. ASSUME NEW x \in Asks PROVE Progress(x)'
  <2>1. Progress(x) /\ Interrupts(x) /\ rows' = rows
    BY DEF Leftovers, Quiet
  <2> QED
    BY <2>1 DEF Progress, Interrupts, Deleting
<1>2. ASSUME NEW x \in Asks, NEW r \in Requests, subject[x] = r
      PROVE  /\ subject'[x] = r /\ dag'[x] = dag[x]
             /\ task[x] = "failed" => task'[x] = "failed"
             /\ task[x] \in Deleting =>
                  task'[x] = task[x] \/ (task'[x] = "failed" /\ count'["faults"] > 0)
  BY <1>2, NoneAssumption DEF Runs, Controlled, Lasting, Quiet, Interrupts
<1>3. count["faults"] > 0 => count'["faults"] > 0
  BY DEF Quiet
<1>4. ASSUME NEW r \in Requests PROVE Ordered(r)' /\ Afterwards(r)' /\ Explained(r)'
  <2>1. Ordered(r) /\ Afterwards(r) /\ Explained(r) /\ rows' = rows
    BY DEF Leftovers, Quiet
  <2>2. Ordered(r)'
    BY <2>1 DEF Ordered
  <2>3. Interrupted(r) => Interrupted(r)'
    BY <1>2, <1>3 DEF Interrupted
  <2>4. LeftBehind(r) => LeftBehind(r)'
    BY <1>2, <2>1 DEF LeftBehind
  <2>5. ASSUME NEW tasks \in SUBSET Deleting, AtWork(r, tasks)
        PROVE  (\E x \in Asks : subject'[x] = r /\ task'[x] \in tasks) \/ Interrupted(r)'
    BY <1>2, <2>5 DEF AtWork, Interrupted
  <2>6. Afterwards(r)'
    BY <2>1, <2>3, <2>4, <2>5 DEF Afterwards, AtWork, Deleting
  <2>7. Explained(r)'
    <3>1. count["requestRemovals"] > 0 => count'["requestRemovals"] > 0
      BY DEF Quiet
    <3> QED
      BY <2>1, <2>3, <2>4, <2>5, <3>1 DEF Explained, AtWork
  <2> QED
    BY <2>2, <2>6, <2>7
<1> QED
  BY <1>1, <1>4 DEF Leftovers

LEMMA RemovalKeepsLeftovers ==
  ASSUME Runs, Leftovers, NEW q \in Requests, RemoveRequest(q)
  PROVE  Leftovers'
<1>1. /\ rows' = [rows EXCEPT ![q] = Rows \ {"request"}]
      /\ rows[q] = Rows
      /\ count'["faults"] = count["faults"] /\ count'["requestRemovals"] > 0
      /\ UNCHANGED <<task, subject, dag>>
  <2>1. rows[q] = Rows
    BY DEF RemoveRequest, Leftovers, Ordered
  <2> QED
    BY <2>1 DEF RemoveRequest, Loses, Count, Runs, RunTypes, Events, runs
<1>2. ASSUME NEW x \in Asks PROVE Progress(x)'
  <2>1. Progress(x)
    BY DEF Leftovers
  <2>2. rows'[subject[x]] \subseteq rows[subject[x]] \/ task[x] \notin Deleting
    BY <1>1 DEF Runs, RunTypes, Controlled
  <2> QED
    BY <1>1, <2>1, <2>2 DEF Progress, Deleting
<1>3. Ordered(q)' /\ Afterwards(q)' /\ Explained(q)'
  BY <1>1 DEF Ordered, Afterwards, Explained, Rows, Runs, RunTypes
<1>4. ASSUME NEW r \in Requests, r # q PROVE Ordered(r)' /\ Afterwards(r)' /\ Explained(r)'
  <2>1. Ordered(r) /\ Afterwards(r) /\ Explained(r) /\ rows'[r] = rows[r]
    BY <1>1, <1>4 DEF Leftovers, Runs, RunTypes
  <2> QED
    BY <1>1, <2>1 DEF Ordered, Afterwards, Explained, AtWork, Interrupted, LeftBehind
<1> QED
  BY <1>2, <1>3, <1>4 DEF Leftovers

(* What a step of the deletion does: x goes from one task to the next, and *)
(* deletes some rows of its subject.                                       *)
Deletes(x, gone, from, to) ==
  /\ subject[x] \in Requests
  /\ task[x] = from
  /\ task' = [task EXCEPT ![x] = to]
  /\ rows' = [rows EXCEPT ![subject[x]] = @ \ gone]
  /\ UNCHANGED <<subject, dag, count>>

(* It leaves other requests, and the runs about them, as they were.        *)
LEMMA DeletionElsewhere ==
  ASSUME Runs, Leftovers, NEW x \in Asks, NEW gone, NEW from, NEW to,
         Deletes(x, gone, from, to), NEW r \in Requests, r # subject[x]
  PROVE  Ordered(r)' /\ Afterwards(r)' /\ Explained(r)'
<1>1. /\ Ordered(r) /\ Afterwards(r) /\ Explained(r)
      /\ rows'[r] = rows[r] /\ UNCHANGED <<subject, dag, count>>
      /\ \A y \in Asks : subject[y] = r => task'[y] = task[y]
  BY DEF Leftovers, Deletes, Runs, RunTypes
<1>2. Ordered(r)'
  BY <1>1 DEF Ordered
<1>3. /\ Interrupted(r) => Interrupted(r)'
      /\ LeftBehind(r) => LeftBehind(r)'
      /\ AtWork(r, Deleting) => AtWork(r, Deleting)'
      /\ AtWork(r, {"deleteInstances", "deleteConfig"}) =>
           AtWork(r, {"deleteInstances", "deleteConfig"})'
  BY <1>1 DEF Interrupted, LeftBehind, AtWork
<1> QED
  BY <1>1, <1>2, <1>3 DEF Afterwards, Explained

(* For the runs about its own, what they have deleted stays deleted.       *)
LEMMA DeletionProgress ==
  ASSUME Runs, Leftovers, NEW x \in Asks, NEW gone, NEW from, NEW to,
         Deletes(x, gone, from, to), NEW y \in Asks, y # x
  PROVE  Progress(y)'
<1>1. /\ Progress(y)
      /\ rows'[subject[y]] \subseteq rows[subject[y]] \/ task[y] \notin Deleting
  BY DEF Leftovers, Deletes, Runs, RunTypes, Controlled
<1> QED
  BY <1>1 DEF Deletes, Progress, Deleting, Runs, RunTypes

(* Until a run has come to the instances, rows without resources stay as   *)
(* well accounted for as they are.                                         *)
LEMMA DeletionBefore ==
  ASSUME Runs, Leftovers, NEW x \in Asks, NEW from, NEW to,
         NEW gone \in SUBSET {"request", "repository", "resources"},
         Deletes(x, gone, from, to), from \in Deleting \ {"deleteInstances", "deleteConfig"},
         "resources" \notin rows[subject[x]]
  PROVE  \/ AtWork(subject[x], {"deleteInstances", "deleteConfig"})'
         \/ Interrupted(subject[x])' \/ rows'[subject[x]] = {} \/ LeftBehind(subject[x])'
<1> DEFINE r == subject[x]
<1>1. /\ r \in Requests /\ task[x] = from /\ rows'[r] = rows[r] \ gone
      /\ UNCHANGED <<subject, dag, count>>
      /\ \A y \in Asks : y # x => task'[y] = task[y]
      /\ subject'[x] = r
  BY DEF Deletes, Runs, RunTypes
<1>2. from \notin {"failed", "deleteInstances", "deleteConfig"}
  BY DEF Deleting
<1>3. AtWork(r, {"deleteInstances", "deleteConfig"}) \/ Interrupted(r) \/ rows[r] = {} \/ LeftBehind(r)
  BY <1>1 DEF Leftovers, Afterwards
<1> HIDE DEF r
<1>4. AtWork(r, {"deleteInstances", "deleteConfig"}) =>
        AtWork(r, {"deleteInstances", "deleteConfig"})'
  <2>1. r' = r
    BY <1>1 DEF r
  <2> QED
    BY <1>1, <1>2, <2>1 DEF AtWork
<1>5. Interrupted(r) => Interrupted(r)'
  BY <1>1, <1>2 DEF Interrupted, r
<1>6. LeftBehind(r) => LeftBehind(r)'
  BY <1>1 DEF LeftBehind, r
<1> QED
  BY <1>1, <1>3, <1>4, <1>5, <1>6 DEF r

(* A deletion keeps all accounts.                                          *)
LEMMA DeletionKeepsLeftovers ==
  ASSUME Runs, Leftovers, NEW x \in Asks, NEW gone, NEW from, NEW to,
         Deletes(x, gone, from, to),
         Progress(x)', Ordered(subject[x])', Afterwards(subject[x])', Explained(subject[x])'
  PROVE  Leftovers'
<1>1. \A y \in Asks : Progress(y)'
  BY DeletionProgress
<1>2. ASSUME NEW r \in Requests PROVE Ordered(r)' /\ Afterwards(r)' /\ Explained(r)'
  <2>1. subject' = subject
    BY DEF Deletes
  <2>2. CASE r = subject[x]
    BY <2>1, <2>2
  <2>3. CASE r # subject[x]
    BY <2>3, DeletionElsewhere
  <2> QED
    BY <2>2, <2>3
<1> QED
  BY <1>1, <1>2 DEF Leftovers

(* What every deletion has in common: where the accounts of its subject    *)
(* stand, and where it brings the rows.                                    *)
LEMMA DeletionFacts ==
  ASSUME Runs, Leftovers, NEW x \in Asks, NEW gone, NEW from, NEW to,
         Deletes(x, gone, from, to)
  PROVE  /\ subject[x] \in Requests /\ subject'[x] = subject[x] /\ dag'[x] = dag[x]
         /\ task[x] = from /\ task'[x] = to
         /\ rows'[subject[x]] = rows[subject[x]] \ gone
         /\ gone = {} => rows'[subject[x]] = rows[subject[x]]
         /\ rows[subject[x]] \subseteq Rows
         /\ Progress(x) /\ Ordered(subject[x]) /\ Afterwards(subject[x])
         /\ Explained(subject[x])
<1>1. /\ subject[x] \in Requests /\ subject'[x] = subject[x] /\ dag'[x] = dag[x]
      /\ task[x] = from /\ task'[x] = to
      /\ rows'[subject[x]] = rows[subject[x]] \ gone
      /\ rows[subject[x]] \subseteq Rows
  BY DEF Runs, RunTypes, Deletes
<1>2. gone = {} => rows[subject[x]] \ gone = rows[subject[x]]
  OBVIOUS
<1> QED
  BY <1>1, <1>2 DEF Leftovers

LEMMA DeleteRequestLeftovers ==
  ASSUME Runs, Leftovers, NEW x \in Asks, DeleteRequest(x)
  PROVE  Leftovers'
<1>1. Deletes(x, {"request"}, "deleteRequest", "deleteRepository")
  BY DEF Runs, Controlled, DeleteRequest, Deletes, Loses, Goto, Deleting, runs
<1> DEFINE r == subject[x]
           R == rows[r]
<1>2. /\ r \in Requests /\ subject'[x] = r /\ task'[x] = "deleteRepository"
      /\ rows'[r] = R \ {"request"} /\ R \subseteq Rows /\ Ordered(r)
  BY <1>1, DeletionFacts
<1>3. Progress(x)'
  BY <1>2 DEF Progress, Deleting
<1>4. Ordered(r)'
  BY <1>2 DEF Ordered, Rows
<1>5. Explained(r)'
  BY <1>2 DEF Explained, AtWork, Deleting
<1>6. Afterwards(r)'
  <2>1. "resources" \notin rows'[r] => "resources" \notin R
    BY <1>2
  <2>2. {"request"} \in SUBSET {"request", "repository", "resources"}
    OBVIOUS
  <2> HIDE DEF r
  <2> QED
    BY <1>1, <1>2, <2>1, <2>2, DeletionBefore DEF Afterwards, Deleting, r
<1> QED
  BY <1>1, <1>3, <1>4, <1>5, <1>6, DeletionKeepsLeftovers

LEMMA DeleteRepositoryLeftovers ==
  ASSUME Runs, Leftovers, NEW x \in Asks, DeleteRepository(x)
  PROVE  Leftovers'
<1> DEFINE r == subject[x]
           R == rows[r]
<1>1. CASE r \in Deployed
  <2>1. Deletes(x, {}, "deleteRepository", "failed")
    BY <1>1 DEF Runs, RunTypes, Controlled, DeleteRepository, Deletes, Goto, Deleting, runs
  <2>2. /\ r \in Requests /\ subject'[x] = r /\ task'[x] = "failed"
        /\ rows'[r] = R /\ R \subseteq Rows /\ Ordered(r) /\ "request" \notin R
    BY <2>1, DeletionFacts DEF Progress, Deleting
  <2>3. Progress(x)'
    BY <2>2 DEF Progress, Deleting
  <2>4. Ordered(r)'
    BY <2>2 DEF Ordered
  <2>5. R = Rows \ {"request"}
    BY <1>1, <2>2 DEF Ordered, Rows
  <2>6. Explained(r)' /\ Afterwards(r)'
    BY <1>1, <2>2, <2>5 DEF Explained, Afterwards, Rows
  <2> QED
    BY <2>1, <2>3, <2>4, <2>6, DeletionKeepsLeftovers
<1>2. CASE r \notin Deployed
  <2>1. Deletes(x, {"repository"}, "deleteRepository", "deleteResources")
    BY <1>2 DEF Runs, Controlled, DeleteRepository, Deletes, Loses, Goto, Deleting, runs
  <2>2. /\ r \in Requests /\ subject'[x] = r /\ task'[x] = "deleteResources"
        /\ rows'[r] = R \ {"repository"} /\ R \subseteq Rows /\ Ordered(r)
        /\ "request" \notin R
    BY <2>1, DeletionFacts DEF Progress, Deleting
  <2>3. Progress(x)'
    BY <1>2, <2>2 DEF Progress, Deleting
  <2>4. Ordered(r)'
    BY <1>2, <2>2 DEF Ordered
  <2>5. Explained(r)'
    BY <2>2 DEF Explained, AtWork, Deleting
  <2>6. Afterwards(r)'
    <3>1. "resources" \notin rows'[r] => "resources" \notin R
      BY <2>2
    <3> HIDE DEF r
    <3> QED
      BY <2>1, <2>2, <3>1, DeletionBefore DEF Afterwards, Deleting, r
  <2> QED
    BY <2>1, <2>3, <2>4, <2>5, <2>6, DeletionKeepsLeftovers
<1> QED
  BY <1>1, <1>2

LEMMA DeleteResourcesLeftovers ==
  ASSUME Runs, Leftovers, NEW x \in Asks, DeleteResources(x)
  PROVE  Leftovers'
<1> DEFINE r == subject[x]
           R == rows[r]
<1>1. CASE "resources" \notin R
  <2>1. Deletes(x, {}, "deleteResources", "failed")
    BY <1>1 DEF Runs, RunTypes, Controlled, DeleteResources, Deletes, Goto, Deleting, runs
  <2>2. /\ r \in Requests /\ subject'[x] = r /\ task'[x] = "failed"
        /\ rows'[r] = R /\ R \subseteq Rows /\ Ordered(r)
    BY <2>1, DeletionFacts
  <2>3. Progress(x)'
    BY <2>2 DEF Progress, Deleting
  <2>4. Ordered(r)'
    BY <2>2 DEF Ordered
  <2>5. \/ AtWork(r, {"deleteInstances", "deleteConfig"})'
        \/ Interrupted(r)' \/ rows'[r] = {} \/ LeftBehind(r)'
    BY <1>1, <2>1, DeletionBefore DEF Deleting
  <2>6. Explained(r)' /\ Afterwards(r)'
    <3>1. AtWork(r, {"deleteInstances", "deleteConfig"})' => AtWork(r, Deleting)'
      BY DEF AtWork, Deleting
    <3> QED
      BY <2>2, <2>5, <3>1 DEF Explained, Afterwards
  <2> QED
    BY <2>1, <2>3, <2>4, <2>6, DeletionKeepsLeftovers
<1>2. CASE "resources" \in R
  <2>1. Deletes(x, {"resources"}, "deleteResources", "deleteInstances")
    BY <1>2 DEF Runs, Controlled, DeleteResources, Deletes, Loses, Goto, Deleting, runs
  <2>2. /\ r \in Requests /\ subject'[x] = r /\ task'[x] = "deleteInstances"
        /\ rows'[r] = R \ {"resources"} /\ R \subseteq Rows /\ Ordered(r)
        /\ "request" \notin R /\ "repository" \notin R /\ r \notin Deployed
    BY <2>1, DeletionFacts DEF Progress, Deleting
  <2>3. Progress(x)'
    BY <2>2 DEF Progress, Deleting
  <2>4. Ordered(r)'
    BY <2>2 DEF Ordered
  <2>5. Explained(r)' /\ Afterwards(r)'
    BY <2>2 DEF Explained, Afterwards, AtWork, Deleting
  <2> QED
    BY <2>1, <2>3, <2>4, <2>5, DeletionKeepsLeftovers
<1> QED
  BY <1>1, <1>2

LEMMA DeleteInstancesLeftovers ==
  ASSUME Runs, Leftovers, NEW x \in Asks, DeleteInstances(x)
  PROVE  Leftovers'
<1> DEFINE r == subject[x]
           R == rows[r]
           gone == IF dag[x] = Provider[r] THEN {"instances"} ELSE {}
<1>1. Deletes(x, gone, "deleteInstances", "deleteConfig")
  BY DEF Runs, RunTypes, Controlled, DeleteInstances, Deletes, Loses, Goto, Deleting, runs
<1>2. /\ r \in Requests /\ subject'[x] = r /\ dag'[x] = dag[x] /\ task'[x] = "deleteConfig"
      /\ rows'[r] = R \ gone /\ R \subseteq Rows /\ Ordered(r)
      /\ "request" \notin R /\ "repository" \notin R /\ "resources" \notin R
      /\ r \notin Deployed
  BY <1>1, DeletionFacts DEF Progress, Deleting
<1>3. Progress(x)'
  BY <1>2 DEF Progress, Deleting
<1>4. Ordered(r)'
  BY <1>2 DEF Ordered
<1>5. Explained(r)' /\ Afterwards(r)'
  BY <1>2 DEF Explained, Afterwards, AtWork, Deleting
<1> QED
  BY <1>1, <1>3, <1>4, <1>5, DeletionKeepsLeftovers

LEMMA DeleteConfigLeftovers ==
  ASSUME Runs, Leftovers, NEW x \in Asks, DeleteConfig(x)
  PROVE  Leftovers'
<1> DEFINE r == subject[x]
           R == rows[r]
<1>1. CASE "instances" \in R /\ Provider[r] = "AWS" /\ "vm" \in Wanted[r]
  <2>1. Deletes(x, {}, "deleteConfig", "failed")
    BY <1>1 DEF Runs, RunTypes, Controlled, DeleteConfig, Deletes, Goto, Deleting, runs
  <2>2. /\ r \in Requests /\ subject'[x] = r /\ dag'[x] = dag[x] /\ task'[x] = "failed"
        /\ rows'[r] = R /\ R \subseteq Rows /\ Ordered(r)
        /\ "request" \notin R /\ "repository" \notin R /\ "resources" \notin R
        /\ dag[x] # Provider[r]
    BY <1>1, <2>1, DeletionFacts DEF Progress, Deleting
  <2>3. Progress(x)'
    BY <2>2 DEF Progress, Deleting
  <2>4. Ordered(r)'
    BY <2>2 DEF Ordered
  <2>5. R = {"instances", "config"}
    BY <1>1, <2>2 DEF Ordered, Rows
  <2>6. LeftBehind(r)'
    BY <2>2, <2>5 DEF LeftBehind
  <2>7. Explained(r)' /\ Afterwards(r)'
    BY <2>6 DEF Explained, Afterwards
  <2> QED
    BY <2>1, <2>3, <2>4, <2>7, DeletionKeepsLeftovers
<1>2. CASE ~("instances" \in R /\ Provider[r] = "AWS" /\ "vm" \in Wanted[r])
  <2>1. Deletes(x, {"instances", "config"}, "deleteConfig", "success")
    BY <1>2 DEF Runs, Controlled, DeleteConfig, Deletes, Loses, Goto, Deleting, runs
  <2>2. /\ r \in Requests /\ subject'[x] = r /\ task'[x] = "success"
        /\ rows'[r] = R \ {"instances", "config"} /\ R \subseteq Rows
        /\ "request" \notin R /\ "repository" \notin R /\ "resources" \notin R
        /\ r \notin Deployed
    BY <2>1, DeletionFacts DEF Progress, Deleting
  <2>3. rows'[r] = {}
    BY <2>2 DEF Rows
  <2>4. Progress(x)'
    BY <2>2 DEF Progress, Deleting
  <2>5. Ordered(r)' /\ Explained(r)' /\ Afterwards(r)'
    BY <2>2, <2>3 DEF Ordered, Explained, Afterwards
  <2> QED
    BY <2>1, <2>4, <2>5, DeletionKeepsLeftovers
<1> QED
  BY <1>1, <1>2

(* The run has found its request and deletes nothing yet.                  *)
Selects(x) == SelectRequest(x) /\ subject[x] # None /\ "request" \in rows[subject[x]]

LEMMA SelectRequestLeftovers ==
  ASSUME Runs, Leftovers, NEW x \in Asks, Selects(x)
  PROVE  Leftovers'
<1> DEFINE r == subject[x]
<1>1. Deletes(x, {}, "delete", "deleteRequest")
  <2>1. r \in Requests /\ rows \in [Requests -> SUBSET Rows]
    BY DEF Selects, Runs, RunTypes
  <2>2. rows = [rows EXCEPT ![r] = @ \ {}]
    BY <2>1
  <2> QED
    BY <2>1, <2>2 DEF Selects, SelectRequest, Goto, Deletes, runs
<1>2. /\ subject'[x] = r /\ task'[x] = "deleteRequest" /\ rows'[r] = rows[r]
      /\ Ordered(r)
  BY <1>1, DeletionFacts
<1>3. rows'[r] = Rows
  BY <1>2 DEF Selects, Ordered
<1>4. Progress(x)'
  BY <1>2 DEF Progress
<1>5. Ordered(r)' /\ Afterwards(r)' /\ Explained(r)'
  BY <1>2, <1>3 DEF Ordered, Afterwards, Explained, Rows
<1> QED
  BY <1>1, <1>4, <1>5, DeletionKeepsLeftovers

(* Every other step is quiet.                                              *)
LEMMA OthersAreQuiet ==
  ASSUME Runs, [TeardownNext]_allVars
  PROVE  \/ Quiet
         \/ \E r \in Requests : RemoveRequest(r)
         \/ \E x \in Asks : \/ Selects(x) \/ DeleteRequest(x) \/ DeleteRepository(x)
                             \/ DeleteResources(x) \/ DeleteInstances(x) \/ DeleteConfig(x)
<1> USE DEF Deleting
<1>0. RunTypes
  BY DEF Runs
<1>1. ASSUME UNCHANGED <<rows, task, dag, subject, count>> PROVE Quiet
  BY <1>1 DEF Quiet, Interrupts
<1>2. ASSUME NEW x \in Asks, NEW r \in Requests, Ask(x, r) PROVE Quiet
  BY <1>0, <1>2 DEF Ask, Goto, Quiet, Interrupts, RunTypes
<1>3. ASSUME NEW x \in Asks, Publish(x) \/ StartRun(x) PROVE Quiet
  BY <1>0, <1>3 DEF Publish, StartRun, Goto, runs, Quiet, Interrupts, RunTypes
<1>4. ASSUME UNCHANGED rows, NEW x \in Asks, Elsewhere(x), Interrupts(x),
             UNCHANGED count \/ Count("faults", MaxFaults)
      PROVE  Quiet
  <2>1. \A y \in Asks : Interrupts(y)
    BY <1>4 DEF Elsewhere, Interrupts
  <2>2. /\ count["faults"] > 0 => count'["faults"] > 0
        /\ count["requestRemovals"] > 0 => count'["requestRemovals"] > 0
    BY <1>0, <1>4 DEF Count, RunTypes, Events
  <2> QED
    BY <1>4, <2>1, <2>2 DEF Quiet
<1>5. ASSUME NEW x \in Asks, Consume(x) \/ Name(x) \/ Branch(x) \/ DestroyGroup(x) \/ Clean(x)
      PROVE  Quiet
  <2>1. Elsewhere(x)
    BY <1>5, WorkElsewhere DEF Work
  <2>2. UNCHANGED <<rows, count>>
    BY <1>5 DEF Consume, Name, Branch, DestroyGroup, Clean
  <2>3. task[x] \notin Deleting /\ task'[x] \notin Deleting
    BY <1>0, <1>5 DEF Consume, Name, Branch, DestroyGroup, Clean, Goto, Breaks, AfterFailure, RunTypes
  <2> QED
    BY <1>4, <2>1, <2>2, <2>3 DEF Interrupts
<1>6. ASSUME NEW x \in Asks, SelectRequest(x), ~Selects(x)
      PROVE  Quiet
  <2>1. Elsewhere(x)
    BY <1>6, WorkElsewhere DEF Work, DeleteStep
  <2> QED
    BY <1>0, <1>4, <1>6, <2>1 DEF Selects, SelectRequest, Goto, Interrupts, RunTypes
<1>7. ASSUME NEW x \in Asks, NEW k \in Kinds, Destroy(x, k) \/ DestroyFails(x, k) PROVE Quiet
  <2>1. PICK well \in BOOLEAN : DestroyEnds(x, k, well)
    BY <1>7 DEF Destroy, DestroyFails, Destroyable, Exists
  <2>2. Elsewhere(x)
    BY <1>7, WorkElsewhere DEF Work, Faults
  <2>3. UNCHANGED count \/ Count("faults", MaxFaults)
    BY <1>7 DEF Destroy, DestroyFails
  <2>4. Interrupts(x) /\ UNCHANGED rows
    BY <1>0, <2>1 DEF DestroyEnds, AfterDestroy, AfterFailure, Goto, Interrupts, RunTypes
  <2> QED
    BY <1>4, <2>2, <2>3, <2>4
<1>8. ASSUME NEW x \in Asks, LoseMessage(x) \/ LoseTrigger(x) \/ ConsumeDies(x) PROVE Quiet
  <2>1. Elsewhere(x)
    BY <1>8, WorkElsewhere DEF Faults
  <2>2. Interrupts(x) /\ UNCHANGED rows
    BY <1>0, <1>8 DEF LoseMessage, LoseTrigger, ConsumeDies, Breaks, AfterFailure, Goto,
                      Interrupts, RunTypes, runs
  <2>3. Count("faults", MaxFaults)
    BY <1>8 DEF LoseMessage, LoseTrigger, ConsumeDies
  <2> QED
    BY <1>4, <2>1, <2>2, <2>3
<1>9. ASSUME NEW x \in Asks, TaskFails(x) PROVE Quiet
  <2>1. Elsewhere(x)
    BY <1>9, WorkElsewhere DEF Faults
  <2>2. Count("faults", MaxFaults) /\ UNCHANGED <<rows, subject, dag>>
    BY <1>9 DEF TaskFails
  <2>3. count'["faults"] > 0
    BY <1>0, <2>2 DEF Count, RunTypes, Events
  <2>4. \/ task[x] \notin Deleting /\ task'[x] \notin Deleting
        \/ task[x] \in Deleting /\ task'[x] = "failed"
    BY <1>0, <1>9 DEF TaskFails, Breaks, AfterFailure, Goto, RunTypes
  <2> QED
    BY <1>4, <2>1, <2>2, <2>3, <2>4 DEF Interrupts
<1>10. ASSUME NEW i \in ChildRuns, UNCHANGED <<rows, asked, publishing, queue, task, runs>>,
              Provision(i)
       PROVE  Quiet
  <2>1. UNCHANGED count \/ C!Count("faults", MaxFaults)
    BY <1>10 DEF Provision, Start, C!Start, C!RunStep, C!Fetch, C!WriteFiles, C!Apply,
                 C!Record, C!Faults, C!WriteFilesTwice, C!TaskFails, ProvisionFails
  <2>2. /\ count["faults"] > 0 => count'["faults"] > 0
        /\ count["requestRemovals"] > 0 => count'["requestRemovals"] > 0
    BY <1>0, <2>1 DEF C!Count, RunTypes, Events
  <2> QED
    BY <1>10, <2>2 DEF Quiet, Interrupts, runs
<1>11. CASE UNCHANGED allVars
  BY <1>1, <1>11 DEF allVars, vars, runs
<1> QED
  BY <1>2, <1>3, <1>5, <1>6, <1>7, <1>8, <1>9, <1>10, <1>11
     DEF TeardownNext, Next, Work, Faults, DeleteStep

LEMMA LeftoversInitially == TeardownInit => Leftovers
  BY NoneAssumption DEF TeardownInit, Init, Leftovers, Progress, Ordered, Afterwards, Explained,
                        Deleting, Rows

LEMMA LeftoversInductive ==
  ASSUME Runs, Leftovers, [TeardownNext]_allVars
  PROVE  Leftovers'
<1>1. CASE Quiet
  BY <1>1, RunsLast, QuietKeepsLeftovers
<1>2. ASSUME NEW r \in Requests, RemoveRequest(r) PROVE Leftovers'
  BY <1>2, RemovalKeepsLeftovers
<1>3. ASSUME NEW x \in Asks,
             \/ Selects(x) \/ DeleteRequest(x) \/ DeleteRepository(x)
             \/ DeleteResources(x) \/ DeleteInstances(x) \/ DeleteConfig(x)
      PROVE  Leftovers'
  BY <1>3, SelectRequestLeftovers, DeleteRequestLeftovers, DeleteRepositoryLeftovers,
     DeleteResourcesLeftovers, DeleteInstancesLeftovers, DeleteConfigLeftovers
<1> QED
  BY <1>1, <1>2, <1>3, OthersAreQuiet

(* Rows of a request are left halfway only by a run that is at work or was *)
(* interrupted, by the removal of the request alone, by a deployment of    *)
(* its repository, or by a run of the other cloud (LeftoverRowsExplained). *)
THEOREM LeftoversAreExplained == TeardownSpec => []LeftoverRowsExplained
<1>1. Leftovers => LeftoverRowsExplained
  BY DEF Leftovers, Explained, AtWork, Interrupted, LeftBehind, LeftoverRowsExplained
<1>2. Invariant /\ Leftovers /\ [TeardownNext]_allVars => Leftovers'
  BY LeftoversInductive DEF Invariant
<1> QED
  BY <1>1, <1>2, LeftoversInitially, InvariantInitially, InvariantInductive, PTL
     DEF TeardownSpec
=============================================================================
