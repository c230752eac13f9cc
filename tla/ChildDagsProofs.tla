--------------------------- MODULE ChildDagsProofs ---------------------------
(***************************************************************************)
(* Theorems about ChildDags, for any requests, names and runs: what the    *)
(* rows say about the cloud, with and without shared directories.          *)
(***************************************************************************)
EXTENDS ChildDags, TLAPS

Objects == Requests \X Kinds

(* The stages of a run that has written its files.                         *)
Late == {"apply", "record", "success", "failed"}

(* A run that was created is about a request and a kind; one that is to    *)
(* apply has files to apply.                                               *)
RunsHaveWork ==
  \A i \in ChildRuns :
    /\ stage[i] # "none" => about[i] \in Objects
    /\ stage[i] = "apply" => store.files[DirOf(i)] \in Requests

(* A run about request r has written its files into directory d.           *)
WrittenBy(d, r) == \E i \in ChildRuns : stage[i] \in Late /\ about[i] = <<r, d[2]>>

(* Files and state of a directory are those of a request whose directory   *)
(* it is, and that some run was about; what the state lists exists.        *)
DirsMatch ==
  \A d \in Dirs :
    /\ store.files[d] # None =>
         Directory(store.files[d], d[2]) = d /\ WrittenBy(d, store.files[d])
    /\ store.state[d] # None =>
         /\ Directory(store.state[d], d[2]) = d /\ WrittenBy(d, store.state[d])
         /\ <<store.state[d], d[2]>> \in store.cloud

(* Only the kinds of instances are provisioned.                            *)
CloudKinds == store.cloud \subseteq Objects

(* The state of a directory lists what is left of it at the cloud provider.*)
Listed == \A o \in store.cloud : store.state[Directory(o[1], o[2])] = o[1]

(* Main files are those of runs that wrote there; they clash only where    *)
(* there are two such runs, or a task that failed.                         *)
MainsExplained ==
  \A d \in Dirs :
    /\ store.mains[d] # {} => \E i \in ChildRuns : stage[i] \in Late /\ DirOf(i) = d
    /\ store.mains[d] \ {"main"} # {} =>
         \E i \in ChildRuns :
           stage[i] \in Late /\ DirOf(i) = d /\ Stamped(about[i][1], about[i][2])
    /\ Clashes(store, d) => count["faults"] > 0 \/ WrittenByTwo(d)

Recording ==
  /\ DirsMatch /\ CloudKinds /\ Listed /\ MainsExplained
  /\ RecordedIsReal /\ UnrecordedExplained /\ LostOnlyByTakeover

LEMMA DirectoryType ==
  ASSUME NEW o \in Objects
  PROVE  Directory(o[1], o[2]) \in Dirs /\ Directory(o[1], o[2])[2] = o[2] /\ o = <<o[1], o[2]>>
BY DEF Objects, Directory, Dirs, Names, TfKinds

(* Two requests are in one directory only if they share a name and the     *)
(* kind is the same.                                                       *)
LEMMA DirectoryShared ==
  ASSUME NEW o \in Objects, NEW p \in Objects, Directory(o[1], o[2]) = Directory(p[1], p[2])
  PROVE  o[2] = p[2] /\ (Alone(o[1]) => p = o) /\ (Alone(p[1]) => p = o)
BY DEF Objects, Directory, Alone

(* What writing for request r into directory d may do to a store: the      *)
(* files of other directories, states and resources are left alone.        *)
WritesInto(s, u, d, r) ==
  /\ u \in Stores
  /\ \A e \in Dirs : e # d => u.files[e] = s.files[e] /\ u.mains[e] = s.mains[e]
  /\ u.files[d] \in {s.files[d], r}
  /\ u.mains[d] \subseteq
       s.mains[d] \cup (IF Stamped(r, d[2]) THEN {"stamped", "later"} ELSE {"main"})
  /\ u.state = s.state /\ u.cloud = s.cloud

LEMMA SettingsWrittenEffects ==
  ASSUME NEW s \in Stores, NEW d \in Dirs, NEW r \in Requests
  PROVE  /\ WritesInto(s, SettingsWritten(s, d, r), d, r)
         /\ SettingsWritten(s, d, r).files[d] \in Requests
         /\ SettingsWritten(s, d, r).mains = s.mains
<1> DEFINE x == IF Keeps(s.files[d], r, d[2]) THEN s.files[d] ELSE r
<1>1. x \in Requests /\ x \in {s.files[d], r}
  BY DEF Stores, Keeps
<1>2. SettingsWritten(s, d, r) = [s EXCEPT !.files = [s.files EXCEPT ![d] = x]]
  BY DEF SettingsWritten, Stores
<1> HIDE DEF x
<1>3. QED
  BY <1>1, <1>2 DEF Stores, WritesInto

(* A main file is added to the settings.                                   *)
LEMMA WrittenEffects ==
  ASSUME NEW s \in Stores, NEW d \in Dirs, NEW r \in Requests
  PROVE  /\ WritesInto(s, Written(s, d, r), d, r)
         /\ Written(s, d, r).files[d] \in Requests
         /\ Written(s, d, r).mains[d] = s.mains[d] \cup {MainFile(s.mains[d], r, d[2])}
<1> DEFINE u == SettingsWritten(s, d, r)
           f == MainFile(s.mains[d], r, d[2])
<1>1. WritesInto(s, u, d, r) /\ u.files[d] \in Requests /\ u.mains = s.mains
  BY SettingsWrittenEffects
<1>2. f \in MainFiles /\ f \in (IF Stamped(r, d[2]) THEN {"stamped", "later"} ELSE {"main"})
  BY DEF MainFile, MainFiles
<1>3. Written(s, d, r) = [u EXCEPT !.mains = [s.mains EXCEPT ![d] = s.mains[d] \cup {f}]]
  BY <1>1 DEF Written, WritesInto, Stores
<1> HIDE DEF u, f
<1>4. QED
  BY <1>1, <1>2, <1>3 DEF Stores, WritesInto, f

(* The same of a task that fails, and whose retry may write again.         *)
LEMMA PartlyWrittenEffects ==
  ASSUME NEW s \in Stores, NEW d \in Dirs, NEW r \in Requests,
         NEW u \in PartlyWritten(s, d, r)
  PROVE  WritesInto(s, u, d, r)
<1>1. u \in {s, SettingsWritten(s, d, r), Written(s, d, r), Written(Written(s, d, r), d, r)}
  BY DEF PartlyWritten
<1>2. WritesInto(s, s, d, r)
  BY DEF WritesInto
<1>3. WritesInto(s, SettingsWritten(s, d, r), d, r) /\ WritesInto(s, Written(s, d, r), d, r)
  BY SettingsWrittenEffects, WrittenEffects
<1> DEFINE v == Written(s, d, r)
<1>4. v \in Stores
  BY <1>3 DEF WritesInto
<1>5. WritesInto(v, Written(v, d, r), d, r)
  BY <1>4, WrittenEffects
<1> HIDE DEF v
<1>6. WritesInto(s, v, d, r)
  BY <1>3 DEF v
<1>7. WritesInto(s, Written(v, d, r), d, r)
  BY <1>5, <1>6 DEF WritesInto
<1>. QED
  BY <1>1, <1>2, <1>3, <1>7 DEF v

(* A run's own write, once or, when its task is retried, twice.            *)
LEMMA RunWrites ==
  ASSUME store \in Stores, NEW i \in ChildRuns, DirOf(i) \in Dirs, about[i][1] \in Requests,
         WriteFiles(i) \/ WriteFilesTwice(i)
  PROVE  /\ WritesInto(store, store', DirOf(i), about[i][1])
         /\ store'.files[DirOf(i)] \in Requests
<1> DEFINE d == DirOf(i)
           r == about[i][1]
           v == Written(store, d, r)
<1>1. WritesInto(store, v, d, r) /\ v.files[d] \in Requests /\ v \in Stores
  BY WrittenEffects DEF WritesInto
<1>2. WritesInto(v, Written(v, d, r), d, r) /\ Written(v, d, r).files[d] \in Requests
  BY <1>1, WrittenEffects
<1>3. store' = v \/ store' = Written(v, d, r)
  BY DEF WriteFiles, WriteFilesTwice
<1> HIDE DEF d, r, v
<1>4. WritesInto(store, Written(v, d, r), d, r)
  BY <1>1, <1>2 DEF WritesInto
<1>. QED
  BY <1>1, <1>2, <1>3, <1>4 DEF d, r

LEMMA AppliedEffects ==
  ASSUME NEW s \in Stores, NEW d \in Dirs, s.files[d] \in Requests
  PROVE  /\ Applied(s, d) \in Stores
         /\ Applied(s, d).files = s.files /\ Applied(s, d).mains = s.mains
         /\ Applied(s, d).state = [s.state EXCEPT ![d] = s.files[d]]
         /\ Applied(s, d).cloud =
              (s.cloud \ {<<s.state[d], d[2]>>}) \cup {<<s.files[d], d[2]>>}
<1>1. <<s.files[d], d[2]>> \in Requests \X TfKinds
  BY DEF Dirs
<1>2. (s.cloud \ {<<s.state[d], d[2]>>}) \cup {<<s.files[d], d[2]>>} \in SUBSET (Requests \X TfKinds)
  BY <1>1 DEF Stores
<1>. QED
  BY <1>2 DEF Stores, Applied

LEMMA CountType ==
  ASSUME count \in [Events -> Nat], NEW event \in Events, NEW bound, Count(event, bound)
  PROVE  count' \in [Events -> Nat]
BY DEF Count

(* Every step keeps the types.                                             *)
LEMMA TypeStep == TypeOK /\ RunsHaveWork /\ [Next]_vars => (TypeOK /\ RunsHaveWork)'
<1> USE NoneAssumption
<1> SUFFICES ASSUME TypeOK, RunsHaveWork, [Next]_vars PROVE TypeOK' /\ RunsHaveWork'
  OBVIOUS
<1> USE DEF TypeOK, Goto, Stages
<1>1. ASSUME UNCHANGED <<about, store>>,
             \A i \in ChildRuns : (stage'[i] # "none" => stage[i] # "none")
                                  /\ (stage'[i] = "apply" => stage[i] = "apply")
      PROVE  RunsHaveWork'
  BY <1>1 DEF RunsHaveWork, DirOf
<1>2. ASSUME NEW i \in ChildRuns, NEW r \in Requests, NEW k \in Kinds, Start(i, r, k)
      PROVE  TypeOK' /\ RunsHaveWork'
  <2>1. about' \in [ChildRuns -> (Requests \X Kinds) \cup {NoSubject}]
    BY <1>2 DEF Start
  <2>2. RunsHaveWork'
    BY <1>2 DEF Start, RunsHaveWork, DirOf, Objects
  <2>. QED
    BY <1>2, <2>1, <2>2 DEF Start
<1>3. ASSUME NEW i \in ChildRuns, Fetch(i) PROVE TypeOK' /\ RunsHaveWork'
  <2>1. RunsHaveWork'
    BY <1>1, <1>3 DEF Fetch
  <2>. QED
    BY <1>3, <2>1 DEF Fetch
<1>4. ASSUME NEW i \in ChildRuns, stage[i] # "none"
      PROVE  /\ about[i][1] \in Requests /\ DirOf(i) \in Dirs
  BY <1>4, DirectoryType DEF RunsHaveWork, DirOf, Objects
<1>5. ASSUME NEW i \in ChildRuns, stage[i] = "write",
             WritesInto(store, store', DirOf(i), about[i][1]), about' = about,
             \A j \in ChildRuns : j # i => stage'[j] = stage[j],
             stage'[i] = "apply" => store'.files[DirOf(i)] \in Requests
      PROVE  store' \in Stores /\ RunsHaveWork'
  <2>1. \A j \in ChildRuns : stage[j] # "none" => DirOf(j) \in Dirs
    BY <1>4
  <2>2. about[i][1] \in Requests /\ DirOf(i) \in Dirs
    BY <1>4, <1>5
  <2>3. \A j \in ChildRuns :
          stage'[j] = "apply" => store'.files[DirOf(j)] \in Requests
    BY <1>5, <2>1, <2>2 DEF RunsHaveWork, WritesInto
  <2>4. store' \in Stores
    BY <1>5 DEF WritesInto
  <2>. QED
    BY <1>5, <2>3, <2>4 DEF RunsHaveWork, DirOf
<1>5a. ASSUME NEW i \in ChildRuns, WriteFiles(i) \/ WriteFilesTwice(i)
       PROVE  TypeOK' /\ RunsHaveWork'
  <2>1. stage[i] = "write" /\ about' = about /\ stage' = [stage EXCEPT ![i] = "apply"]
    BY <1>5a DEF WriteFiles, WriteFilesTwice
  <2>2. about[i][1] \in Requests /\ DirOf(i) \in Dirs
    BY <1>4, <2>1
  <2>3. store' \in Stores /\ RunsHaveWork'
    BY <1>5, <1>5a, <2>1, <2>2, RunWrites
  <2>4. count' \in [Events -> Nat]
    BY <1>5a, CountType DEF WriteFiles, WriteFilesTwice, Events
  <2>. QED
    BY <1>5a, <2>1, <2>3, <2>4 DEF WriteFiles, WriteFilesTwice
<1>6. ASSUME NEW i \in ChildRuns, stage[i] = "apply", store' = Applied(store, DirOf(i)),
             about' = about, \A j \in ChildRuns : j # i => stage'[j] = stage[j],
             stage'[i] # "apply"
      PROVE  store' \in Stores /\ RunsHaveWork'
  <2>1. store.files[DirOf(i)] \in Requests /\ DirOf(i) \in Dirs
    BY <1>4, <1>6 DEF RunsHaveWork
  <2>2. store' \in Stores /\ store'.files = store.files
    BY <1>6, <2>1, AppliedEffects
  <2>. QED
    BY <1>6, <2>2 DEF RunsHaveWork, DirOf
<1>7. ASSUME NEW i \in ChildRuns, Apply(i) PROVE TypeOK' /\ RunsHaveWork'
  <2>1. CASE Clashes(store, DirOf(i))
    <3>1. RunsHaveWork'
      BY <1>1, <1>7, <2>1 DEF Apply
    <3>. QED
      BY <1>7, <2>1, <3>1 DEF Apply
  <2>2. CASE ~Clashes(store, DirOf(i))
    <3>1. store' \in Stores /\ RunsHaveWork'
      BY <1>6, <1>7, <2>2 DEF Apply
    <3>. QED
      BY <1>7, <2>2, <3>1 DEF Apply
  <2>. QED
    BY <2>1, <2>2
<1>8. ASSUME NEW i \in ChildRuns, Record(i) PROVE TypeOK' /\ RunsHaveWork'
  <2>1. RunsHaveWork'
    BY <1>1, <1>8 DEF Record
  <2>2. about[i] \in Requests \X Kinds /\ store.state[DirOf(i)] \in Requests \cup {None}
    BY <1>4, <1>8 DEF Record, RunsHaveWork, Objects, Stores
  <2>3. recorded' \in [Requests \X Kinds -> Requests \cup {None}]
    BY <1>8, <2>2 DEF Record
  <2>. QED
    BY <1>8, <2>1, <2>3 DEF Record
<1>9. ASSUME NEW i \in ChildRuns, TaskFails(i) PROVE TypeOK' /\ RunsHaveWork'
  <2>1. count' \in [Events -> Nat]
    BY <1>9, CountType DEF TaskFails, Events
  <2>2. CASE store' = store
    <3>1. RunsHaveWork'
      BY <1>1, <1>9, <2>2 DEF TaskFails
    <3>. QED
      BY <1>9, <2>1, <2>2, <3>1 DEF TaskFails
  <2>3. CASE stage[i] = "apply" /\ store' = Applied(store, DirOf(i))
    <3>1. store' \in Stores /\ RunsHaveWork'
      BY <1>6, <1>9, <2>3 DEF TaskFails
    <3>. QED
      BY <1>9, <2>1, <3>1 DEF TaskFails
  <2>4. CASE stage[i] = "write" /\ store' \in PartlyWritten(store, DirOf(i), about[i][1])
    <3>1. about[i][1] \in Requests /\ DirOf(i) \in Dirs
      BY <1>4, <2>4
    <3>2. WritesInto(store, store', DirOf(i), about[i][1])
      BY <2>4, <3>1, PartlyWrittenEffects
    <3>3. store' \in Stores /\ RunsHaveWork'
      BY <1>5, <1>9, <2>4, <3>2 DEF TaskFails
    <3>. QED
      BY <1>9, <2>1, <3>3 DEF TaskFails
  <2>. QED
    BY <1>9, <2>2, <2>3, <2>4 DEF TaskFails
<1>10. ASSUME NEW r \in Requests, RemoveRequest(r) PROVE TypeOK' /\ RunsHaveWork'
  <2>1. RunsHaveWork'
    BY <1>1, <1>10 DEF RemoveRequest
  <2>2. count' \in [Events -> Nat]
    BY <1>10, CountType DEF RemoveRequest, Events
  <2>. QED
    BY <1>10, <2>1, <2>2 DEF RemoveRequest
<1>11. CASE UNCHANGED vars
  BY <1>1, <1>11 DEF vars
<1>. QED
  BY <1>2, <1>3, <1>5a, <1>7, <1>8, <1>9, <1>10, <1>11 DEF Next, RunStep, Faults

(* The variables keep their types.                                         *)
LEMMA TypeInvariant == Spec => [](TypeOK /\ RunsHaveWork)
<1> USE NoneAssumption
<1>1. Init => TypeOK /\ RunsHaveWork
  BY DEF Init, TypeOK, RunsHaveWork, EmptyStore, Stores, NoSubject
<1>. QED
  BY <1>1, TypeStep, PTL DEF Spec

(* The variables keep their types; no run applies a directory that has no  *)
(* files in it.                                                            *)
THEOREM TypeCorrect == Spec => []TypeOK
BY TypeInvariant, PTL

(* What every step leaves of the runs: a run keeps its subject and one     *)
(* that has written its files has still done so; faults are not forgotten. *)
RunsGoOn ==
  /\ \A i \in ChildRuns :
       /\ stage[i] # "none" => about'[i] = about[i]
       /\ stage[i] \in Late => stage'[i] \in Late
  /\ count["faults"] > 0 => count'["faults"] > 0

(* A run that applied and has not recorded still has not.                  *)
Unrecorded ==
  \A i \in ChildRuns : stage[i] \in {"record", "failed"} => stage'[i] \in {"record", "failed"}

(* The directory of o was written into for another request.                *)
TakenOver(o) ==
  \E i \in ChildRuns :
    stage[i] \in Late /\ about[i][1] # o[1] /\ DirOf(i) = Directory(o[1], o[2])

LEMMA WritersRemain ==
  ASSUME RunsGoOn, NEW d, NEW r, WrittenBy(d, r)
  PROVE  \E i \in ChildRuns : stage'[i] \in Late /\ about'[i] = <<r, d[2]>>
BY DEF RunsGoOn, WrittenBy, Late

LEMMA TakeoversRemain ==
  ASSUME RunsGoOn, NEW o, TakenOver(o)
  PROVE  \E i \in ChildRuns :
           /\ stage'[i] \in Late /\ about'[i][1] # o[1]
           /\ Directory(about'[i][1], about'[i][2]) = Directory(o[1], o[2])
BY DEF RunsGoOn, TakenOver, DirOf, Late

(* A step that leaves the main files alone.                                *)
LEMMA MainsKept ==
  ASSUME RunsGoOn, MainsExplained, store'.mains = store.mains
  PROVE  MainsExplained'
<1> SUFFICES ASSUME NEW d \in Dirs
             PROVE  /\ store.mains[d] # {} =>
                         \E i \in ChildRuns : stage'[i] \in Late /\ DirOf(i)' = d
                    /\ store.mains[d] \ {"main"} # {} =>
                         \E i \in ChildRuns : /\ stage'[i] \in Late /\ DirOf(i)' = d
                                              /\ Stamped(about[i][1], about[i][2])'
                    /\ Clashes(store, d) => count'["faults"] > 0 \/ WrittenByTwo(d)'
  BY DEF MainsExplained, Clashes
<1>1. \A i \in ChildRuns : stage[i] \in Late => /\ stage'[i] \in Late /\ DirOf(i)' = DirOf(i)
                                               /\ about'[i] = about[i]
  BY DEF RunsGoOn, Late, DirOf
<1>2. WrittenByTwo(d) => WrittenByTwo(d)'
  BY <1>1 DEF WrittenByTwo, Late
<1>. QED
  BY <1>1, <1>2 DEF MainsExplained, RunsGoOn, Stamped

(* A step that changes neither the store nor the rows.                     *)
LEMMA RunsOnly ==
  ASSUME Recording, RunsGoOn, Unrecorded, store' = store, recorded' = recorded
  PROVE  Recording'
<1>1. DirsMatch'
  BY WritersRemain DEF Recording, DirsMatch, WrittenBy
<1>2. CloudKinds' /\ Listed' /\ MainsExplained' /\ RecordedIsReal'
  BY MainsKept DEF Recording, CloudKinds, Listed, RecordedIsReal
<1>3. UnrecordedExplained'
  BY DEF Recording, CloudKinds, Objects, UnrecordedExplained, Unrecorded, RunsGoOn
<1>4. LostOnlyByTakeover'
  <2> SUFFICES ASSUME NEW o \in Requests \X Kinds, recorded[o] # None,
                      recorded[o] # o[1] \/ o \notin store.cloud
               PROVE  \E i \in ChildRuns :
                        /\ stage'[i] \in Late /\ about'[i][1] # o[1]
                        /\ Directory(about'[i][1], about'[i][2]) = Directory(o[1], o[2])
    BY DEF LostOnlyByTakeover, SharedWith, DirOf, Late
  <2>1. TakenOver(o)
    BY DEF Recording, LostOnlyByTakeover, SharedWith, TakenOver, Late
  <2>. QED
    BY <2>1, TakeoversRemain
<1>. QED
  BY <1>1, <1>2, <1>3, <1>4 DEF Recording

(* A run writes, once or twice, in whole or in part.                       *)
LEMMA AfterWritten ==
  ASSUME TypeOK, RunsHaveWork, Recording, RunsGoOn, Unrecorded,
         NEW i \in ChildRuns, stage[i] = "write", stage'[i] \in Late,
         WritesInto(store, store', DirOf(i), about[i][1]),
         count'["faults"] > 0 \/ store' = Written(store, DirOf(i), about[i][1]),
         about' = about, recorded' = recorded
  PROVE  Recording'
<1> DEFINE d == DirOf(i)
           r == about[i][1]
<1>1. about[i] \in Objects /\ store \in Stores
  BY DEF RunsHaveWork, TypeOK
<1>2. /\ d \in Dirs /\ r \in Requests
      /\ d[2] = about[i][2] /\ about[i] = <<r, d[2]>> /\ Directory(r, d[2]) = d
  BY <1>1, DirectoryType DEF DirOf, Objects
<1>3. /\ WritesInto(store, store', d, r) /\ recorded' = recorded /\ about' = about
      /\ stage'[i] \in Late
      /\ count'["faults"] > 0 \/ store' = Written(store, d, r)
  OBVIOUS
<1>4. /\ \A e \in Dirs : e # d => store'.files[e] = store.files[e]
      /\ store'.files[d] \in {store.files[d], r}
      /\ store'.state = store.state /\ store'.cloud = store.cloud
  BY <1>3 DEF WritesInto
<1>m. MainsExplained'
  <2> SUFFICES ASSUME NEW e \in Dirs
               PROVE  /\ store'.mains[e] # {} =>
                           \E j \in ChildRuns : stage'[j] \in Late /\ DirOf(j) = e
                      /\ store'.mains[e] \ {"main"} # {} =>
                           \E j \in ChildRuns : /\ stage'[j] \in Late /\ DirOf(j) = e
                                                /\ Stamped(about[j][1], about[j][2])
                      /\ Clashes(store', e) => count'["faults"] > 0 \/ WrittenByTwo(e)'
    BY <1>3 DEF MainsExplained, DirOf
  <2>1. \A j \in ChildRuns : stage[j] \in Late => stage'[j] \in Late
    BY DEF RunsGoOn
  <2>2. WrittenByTwo(e) => WrittenByTwo(e)'
    BY <1>3, <2>1 DEF WrittenByTwo, Late, DirOf
  <2>3. CASE e # d
    <3>1. store'.mains[e] = store.mains[e]
      BY <1>3, <2>3 DEF WritesInto
    <3>. QED
      BY <2>1, <2>2, <3>1 DEF Recording, MainsExplained, RunsGoOn, Clashes
  <2>4. CASE e = d
    <3>1. \E j \in ChildRuns : stage'[j] \in Late /\ DirOf(j) = e
      BY <1>3, <2>4
    <3>2. store'.mains[e] \ {"main"} # {} =>
            \E j \in ChildRuns : /\ stage'[j] \in Late /\ DirOf(j) = e
                                 /\ Stamped(about[j][1], about[j][2])
      <4>1. CASE Stamped(r, d[2])
        BY <1>2, <1>3, <2>4, <4>1
      <4>2. CASE ~Stamped(r, d[2])
        <5>1. store'.mains[e] \subseteq store.mains[e] \cup {"main"}
          BY <1>3, <2>4, <4>2 DEF WritesInto
        <5>. QED
          BY <2>1, <5>1 DEF Recording, MainsExplained
      <4>. QED
        BY <4>1, <4>2
    <3>3. Clashes(store', e) => count'["faults"] > 0 \/ WrittenByTwo(e)'
      <4>1. CASE count'["faults"] > 0
        BY <4>1
      <4>2. CASE store' = Written(store, d, r) /\ store.mains[d] = {}
        <5>0. Written(store, d, r).mains[d] = store.mains[d] \cup {MainFile(store.mains[d], r, d[2])}
          BY <1>1, <1>2, WrittenEffects
        <5>1. store'.mains[e] = {MainFile(store.mains[d], r, d[2])}
          BY <2>4, <4>2, <5>0
        <5>. QED
          BY <5>1 DEF Clashes
      <4>3. CASE store.mains[d] # {}
        <5>1. PICK j \in ChildRuns : stage[j] \in Late /\ DirOf(j) = e
          BY <2>4, <4>3 DEF Recording, MainsExplained
        <5>2. j # i
          BY <5>1 DEF Late
        <5>3. /\ stage'[i] \in {"apply", "record", "success", "failed"} /\ DirOf(i)' = e
              /\ stage'[j] \in {"apply", "record", "success", "failed"} /\ DirOf(j)' = e
          BY <1>3, <2>1, <2>4, <5>1 DEF Late, DirOf
        <5>. QED
          BY <5>2, <5>3 DEF WrittenByTwo
      <4>. QED
        BY <1>3, <4>1, <4>2, <4>3
    <3>. QED
      BY <3>1, <3>2, <3>3
  <2>. QED
    BY <2>3, <2>4
<1> HIDE DEF d, r
<1>5. DirsMatch'
  <2> SUFFICES ASSUME NEW e \in Dirs
               PROVE  /\ store'.files[e] # None =>
                           Directory(store'.files[e], e[2]) = e
                           /\ \E j \in ChildRuns :
                                 stage'[j] \in Late /\ about'[j] = <<store'.files[e], e[2]>>
                      /\ store'.state[e] # None =>
                           Directory(store'.state[e], e[2]) = e
                           /\ (\E j \in ChildRuns :
                                  stage'[j] \in Late /\ about'[j] = <<store'.state[e], e[2]>>)
                           /\ <<store'.state[e], e[2]>> \in store'.cloud
    BY DEF DirsMatch, WrittenBy
  <2>1. CASE e = d /\ store'.files[d] = r
    <3>1. /\ Directory(store'.files[e], e[2]) = e
          /\ \E j \in ChildRuns : stage'[j] \in Late /\ about'[j] = <<store'.files[e], e[2]>>
      BY <1>2, <1>3, <2>1
    <3>. QED
      BY <1>4, <3>1, WritersRemain DEF Recording, DirsMatch
  <2>2. CASE store'.files[e] = store.files[e]
    BY <1>4, <2>2, WritersRemain DEF Recording, DirsMatch
  <2>. QED
    BY <1>4, <2>1, <2>2
<1>6. CloudKinds' /\ Listed' /\ RecordedIsReal'
  BY <1>3, <1>4 DEF Recording, CloudKinds, Listed, RecordedIsReal
<1>7. UnrecordedExplained'
  BY <1>3, <1>4 DEF Recording, UnrecordedExplained, Unrecorded
<1>8. LostOnlyByTakeover'
  <2> SUFFICES ASSUME NEW o \in Requests \X Kinds, recorded[o] # None,
                      recorded[o] # o[1] \/ o \notin store.cloud
               PROVE  \E j \in ChildRuns :
                        /\ stage'[j] \in Late /\ about'[j][1] # o[1]
                        /\ Directory(about'[j][1], about'[j][2]) = Directory(o[1], o[2])
    BY <1>3, <1>4 DEF LostOnlyByTakeover, SharedWith, DirOf, Late
  <2>1. TakenOver(o)
    BY DEF Recording, LostOnlyByTakeover, SharedWith, TakenOver, Late
  <2>. QED
    BY <2>1, TakeoversRemain
<1>. QED
  BY <1>m, <1>5, <1>6, <1>7, <1>8 DEF Recording

(* A run that applies its directory, whether its task then fails or not.   *)
LEMMA AfterApplied ==
  ASSUME TypeOK, RunsHaveWork, Recording, RunsGoOn, Unrecorded,
         NEW i \in ChildRuns, stage[i] = "apply", store' = Applied(store, DirOf(i)),
         stage'[i] \in {"record", "failed"}, about' = about, recorded' = recorded
  PROVE  Recording'
<1> DEFINE d == DirOf(i)
           k == about[i][2]
           f == store.files[d]
<1>1. about[i] \in Objects /\ f \in Requests /\ store \in Stores
  BY DEF RunsHaveWork, TypeOK
<1>2. d \in Dirs /\ d[2] = k /\ k \in Kinds /\ d = Directory(about[i][1], k)
  BY <1>1, DirectoryType DEF DirOf, Objects
<1>3. Directory(f, k) = d /\ WrittenBy(d, f) /\ <<f, k>> \in Objects
  BY <1>1, <1>2, NoneAssumption DEF Recording, DirsMatch, Objects
<1>4. /\ store'.files = store.files /\ store'.mains = store.mains
      /\ store'.state = [store.state EXCEPT ![d] = f]
      /\ store'.cloud = (store.cloud \ {<<store.state[d], k>>}) \cup {<<f, k>>}
  BY <1>1, <1>2, AppliedEffects
<1>5. \A e \in Dirs : store'.state[e] = IF e = d THEN f ELSE store.state[e]
  BY <1>1, <1>4 DEF Stores
<1>6. store.state[d] # None => Directory(store.state[d], k) = d
  BY <1>2 DEF Recording, DirsMatch
<1> HIDE DEF d, k, f
<1>7. DirsMatch'
  <2>1. ASSUME NEW e \in Dirs, store'.files[e] # None
        PROVE  /\ Directory(store'.files[e], e[2]) = e
               /\ \E j \in ChildRuns :
                    stage'[j] \in Late /\ about'[j] = <<store'.files[e], e[2]>>
    BY <1>4, <2>1, WritersRemain DEF Recording, DirsMatch
  <2>2. ASSUME NEW e \in Dirs, store'.state[e] # None
        PROVE  /\ Directory(store'.state[e], e[2]) = e
               /\ \E j \in ChildRuns :
                    stage'[j] \in Late /\ about'[j] = <<store'.state[e], e[2]>>
               /\ <<store'.state[e], e[2]>> \in store'.cloud
    <3>1. CASE e = d
      <4>1. \E j \in ChildRuns : stage'[j] \in Late /\ about'[j] = <<f, d[2]>>
        BY <1>3, WritersRemain
      <4>. QED
        BY <1>2, <1>3, <1>4, <1>5, <3>1, <4>1
    <3>2. CASE e # d
      <4>1. store'.state[e] = store.state[e]
        BY <1>5, <3>2
      <4>2. /\ Directory(store.state[e], e[2]) = e /\ WrittenBy(e, store.state[e])
            /\ <<store.state[e], e[2]>> \in store.cloud
        BY <2>2, <4>1 DEF Recording, DirsMatch
      <4>3. <<store.state[e], e[2]>> # <<store.state[d], k>>
        <5> SUFFICES ASSUME <<store.state[e], e[2]>> = <<store.state[d], k>> PROVE FALSE
          OBVIOUS
        <5>1. store.state[e] = store.state[d] /\ e[2] = k /\ store.state[d] # None
          BY <2>2, <4>1
        <5>. QED
          BY <1>6, <3>2, <4>2, <5>1
      <4>4. \E j \in ChildRuns : stage'[j] \in Late /\ about'[j] = <<store.state[e], e[2]>>
        BY <4>2, WritersRemain
      <4>. QED
        BY <1>4, <4>1, <4>2, <4>3, <4>4
    <3>. QED
      BY <3>1, <3>2
  <2>. QED
    BY <2>1, <2>2 DEF DirsMatch, WrittenBy
<1>8. CloudKinds'
  BY <1>3, <1>4 DEF Recording, CloudKinds
<1>9. Listed' /\ MainsExplained'
  <2> SUFFICES ASSUME NEW o \in store'.cloud
               PROVE  store'.state[Directory(o[1], o[2])] = o[1]
    BY <1>4, MainsKept DEF Recording, Listed
  <2>1. CASE o = <<f, k>>
    BY <1>2, <1>3, <1>5, <2>1
  <2>2. CASE o # <<f, k>>
    <3>1. o \in store.cloud /\ o # <<store.state[d], k>> /\ o \in Objects
      BY <1>4, <2>2 DEF Recording, CloudKinds
    <3>2. Directory(o[1], o[2]) \in Dirs /\ Directory(o[1], o[2])[2] = o[2] /\ o = <<o[1], o[2]>>
      BY <3>1, DirectoryType
    <3>3. store.state[Directory(o[1], o[2])] = o[1]
      BY <3>1 DEF Recording, Listed
    <3>4. Directory(o[1], o[2]) # d
      BY <1>2, <3>1, <3>2, <3>3
    <3>. QED
      BY <1>5, <3>2, <3>3, <3>4
  <2>. QED
    BY <2>1, <2>2
<1>10. RecordedIsReal'
  <2> SUFFICES ASSUME NEW o \in Requests \X Kinds, Alone(o[1]), recorded[o] # None
               PROVE  recorded[o] = o[1] /\ o \in store'.cloud
    BY DEF RecordedIsReal
  <2>1. recorded[o] = o[1] /\ o \in store.cloud
    BY DEF Recording, RecordedIsReal
  <2>2. CASE o = <<store.state[d], k>>
    <3>1. store.state[d] \in Requests /\ o[1] = store.state[d] /\ o[2] = k
      BY <2>2
    <3>2. Directory(o[1], o[2]) = d
      BY <1>6, <3>1, NoneAssumption
    <3>3. <<f, k>> = o
      BY <1>3, <3>1, <3>2, DirectoryShared DEF Objects
    <3>. QED
      BY <1>4, <2>1, <3>3
  <2>. QED
    BY <1>4, <2>1, <2>2
<1>11. UnrecordedExplained'
  <2> SUFFICES ASSUME NEW o \in store'.cloud, Alone(o[1])
               PROVE  \/ recorded[o] = o[1]
                      \/ \E j \in ChildRuns : about[j] = o /\ stage'[j] \in {"record", "failed"}
    BY DEF UnrecordedExplained
  <2>1. CASE o \in store.cloud
    BY <2>1 DEF Recording, UnrecordedExplained, Unrecorded
  <2>2. CASE o = <<f, k>>
    <3>1. Directory(o[1], o[2]) = Directory(about[i][1], about[i][2]) /\ o \in Objects
      BY <1>2, <1>3, <2>2 DEF k
    <3>2. about[i] = o
      BY <1>1, <3>1, DirectoryShared
    <3>. QED
      BY <3>2
  <2>. QED
    BY <1>4, <2>1, <2>2
<1>12. LostOnlyByTakeover'
  <2> SUFFICES ASSUME NEW o \in Requests \X Kinds, recorded[o] # None,
                      recorded[o] # o[1] \/ o \notin store'.cloud
               PROVE  \E j \in ChildRuns :
                        /\ stage'[j] \in Late /\ about'[j][1] # o[1]
                        /\ Directory(about'[j][1], about'[j][2]) = Directory(o[1], o[2])
    BY DEF LostOnlyByTakeover, SharedWith, DirOf, Late
  <2>1. CASE recorded[o] # o[1] \/ o \notin store.cloud
    <3>1. TakenOver(o)
      BY <2>1 DEF Recording, LostOnlyByTakeover, SharedWith, TakenOver, Late
    <3>. QED
      BY <3>1, TakeoversRemain
  <2>2. CASE o \in store.cloud /\ o \notin store'.cloud
    <3>1. o = <<store.state[d], k>> /\ o # <<f, k>> /\ o[1] = store.state[d] /\ o[2] = k
      BY <1>4, <2>2
    <3>2. Directory(o[1], o[2]) = d /\ f # o[1]
      BY <1>6, <3>1, NoneAssumption
    <3>3. PICK j \in ChildRuns : stage[j] \in Late /\ about[j] = <<f, k>>
      BY <1>2, <1>3 DEF WrittenBy
    <3>4. TakenOver(o)
      BY <1>3, <3>2, <3>3 DEF TakenOver, DirOf
    <3>. QED
      BY <3>4, TakeoversRemain
  <2>. QED
    BY <2>1, <2>2
<1>. QED
  BY <1>7, <1>8, <1>9, <1>10, <1>11, <1>12 DEF Recording

(* A run that copies the state of its directory into its request's row.    *)
LEMMA AfterRecord ==
  ASSUME TypeOK, RunsHaveWork, Recording, RunsGoOn,
         NEW i \in ChildRuns, Record(i), store.state[DirOf(i)] # None
  PROVE  Recording'
<1> DEFINE d == DirOf(i)
           k == about[i][2]
           f == store.state[d]
<1>1. about[i] \in Objects /\ store \in Stores
  BY DEF Record, RunsHaveWork, TypeOK
<1>2. /\ d \in Dirs /\ d[2] = k /\ d = Directory(about[i][1], about[i][2])
      /\ about[i] = <<about[i][1], k>>
  BY <1>1, DirectoryType DEF DirOf
<1>3. Directory(f, k) = d /\ WrittenBy(d, f) /\ <<f, k>> \in store.cloud
  BY <1>2 DEF Recording, DirsMatch
<1>4. <<f, k>> \in Objects
  BY <1>3 DEF Recording, CloudKinds
<1>5. /\ store' = store /\ about' = about
      /\ \A j \in ChildRuns : j # i => stage'[j] = stage[j]
  BY DEF Record, Goto, TypeOK
<1>6. \A o \in Objects : recorded'[o] = IF o = about[i] THEN f ELSE recorded[o]
  BY <1>1 DEF Record, TypeOK, Objects
<1>7. Alone(about[i][1]) => f = about[i][1]
  BY <1>1, <1>2, <1>3, <1>4, DirectoryShared
<1> HIDE DEF d, k, f
<1>8. DirsMatch'
  BY <1>5, WritersRemain DEF Recording, DirsMatch, WrittenBy
<1>9. CloudKinds' /\ Listed' /\ MainsExplained'
  BY <1>5, MainsKept DEF Recording, CloudKinds, Listed
<1>10. RecordedIsReal'
  <2> SUFFICES ASSUME NEW o \in Objects, Alone(o[1]), recorded'[o] # None
               PROVE  recorded'[o] = o[1] /\ o \in store.cloud
    BY <1>5 DEF RecordedIsReal, Objects
  <2>1. CASE o = about[i]
    <3>1. f = o[1] /\ o = <<f, k>>
      BY <1>2, <1>7, <2>1
    <3>. QED
      BY <1>3, <1>6, <2>1, <3>1
  <2>2. CASE o # about[i]
    BY <1>6, <2>2 DEF Recording, RecordedIsReal, Objects
  <2>. QED
    BY <2>1, <2>2
<1>11. UnrecordedExplained'
  <2> SUFFICES ASSUME NEW o \in store.cloud, Alone(o[1])
               PROVE  \/ recorded'[o] = o[1]
                      \/ \E j \in ChildRuns : about[j] = o /\ stage'[j] \in {"record", "failed"}
    BY <1>5 DEF UnrecordedExplained
  <2>0. o \in Objects
    BY DEF Recording, CloudKinds
  <2>1. CASE o = about[i]
    BY <1>6, <1>7, <2>0, <2>1
  <2>2. CASE o # about[i]
    BY <1>5, <1>6, <2>0, <2>2 DEF Recording, UnrecordedExplained
  <2>. QED
    BY <2>1, <2>2
<1>12. LostOnlyByTakeover'
  <2> SUFFICES ASSUME NEW o \in Objects, recorded'[o] # None,
                      recorded'[o] # o[1] \/ o \notin store.cloud
               PROVE  TakenOver(o)
    <3>1. ASSUME NEW o \in Objects, TakenOver(o)
          PROVE  \E j \in ChildRuns :
                   /\ stage'[j] \in Late /\ about'[j][1] # o[1]
                   /\ Directory(about'[j][1], about'[j][2]) = Directory(o[1], o[2])
      BY <3>1, TakeoversRemain
    <3>. QED
      BY <1>5, <3>1 DEF LostOnlyByTakeover, SharedWith, DirOf, Late, Objects
  <2>1. CASE o = about[i]
    <3>1. recorded'[o] = f /\ Directory(o[1], o[2]) = d
      BY <1>2, <1>6, <2>1
    <3>2. f # o[1]
      BY <1>2, <1>3, <2>1, <3>1
    <3>3. PICK j \in ChildRuns : stage[j] \in Late /\ about[j] = <<f, k>>
      BY <1>2, <1>3 DEF WrittenBy
    <3>. QED
      BY <1>3, <3>1, <3>2, <3>3 DEF TakenOver, DirOf
  <2>2. CASE o # about[i]
    BY <1>6, <2>2 DEF Recording, LostOnlyByTakeover, SharedWith, TakenOver, Late, Objects
  <2>. QED
    BY <2>1, <2>2
<1>. QED
  BY <1>8, <1>9, <1>10, <1>11, <1>12 DEF Recording

(* Every step leaves the runs what RunsGoOn says; a run gives up being     *)
(* unrecorded only by recording.                                           *)
LEMMA StepsGoOn ==
  ASSUME TypeOK, [Next]_vars
  PROVE  /\ RunsGoOn
         /\ (\A i \in ChildRuns : ~(Record(i) /\ store.state[DirOf(i)] # None)) => Unrecorded
<1> DEFINE Quiet == \A i \in ChildRuns : ~(Record(i) /\ store.state[DirOf(i)] # None)
<1>1. ASSUME NEW i \in ChildRuns, NEW r \in Requests, NEW k \in Kinds, Start(i, r, k)
      PROVE  RunsGoOn /\ Unrecorded
  BY <1>1 DEF Start, Goto, TypeOK, RunsGoOn, Unrecorded, Late
<1>2. ASSUME NEW i \in ChildRuns, RunStep(i) \/ Faults(i) PROVE RunsGoOn
  BY <1>2 DEF RunStep, Fetch, WriteFiles, Apply, Record, Faults, WriteFilesTwice, TaskFails,
              Count, Goto, TypeOK, Events, RunsGoOn, Late
<1>3. ASSUME Quiet, NEW i \in ChildRuns, RunStep(i) \/ Faults(i) PROVE Unrecorded
  BY <1>3 DEF RunStep, Fetch, WriteFiles, Apply, Record, Faults, WriteFilesTwice, TaskFails,
              Goto, TypeOK, Unrecorded
<1>4. CASE \E r \in Requests : RemoveRequest(r)
  BY <1>4 DEF RemoveRequest, Count, TypeOK, Events, RunsGoOn, Unrecorded, Late
<1>5. CASE UNCHANGED vars
  BY <1>5 DEF vars, RunsGoOn, Unrecorded, Late
<1>. QED
  BY <1>1, <1>2, <1>3, <1>4, <1>5 DEF Next

LEMMA RecordingInvariant == Spec => []Recording
<1> USE NoneAssumption
<1>1. Init => Recording
  <2> SUFFICES ASSUME Init PROVE Recording
    OBVIOUS
  <2>1. \A d \in Dirs : store.files[d] = None /\ store.mains[d] = {} /\ store.state[d] = None
    BY DEF Init, EmptyStore
  <2>2. store.cloud = {} /\ \A o \in Requests \X Kinds : recorded[o] = None
    BY DEF Init, EmptyStore
  <2>. QED
    BY <2>1, <2>2 DEF Recording, DirsMatch, CloudKinds, Listed, MainsExplained, Clashes,
                      RecordedIsReal, UnrecordedExplained, LostOnlyByTakeover
<1>2. TypeOK /\ RunsHaveWork /\ Recording /\ [Next]_vars => Recording'
  <2> SUFFICES ASSUME TypeOK, RunsHaveWork, Recording, [Next]_vars PROVE Recording'
    OBVIOUS
  <2>1. RunsGoOn
    BY StepsGoOn
  <2>2. ASSUME NEW i \in ChildRuns, Record(i), store.state[DirOf(i)] # None
        PROVE  Recording'
    BY <2>1, <2>2, AfterRecord
  <2>3. CASE Unrecorded
    <3>1. ASSUME store' = store, recorded' = recorded PROVE Recording'
      BY <2>1, <2>3, <3>1, RunsOnly
    <3>2. ASSUME NEW i \in ChildRuns, NEW r \in Requests, NEW k \in Kinds, Start(i, r, k)
          PROVE  Recording'
      BY <3>1, <3>2 DEF Start
    <3>3. ASSUME NEW i \in ChildRuns, Fetch(i) PROVE Recording'
      BY <3>1, <3>3 DEF Fetch
    <3>w. ASSUME NEW i \in ChildRuns, stage[i] = "write"
          PROVE  about[i][1] \in Requests /\ DirOf(i) \in Dirs
      BY <3>w, DirectoryType DEF RunsHaveWork, DirOf, Objects
    <3>4. ASSUME NEW i \in ChildRuns, WriteFiles(i) \/ WriteFilesTwice(i) PROVE Recording'
      <4>1. /\ stage[i] = "write" /\ stage'[i] \in Late
            /\ about' = about /\ recorded' = recorded
        BY <3>4 DEF WriteFiles, WriteFilesTwice, Goto, TypeOK, Late
      <4>2. WritesInto(store, store', DirOf(i), about[i][1])
        BY <3>4, <3>w, <4>1, RunWrites DEF TypeOK
      <4>3. count'["faults"] > 0 \/ store' = Written(store, DirOf(i), about[i][1])
        BY <3>4 DEF WriteFiles, WriteFilesTwice, Count, TypeOK, Events
      <4>. QED
        BY <2>1, <2>3, <4>1, <4>2, <4>3, AfterWritten
    <3>5. ASSUME NEW i \in ChildRuns, Apply(i) PROVE Recording'
      <4>1. CASE Clashes(store, DirOf(i))
        BY <3>1, <3>5, <4>1 DEF Apply
      <4>2. CASE ~Clashes(store, DirOf(i))
        BY <2>1, <2>3, <3>5, <4>2, AfterApplied DEF Apply, Goto, TypeOK
      <4>. QED
        BY <4>1, <4>2
    <3>6. ASSUME NEW i \in ChildRuns, Record(i) PROVE Recording'
      BY <2>2, <3>1, <3>6 DEF Record
    <3>7. ASSUME NEW i \in ChildRuns, TaskFails(i) PROVE Recording'
      <4>1. /\ about' = about /\ recorded' = recorded /\ stage'[i] = "failed"
            /\ count'["faults"] > 0
        BY <3>7 DEF TaskFails, Count, Goto, TypeOK, Events
      <4>2. CASE store' = store
        BY <3>1, <4>1, <4>2
      <4>3. CASE stage[i] = "apply" /\ store' = Applied(store, DirOf(i))
        BY <2>1, <2>3, <4>1, <4>3, AfterApplied
      <4>4. CASE stage[i] = "write" /\ store' \in PartlyWritten(store, DirOf(i), about[i][1])
        <5>1. WritesInto(store, store', DirOf(i), about[i][1])
          BY <3>w, <4>4, PartlyWrittenEffects DEF TypeOK
        <5>. QED
          BY <2>1, <2>3, <4>1, <4>4, <5>1, AfterWritten DEF Late
      <4>. QED
        BY <3>7, <4>2, <4>3, <4>4 DEF TaskFails
    <3>8. ASSUME NEW r \in Requests, RemoveRequest(r) PROVE Recording'
      BY <3>1, <3>8 DEF RemoveRequest
    <3>9. CASE UNCHANGED vars
      BY <3>1, <3>9 DEF vars
    <3>. QED
      BY <3>2, <3>3, <3>4, <3>5, <3>6, <3>7, <3>8, <3>9 DEF Next, RunStep, Faults
  <2>. QED
    BY <2>2, <2>3, StepsGoOn
<1>. QED
  BY <1>1, <1>2, TypeInvariant, PTL DEF Spec

(* Rows of a request that shares no directory list what really exists,     *)
(* whatever runs are going on and however many are about it (write_to_db). *)
THEOREM RowsListWhatExists == Spec => []RecordedIsReal
<1>1. Recording => RecordedIsReal
  BY DEF Recording
<1>. QED
  BY <1>1, RecordingInvariant, PTL

(* Nothing is left at the cloud provider without a row, except by a run    *)
(* that failed or is still to record (terraform_apply, write_to_db).       *)
THEOREM LeftoversHaveARun == Spec => []UnrecordedExplained
<1>1. Recording => UnrecordedExplained
  BY DEF Recording
<1>. QED
  BY <1>1, RecordingInvariant, PTL

(* A row goes wrong only if another request's run worked in the same       *)
(* directory (create_terraform_dir makes it from a name).                  *)
THEOREM OnlyTakeoversLose == Spec => []LostOnlyByTakeover
<1>1. Recording => LostOnlyByTakeover
  BY DEF Recording
<1>. QED
  BY <1>1, RecordingInvariant, PTL

(* Whatever exists at the cloud provider is listed by the state of its     *)
(* directory, whoever shares it (terraform_apply); a destroy there can     *)
(* make use of it unless two main files were written there, which takes    *)
(* two runs or a failing task of Azure's databases or storage              *)
(* (write_terraform_files).                                                *)
THEOREM StateFilesKeepTrack == Spec => []NothingOrphaned
<1>1. TypeOK /\ Recording => NothingOrphaned
  <2> SUFFICES ASSUME TypeOK, Recording, NEW o \in store.cloud
               PROVE  LET d == Directory(o[1], o[2])
                      IN  /\ store.state[d] = o[1]
                          /\ Clashes(store, d) =>
                               /\ count["faults"] > 0 \/ WrittenByTwo(d)
                               /\ \E i \in ChildRuns :
                                    DirOf(i) = d /\ Stamped(about[i][1], about[i][2])
    BY DEF NothingOrphaned
  <2> DEFINE d == Directory(o[1], o[2])
  <2>1. d \in Dirs
    BY DirectoryType DEF Recording, CloudKinds
  <2>2. store.state[d] = o[1]
    BY DEF Recording, Listed
  <2>3. Clashes(store, d) => store.mains[d] \ {"main"} # {}
    BY DEF Clashes
  <2> HIDE DEF d
  <2>4. Clashes(store, d) =>
          /\ count["faults"] > 0 \/ WrittenByTwo(d)
          /\ \E i \in ChildRuns : DirOf(i) = d /\ Stamped(about[i][1], about[i][2])
    BY <2>1, <2>3 DEF Recording, MainsExplained
  <2>. QED
    BY <2>2, <2>4 DEF d
<1>. QED
  BY <1>1, RecordingInvariant, TypeInvariant, PTL
=============================================================================
