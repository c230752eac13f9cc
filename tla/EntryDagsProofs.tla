--------------------------- MODULE EntryDagsProofs ---------------------------
(***************************************************************************)
(* Theorems about EntryDags, for any requests, dispatches and runs, any    *)
(* directories, and any value of the bounds.                               *)
(***************************************************************************)
EXTENDS EntryDags, SequenceLemmas, FiniteSetTheorems, TLAPS

(* What writing a resource group's files does to a store.                  *)
LEMMA SettingsWrittenTypes ==
  ASSUME NEW s \in Stores, NEW d \in Dirs, NEW r \in Requests, d[2] = "rg"
  PROVE  /\ SettingsWritten(s, d, r) \in Stores
         /\ SettingsWritten(s, d, r) = [s EXCEPT !.files = [s.files EXCEPT ![d] = r]]
BY DEF SettingsWritten, Keeps, Stores

LEMMA WrittenTypes ==
  ASSUME NEW s \in Stores, NEW d \in Dirs, NEW r \in Requests, d[2] = "rg"
  PROVE  /\ Written(s, d, r) \in Stores
         /\ Written(s, d, r).files = [s.files EXCEPT ![d] = r]
         /\ Written(s, d, r).state = s.state /\ Written(s, d, r).cloud = s.cloud
<1> DEFINE u == SettingsWritten(s, d, r)
           f == MainFile(s.mains[d], r, d[2])
<1>1. u \in Stores /\ u = [s EXCEPT !.files = [s.files EXCEPT ![d] = r]]
  BY SettingsWrittenTypes
<1>2. f \in MainFiles
  BY DEF MainFile, MainFiles
<1>3. Written(s, d, r) = [u EXCEPT !.mains = [s.mains EXCEPT ![d] = s.mains[d] \cup {f}]]
  BY <1>1 DEF Written, Stores
<1>4. [s.mains EXCEPT ![d] = s.mains[d] \cup {f}] \in [Dirs -> SUBSET MainFiles]
  BY <1>2 DEF Stores
<1> HIDE DEF u, f
<1>5. u.files = [s.files EXCEPT ![d] = r] /\ u.state = s.state /\ u.cloud = s.cloud
  BY <1>1 DEF Stores
<1>6. Written(s, d, r) \in Stores
  BY <1>1, <1>3, <1>4 DEF Stores
<1>7. /\ Written(s, d, r).files = u.files /\ Written(s, d, r).state = u.state
      /\ Written(s, d, r).cloud = u.cloud
  BY <1>1, <1>3 DEF Stores
<1>. QED
  BY <1>5, <1>6, <1>7

LEMMA PartlyWrittenTypes ==
  ASSUME NEW s \in Stores, NEW d \in Dirs, NEW r \in Requests, d[2] = "rg",
         NEW u \in PartlyWritten(s, d, r)
  PROVE  /\ u \in Stores
         /\ u.files \in {s.files, [s.files EXCEPT ![d] = r]}
         /\ u.state = s.state /\ u.cloud = s.cloud
<1> DEFINE v == Written(s, d, r)
<1>1. /\ v \in Stores /\ v.files = [s.files EXCEPT ![d] = r]
      /\ v.state = s.state /\ v.cloud = s.cloud
  BY WrittenTypes
<1>2. /\ Written(v, d, r) \in Stores /\ Written(v, d, r).files = [v.files EXCEPT ![d] = r]
      /\ Written(v, d, r).state = v.state /\ Written(v, d, r).cloud = v.cloud
  BY <1>1, WrittenTypes
<1>3. u \in {s, SettingsWritten(s, d, r), v, Written(v, d, r)}
  BY DEF PartlyWritten
<1> HIDE DEF v
<1>4. [v.files EXCEPT ![d] = r] = [s.files EXCEPT ![d] = r]
  BY <1>1 DEF Stores
<1>5. /\ SettingsWritten(s, d, r) \in Stores
      /\ SettingsWritten(s, d, r).files = [s.files EXCEPT ![d] = r]
      /\ SettingsWritten(s, d, r).state = s.state /\ SettingsWritten(s, d, r).cloud = s.cloud
  BY SettingsWrittenTypes DEF Stores
<1>. QED
  BY <1>1, <1>2, <1>3, <1>4, <1>5

(* What Terraform does to a store leaves a store, if the directory it is   *)
(* applied in has had files written to it.                                 *)
LEMMA AppliedTypes ==
  ASSUME NEW s \in Stores, NEW d \in Dirs
  PROVE  /\ s.files[d] \in Requests => Applied(s, d) \in Stores
         /\ Applied(s, d).files = s.files
<1>1. d[2] \in TfKinds
  BY DEF Dirs
<1>3. s.files[d] \in Requests => Applied(s, d) \in Stores
  <2> SUFFICES ASSUME s.files[d] \in Requests PROVE Applied(s, d) \in Stores
    OBVIOUS
  <2>1. <<s.files[d], d[2]>> \in Requests \X TfKinds
    BY <1>1
  <2>2. (s.cloud \ {<<s.state[d], d[2]>>}) \cup {<<s.files[d], d[2]>>} \in SUBSET (Requests \X TfKinds)
    BY <2>1 DEF Stores
  <2>. QED
    BY <2>2 DEF Stores, Applied
<1>4. Applied(s, d).files = s.files
  BY DEF Stores, Applied
<1>. QED
  BY <1>3, <1>4

(* A run that has got past fetch_from_database works on a message; when it *)
(* applies, the files of the resource group have been written.             *)
Fetched == {"write", "apply", "branch", "trigger"}

HasWork ==
  \A x \in Runs :
    /\ task[x] \in Fetched => message[x] \in Message
    /\ task[x] = "apply" => store.files[GroupDir(x)] \in Requests

LEMMA NoMessageIsNone == NoMessage \notin Message
BY NoneAssumption DEF NoMessage, Message

LEMMA GroupDirType ==
  ASSUME NEW x \in Runs, message[x] \in Message
  PROVE  GroupDir(x) \in Dirs /\ GroupDir(x)[2] = "rg"
BY DEF GroupDir, Directory, Dirs, Names, TfKinds, Message

(* The head of a queue and what follows it.                                *)
LEMMA QueueSplits ==
  ASSUME NEW S, NEW s \in Seq(S), s # <<>>
  PROVE  /\ Head(s) \in S /\ Tail(s) \in Seq(S)
         /\ Head(s) = s[1] /\ 1 \in DOMAIN s
         /\ DOMAIN s = 1..Len(s) /\ Len(s) \in Nat
         /\ DOMAIN Tail(s) = 1..(Len(s) - 1)
         /\ \A n \in DOMAIN Tail(s) : Tail(s)[n] = s[n + 1] /\ n + 1 \in DOMAIN s
<1>1. Len(s) \in Nat /\ DOMAIN s = 1..Len(s) /\ Len(s) # 0
  BY EmptySeq, LenProperties
<1>2. /\ Head(s) \in S /\ Tail(s) \in Seq(S) /\ Len(Tail(s)) = Len(s) - 1
      /\ Head(s) = s[1]
      /\ \A n \in 1..Len(Tail(s)) : Tail(s)[n] = s[n + 1]
  BY <1>1, HeadTailProperties
<1>3. DOMAIN Tail(s) = 1..(Len(s) - 1)
  BY <1>2, LenProperties
<1>. QED
  BY <1>1, <1>2, <1>3

LEMMA CountType ==
  ASSUME count \in [Events -> Nat], NEW event \in Events, NEW bound, Count(event, bound)
  PROVE  count' \in [Events -> Nat]
BY DEF Count

(* Every step keeps the types.                                             *)
LEMMA TypeStep == TypeOK /\ HasWork /\ [Next]_vars => (TypeOK /\ HasWork)'
<1> USE SendsAssumption, ProviderAssumption, WantedAssumption, NoMessageIsNone
<1> SUFFICES ASSUME TypeOK, HasWork, [Next]_vars PROVE TypeOK' /\ HasWork'
  OBVIOUS
<1>0. TypeOK
  OBVIOUS
<1> USE DEF TypeOK, Goto, Tasks, transport, locals
(* Steps of the transport and of users: no run gets on.                    *)
<1>1. ASSUME UNCHANGED <<message, store>>,
             \A x \in Runs : task'[x] = task[x] \/ task'[x] \notin Fetched
      PROVE  HasWork'
  BY <1>1 DEF HasWork, Fetched, GroupDir
<1>2. ASSUME NEW i \in Sends, NEW r \in Requests, Send(i, r) PROVE TypeOK' /\ HasWork'
  <2>1. HasWork'
    BY <1>1, <1>2 DEF Send
  <2>2. dag' \in [Runs -> Clouds \cup {None}]
    BY <1>2 DEF Send
  <2>3. publishing' \subseteq Message
    BY <1>2 DEF Send, Message
  <2>. QED
    BY <1>2, <2>1, <2>2, <2>3 DEF Send
<1>3. ASSUME NEW m \in publishing, Publish(m) PROVE TypeOK' /\ HasWork'
  <2>1. HasWork'
    BY <1>1, <1>3 DEF Publish
  <2>2. queue' \in Seq(Message)
    BY <1>3, AppendProperties DEF Publish
  <2>. QED
    BY <1>3, <2>1, <2>2 DEF Publish
<1>4. ASSUME NEW m \in publishing, LoseMessage(m) PROVE TypeOK' /\ HasWork'
  <2>1. HasWork'
    BY <1>1, <1>4 DEF LoseMessage
  <2>2. count' \in [Events -> Nat]
    BY <1>4, CountType DEF LoseMessage, Events
  <2>. QED
    BY <1>4, <2>1, <2>2 DEF LoseMessage
<1>5. ASSUME NEW i \in triggering, StartRun(i) PROVE TypeOK' /\ HasWork'
  <2>1. HasWork'
    BY <1>1, <1>5 DEF StartRun, Fetched
  <2>. QED
    BY <1>5, <2>1 DEF StartRun
<1>6. ASSUME NEW i \in triggering, LoseTrigger(i) PROVE TypeOK' /\ HasWork'
  <2>1. HasWork'
    BY <1>1, <1>6 DEF LoseTrigger
  <2>2. count' \in [Events -> Nat]
    BY <1>6, CountType DEF LoseTrigger, Events
  <2>. QED
    BY <1>6, <2>1, <2>2 DEF LoseTrigger
<1>7. ASSUME NEW x \in DirectRuns, NEW c \in Clouds, StartDirect(x, c)
      PROVE  TypeOK' /\ HasWork'
  <2>1. HasWork'
    BY <1>1, <1>7 DEF StartDirect, Fetched
  <2>2. x \in Runs
    BY DEF Runs
  <2>. QED
    BY <1>7, <2>1, <2>2 DEF StartDirect
<1>8. ASSUME NEW x \in Runs, Consume(x) PROVE TypeOK' /\ HasWork'
  <2>1. CASE queue = <<>>
    <3>1. HasWork'
      BY <1>1, <1>8, <2>1 DEF Consume, Fetched
    <3>. QED
      BY <1>8, <2>1, <3>1 DEF Consume
  <2>2. CASE queue # <<>>
    <3>1. Head(queue) \in Message /\ Tail(queue) \in Seq(Message)
      BY <2>2, QueueSplits
    <3>2. /\ message' = [message EXCEPT ![x] = Head(queue)] /\ queue' = Tail(queue)
          /\ task' = [task EXCEPT ![x] = "fetch"] /\ task[x] = "consume" /\ store' = store
      BY <1>8, <2>2 DEF Consume
    <3>3. HasWork'
      BY <3>1, <3>2 DEF HasWork, Fetched, GroupDir
    <3>4. message' \in [Runs -> Message \cup {NoMessage}]
      BY <3>1, <3>2
    <3>. QED
      BY <1>8, <3>1, <3>2, <3>3, <3>4 DEF Consume
  <2>. QED
    BY <2>1, <2>2
<1>9. ASSUME NEW x \in Runs, ConsumeDies(x) PROVE TypeOK' /\ HasWork'
  <2>1. Head(queue) \in Message /\ Tail(queue) \in Seq(Message)
    BY <1>9, QueueSplits DEF ConsumeDies
  <2>2. HasWork'
    BY <1>1, <1>9 DEF ConsumeDies, Fetched
  <2>3. count' \in [Events -> Nat]
    BY <1>9, CountType DEF ConsumeDies, Events
  <2>4. retried' \in [Runs -> BOOLEAN]
    BY <1>9 DEF ConsumeDies
  <2>5. dropped' \subseteq Message
    BY <1>9, <2>1 DEF ConsumeDies
  <2>6. task' \in [Runs -> {"none", "success", "failed"} \cup Tasks]
    BY <1>9 DEF ConsumeDies
  <2>. QED
    BY <1>9, <2>1, <2>2, <2>3, <2>4, <2>5, <2>6 DEF ConsumeDies
<1>10. ASSUME NEW x \in Runs, Fetch(x) PROVE TypeOK' /\ HasWork'
  <2>1. CASE message[x] # NoMessage /\ message[x].request \in present
    <3>1. Counted(x) \in SUBSET Kinds
      BY <2>1 DEF Counted
    <3>2. branches' \in [Runs -> SUBSET Kinds]
      BY <1>10, <2>1, <3>1 DEF Fetch
    <3>3. /\ task'[x] \in {"write", "branch"} /\ message[x] \in Message
          /\ UNCHANGED <<message, store>> /\ \A y \in Runs : y # x => task'[y] = task[y]
      BY <1>10, <2>1 DEF Fetch
    <3>4. HasWork'
      BY <3>3 DEF HasWork, Fetched, GroupDir
    <3>. QED
      BY <1>10, <2>1, <3>2, <3>4 DEF Fetch
  <2>2. CASE ~(message[x] # NoMessage /\ message[x].request \in present)
    <3>1. HasWork'
      BY <1>1, <1>10, <2>2 DEF Fetch, Fetched
    <3>. QED
      BY <1>10, <2>2, <3>1 DEF Fetch
  <2>. QED
    BY <2>1, <2>2
(* Files are written, in whole or in part.                                 *)
<1>11. ASSUME NEW x \in Runs, task[x] = "write", message' = message, store' \in Stores,
              store'.files \in {store.files,
                                [store.files EXCEPT ![GroupDir(x)] = message[x].request]},
              \A y \in Runs : y # x => task'[y] = task[y],
              task'[x] \notin Fetched
                \/ (task'[x] = "apply" /\ store'.files[GroupDir(x)] \in Requests)
       PROVE  HasWork'
  <2>1. message[x].request \in Requests
    BY <1>11 DEF HasWork, Fetched, Message
  <2> SUFFICES ASSUME NEW y \in Runs
               PROVE  /\ task'[y] \in Fetched => message[y] \in Message
                      /\ task'[y] = "apply" => store'.files[GroupDir(y)] \in Requests
    BY <1>11 DEF HasWork, GroupDir
  <2>2. CASE y = x
    BY <1>11, <2>2 DEF HasWork, Fetched
  <2>3. CASE y # x
    <3>1. task'[y] = task[y]
      BY <1>11, <2>3
    <3>2. task[y] = "apply" => GroupDir(y) \in Dirs /\ store.files[GroupDir(y)] \in Requests
      BY GroupDirType DEF HasWork, Fetched
    <3>3. task[y] = "apply" => store'.files[GroupDir(y)] \in Requests
      BY <1>11, <2>1, <3>2 DEF Stores
    <3>. QED
      BY <3>1, <3>3 DEF HasWork
  <2>. QED
    BY <2>2, <2>3
<1>11a. ASSUME NEW x \in Runs, WriteFiles(x) PROVE TypeOK' /\ HasWork'
  <2>1. /\ message[x] \in Message /\ message[x].request \in Requests
        /\ GroupDir(x) \in Dirs /\ GroupDir(x)[2] = "rg"
    BY <1>11a, GroupDirType DEF WriteFiles, HasWork, Fetched, Message
  <2>2. /\ store' = Written(store, GroupDir(x), message[x].request) /\ message' = message
        /\ task' = [task EXCEPT ![x] = "apply"] /\ task[x] = "write"
    BY <1>11a DEF WriteFiles
  <2>3. /\ store' \in Stores
        /\ store'.files = [store.files EXCEPT ![GroupDir(x)] = message[x].request]
    BY <2>1, <2>2, WrittenTypes
  <2>4. store'.files[GroupDir(x)] \in Requests
    BY <2>1, <2>3 DEF Stores
  <2>5. HasWork'
    BY <1>11, <2>2, <2>3, <2>4
  <2>. QED
    BY <1>11a, <2>3, <2>5 DEF WriteFiles
(* Both outcomes of terraform apply.                                       *)
<1>12. ASSUME NEW x \in Runs, task[x] = "apply", store' = Applied(store, GroupDir(x)),
              message' = message, \A y \in Runs : y # x => task'[y] = task[y],
              task'[x] # "apply"
       PROVE  store' \in Stores /\ HasWork'
  <2>1. /\ message[x] \in Message /\ GroupDir(x) \in Dirs /\ message[x].request \in Requests
        /\ store.files[GroupDir(x)] \in Requests
    BY <1>12, GroupDirType DEF HasWork, Fetched, Message
  <2>2. store' \in Stores /\ store'.files = store.files
    BY <1>12, <2>1, AppliedTypes
  <2>. QED
    BY <1>12, <2>1, <2>2 DEF HasWork, GroupDir, Fetched
<1>13. ASSUME NEW x \in Runs, ApplyGroup(x) PROVE TypeOK' /\ HasWork'
  <2>1. store' \in Stores /\ HasWork'
    BY <1>12, <1>13 DEF ApplyGroup
  <2>. QED
    BY <1>13, <2>1 DEF ApplyGroup
<1>14. ASSUME NEW x \in Runs, Branch(x) PROVE TypeOK' /\ HasWork'
  <2>1. HasWork'
    BY <1>14 DEF Branch, HasWork, Fetched, GroupDir
  <2>. QED
    BY <1>14, <2>1 DEF Branch
<1>15. ASSUME NEW x \in Runs, NEW k \in Kinds, NEW well \in BOOLEAN, TriggerEnds(x, k, well),
              count' \in [Events -> Nat]
       PROVE  TypeOK' /\ HasWork'
  <2>1. /\ task[x] = "trigger" /\ message[x] \in Message
        /\ task' = [task EXCEPT ![x] = task'[x]] /\ task'[x] \in {"trigger", "failed", "success"}
    BY <1>15 DEF TriggerEnds, HasWork, Fetched
  <2>2. HasWork'
    BY <1>15, <2>1 DEF TriggerEnds, HasWork, Fetched, GroupDir
  <2>3. branches' \in [Runs -> SUBSET Kinds]
    <3>1. branches[x] \ {k} \in SUBSET Kinds
      OBVIOUS
    <3>. QED
      BY <1>15, <3>1 DEF TriggerEnds
  <2>4. broken' \in [Runs -> BOOLEAN]
    BY <1>15 DEF TriggerEnds
  <2>5. triggered' \subseteq Child
    BY <1>15, <2>1 DEF TriggerEnds, Child, Message
  <2>. QED
    BY <1>15, <2>1, <2>2, <2>3, <2>4, <2>5 DEF TriggerEnds
<1>16. ASSUME NEW x \in Runs, NEW k \in Kinds, TriggerChild(x, k) \/ TriggerFails(x, k)
       PROVE  TypeOK' /\ HasWork'
  <2>1. CASE TriggerChild(x, k)
    <3> DEFINE well == <<dag[x], k>> \in Registered
    <3>1. well \in BOOLEAN
      OBVIOUS
    <3>2. TriggerEnds(x, k, well) /\ count' = count
      BY <2>1 DEF TriggerChild
    <3> HIDE DEF well
    <3>. QED
      BY <1>15, <3>1, <3>2
  <2>2. CASE TriggerFails(x, k)
    BY <1>15, <2>2, CountType DEF TriggerFails, Events
  <2>. QED
    BY <1>16, <2>1, <2>2
<1>17. ASSUME NEW x \in Runs, TaskFails(x) PROVE TypeOK' /\ HasWork'
  <2>1. count' \in [Events -> Nat]
    BY <1>17, CountType DEF TaskFails, Events
  <2>2. CASE store' = store
    <3>1. HasWork'
      BY <1>1, <1>17, <2>2 DEF TaskFails, Fetched
    <3>. QED
      BY <1>17, <2>1, <2>2, <3>1 DEF TaskFails
  <2>3. CASE task[x] = "apply" /\ store' = Applied(store, GroupDir(x))
    <3>1. store' \in Stores /\ HasWork'
      BY <1>12, <1>17, <2>3 DEF TaskFails
    <3>. QED
      BY <1>17, <2>1, <3>1 DEF TaskFails
  <2>4. CASE task[x] = "write" /\ store' \in PartlyWritten(store, GroupDir(x), message[x].request)
    <3>1. message[x].request \in Requests /\ GroupDir(x) \in Dirs /\ GroupDir(x)[2] = "rg"
      BY <2>4, GroupDirType DEF HasWork, Fetched, Message
    <3>2. /\ store' \in Stores
          /\ store'.files \in {store.files,
                              [store.files EXCEPT ![GroupDir(x)] = message[x].request]}
      BY <2>4, <3>1, PartlyWrittenTypes
    <3>3. /\ message' = message /\ task'[x] \notin Fetched
          /\ \A y \in Runs : y # x => task'[y] = task[y]
      BY <1>17 DEF TaskFails, Fetched
    <3>4. HasWork'
      BY <1>11, <2>4, <3>2, <3>3
    <3>. QED
      BY <1>17, <2>1, <3>2, <3>4 DEF TaskFails
  <2>. QED
    BY <1>17, <2>2, <2>3, <2>4 DEF TaskFails
<1>18. ASSUME NEW r \in Requests, RemoveRequest(r) PROVE TypeOK' /\ HasWork'
  <2>1. HasWork'
    BY <1>1, <1>18 DEF RemoveRequest
  <2>2. count' \in [Events -> Nat]
    BY <1>18, CountType DEF RemoveRequest, Events
  <2>. QED
    BY <1>18, <2>1, <2>2 DEF RemoveRequest
<1>19. CASE UNCHANGED vars
  BY <1>1, <1>19 DEF vars
<1>. QED
  BY <1>2, <1>3, <1>4, <1>5, <1>6, <1>7, <1>8, <1>9, <1>10, <1>11a, <1>13, <1>14, <1>16, <1>17,
     <1>18, <1>19 DEF Next, Deliver, Faults, RunStep, Work

LEMMA TypeInvariant == Spec => [](TypeOK /\ HasWork)
<1> USE SendsAssumption, ProviderAssumption, WantedAssumption, NoMessageIsNone
<1>1. Init => TypeOK /\ HasWork
  <2> SUFFICES ASSUME Init PROVE TypeOK /\ HasWork
    OBVIOUS
  <2>1. queue \in Seq(Message)
    BY EmptySeq DEF Init
  <2>2. store \in Stores
    BY DEF Init, EmptyStore, Stores
  <2>3. HasWork
    BY DEF Init, HasWork, Fetched
  <2>4. retried \in [Runs -> BOOLEAN] /\ broken \in [Runs -> BOOLEAN]
    BY DEF Init
  <2>5. branches \in [Runs -> SUBSET Kinds]
    BY DEF Init
  <2>. QED
    BY <2>1, <2>2, <2>3, <2>4, <2>5 DEF Init, TypeOK
<1>. QED
  BY <1>1, TypeStep, PTL DEF Spec

(* The variables keep their types; in particular Terraform is never run in *)
(* a directory whose files have not been written.                          *)
THEOREM TypeCorrect == Spec => []TypeOK
BY TypeInvariant, PTL

----------------------------------------------------------------------------
(* The id of a dispatch occurs once among the messages that are on their   *)
(* way, queued, dropped, or held by a run; and only if it has been sent.   *)
IdsOnce ==
  /\ \A m \in publishing \cup ToSet(queue) \cup dropped : m.id \in sent
  /\ \A x \in Runs : message[x] # NoMessage => message[x].id \in sent
  /\ \A m, n \in publishing : m.id = n.id => m = n
  /\ \A i, j \in DOMAIN queue : queue[i].id = queue[j].id => i = j
  /\ \A m \in publishing, n \in ToSet(queue) \cup dropped : m.id # n.id
  /\ \A m \in ToSet(queue), n \in dropped : m.id # n.id
  /\ \A x \in Runs, m \in publishing \cup ToSet(queue) \cup dropped :
       message[x] # NoMessage => message[x].id # m.id
  /\ \A x, y \in Runs :
       message[x] # NoMessage /\ message[y] # NoMessage /\ message[x].id = message[y].id => x = y

(* A run that has not consumed has no message; the run of a dispatch does  *)
(* not start before its trigger arrives.                                   *)
NotYet ==
  /\ \A x \in Runs : task[x] \in {"none", "consume"} => message[x] = NoMessage
  /\ \A i \in Sends : i \in triggering \/ i \notin sent => task[i] = "none"
  /\ triggering \subseteq sent

(* Taking the head leaves a queue without it.                              *)
LEMMA HeadLeaves ==
  ASSUME queue \in Seq(Message), queue # <<>>, IdsOnce
  PROVE  /\ Head(queue) \in ToSet(queue)
         /\ ToSet(Tail(queue)) \subseteq ToSet(queue)
         /\ ToSet(queue) \subseteq ToSet(Tail(queue)) \cup {Head(queue)}
         /\ \A m \in ToSet(Tail(queue)) : m.id # Head(queue).id
         /\ \A i, j \in DOMAIN Tail(queue) : Tail(queue)[i].id = Tail(queue)[j].id => i = j
<1>1. /\ Head(queue) = queue[1] /\ 1 \in DOMAIN queue
      /\ DOMAIN queue = 1..Len(queue) /\ Len(queue) \in Nat
      /\ DOMAIN Tail(queue) = 1..(Len(queue) - 1)
      /\ \A n \in DOMAIN Tail(queue) : Tail(queue)[n] = queue[n + 1] /\ n + 1 \in DOMAIN queue
  BY QueueSplits
<1>2. \A n \in DOMAIN queue : n = 1 \/ (n - 1 \in DOMAIN Tail(queue) /\ Tail(queue)[n - 1] = queue[n])
  BY <1>1
<1>3. \A i, j \in DOMAIN queue : queue[i].id = queue[j].id => i = j
  BY DEF IdsOnce
<1>4. \A i, j \in DOMAIN Tail(queue) : Tail(queue)[i].id = Tail(queue)[j].id => i = j
  <2> SUFFICES ASSUME NEW i \in DOMAIN Tail(queue), NEW j \in DOMAIN Tail(queue),
                      Tail(queue)[i].id = Tail(queue)[j].id
               PROVE  i = j
    OBVIOUS
  <2>1. i + 1 = j + 1
    BY <1>1, <1>3
  <2>. QED
    BY <1>1, <2>1
<1>5. \A m \in ToSet(Tail(queue)) : m.id # Head(queue).id
  <2> SUFFICES ASSUME NEW n \in DOMAIN Tail(queue), Tail(queue)[n].id = Head(queue).id
               PROVE  FALSE
    BY DEF ToSet
  <2>1. n + 1 = 1
    BY <1>1, <1>3
  <2>. QED
    BY <1>1, <2>1
<1>6. Head(queue) \in ToSet(queue) /\ ToSet(Tail(queue)) \subseteq ToSet(queue)
  BY <1>1 DEF ToSet
<1>7. ToSet(queue) \subseteq ToSet(Tail(queue)) \cup {Head(queue)}
  <2> SUFFICES ASSUME NEW n \in DOMAIN queue
               PROVE  queue[n] \in ToSet(Tail(queue)) \/ queue[n] = Head(queue)
    BY DEF ToSet
  <2>. QED
    BY <1>1, <1>2 DEF ToSet
<1>. QED
  BY <1>4, <1>5, <1>6, <1>7

(* A message is moved on as a whole: from the transport to the end of the  *)
(* queue, from its head to the run that consumes it or to where a run      *)
(* drops it.                                                               *)
LEMMA TransportStep == TypeOK /\ IdsOnce /\ NotYet /\ [Next]_vars => (IdsOnce /\ NotYet)'
<1> USE SendsAssumption, NoMessageIsNone
<1> SUFFICES ASSUME TypeOK, IdsOnce, NotYet, [Next]_vars PROVE IdsOnce' /\ NotYet'
  OBVIOUS
<1>0. /\ queue \in Seq(Message) /\ publishing \subseteq Message /\ dropped \subseteq Message
      /\ message \in [Runs -> Message \cup {NoMessage}]
      /\ task \in [Runs -> {"none", "success", "failed"} \cup Tasks]
      /\ Sends \subseteq Runs /\ DirectRuns \subseteq Runs
      /\ triggering \subseteq Sends
  BY DEF TypeOK, Runs
<1> USE <1>0 DEF Goto, transport, locals
(* Steps that move no message and start no run.                            *)
<1>1. ASSUME UNCHANGED <<sent, publishing, queue, dropped, message>>
      PROVE  IdsOnce'
  BY <1>1 DEF IdsOnce
<1>2. ASSUME UNCHANGED <<sent, triggering, message>>,
             \A x \in Runs : task'[x] = task[x] \/ (task[x] # "none" /\ task'[x] \notin {"none", "consume"})
      PROVE  NotYet'
  BY <1>2 DEF NotYet
<1>3. ASSUME NEW i \in Sends, NEW r \in Requests, Send(i, r) PROVE IdsOnce' /\ NotYet'
  <2> DEFINE m == [id |-> i, request |-> r]
  <2>1. /\ i \notin sent /\ sent' = sent \cup {i} /\ publishing' = publishing \cup {m}
        /\ triggering' = triggering \cup {i} /\ UNCHANGED <<queue, dropped, message, task>>
    BY <1>3 DEF Send
  <2>2. m.id = i
    OBVIOUS
  <2> HIDE DEF m
  <2>3. NotYet'
    BY <2>1 DEF NotYet
  <2>4. IdsOnce'
    BY <2>1, <2>2 DEF IdsOnce
  <2>. QED
    BY <2>3, <2>4
<1>4. ASSUME NEW m \in publishing, Publish(m) PROVE IdsOnce' /\ NotYet'
  <2>1. /\ publishing' = publishing \ {m} /\ queue' = Append(queue, m)
        /\ UNCHANGED <<sent, triggering, dropped, message, task>>
    BY <1>4 DEF Publish
  <2>2. NotYet'
    BY <1>2, <2>1
  <2>3. ToSet(queue') = ToSet(queue) \cup {m}
    BY <2>1, AppendSet
  <2>4. \A i, j \in DOMAIN queue' : queue'[i].id = queue'[j].id => i = j
    <3>1. /\ DOMAIN queue = 1..Len(queue) /\ Len(queue) \in Nat
          /\ DOMAIN queue' = 1..(Len(queue) + 1)
          /\ \A i \in 1..Len(queue) : queue'[i] = queue[i]
          /\ queue'[Len(queue) + 1] = m
      BY <2>1, AppendProperties, LenProperties
    <3>2. \A i \in DOMAIN queue : queue[i].id # m.id
      BY DEF IdsOnce, ToSet
    <3>. QED
      BY <3>1, <3>2 DEF IdsOnce
  <2>5. IdsOnce'
    BY <2>1, <2>3, <2>4 DEF IdsOnce
  <2>. QED
    BY <2>2, <2>5
<1>5. ASSUME NEW m \in publishing, LoseMessage(m) PROVE IdsOnce' /\ NotYet'
  <2>1. /\ publishing' \subseteq publishing
        /\ UNCHANGED <<sent, triggering, queue, dropped, message, task>>
    BY <1>5 DEF LoseMessage
  <2>2. NotYet'
    BY <1>2, <2>1
  <2>3. IdsOnce'
    BY <2>1 DEF IdsOnce
  <2>. QED
    BY <2>2, <2>3
<1>6. ASSUME NEW i \in triggering, StartRun(i) PROVE IdsOnce' /\ NotYet'
  <2>1. IdsOnce'
    BY <1>1, <1>6 DEF StartRun
  <2>2. NotYet'
    BY <1>6 DEF StartRun, NotYet
  <2>. QED
    BY <2>1, <2>2
<1>7. ASSUME NEW i \in triggering, LoseTrigger(i) PROVE IdsOnce' /\ NotYet'
  <2>1. IdsOnce'
    BY <1>1, <1>7 DEF LoseTrigger
  <2>2. NotYet'
    BY <1>7 DEF LoseTrigger, NotYet
  <2>. QED
    BY <2>1, <2>2
<1>8. ASSUME NEW x \in DirectRuns, NEW c \in Clouds, StartDirect(x, c) PROVE IdsOnce' /\ NotYet'
  <2>1. IdsOnce'
    BY <1>1, <1>8 DEF StartDirect
  <2>2. x \notin Sends
    OBVIOUS
  <2>3. NotYet'
    BY <1>8, <2>2 DEF StartDirect, NotYet
  <2>. QED
    BY <2>1, <2>3
<1>9. ASSUME NEW x \in Runs, Consume(x) PROVE IdsOnce' /\ NotYet'
  <2>1. CASE queue = <<>>
    <3>1. IdsOnce'
      BY <1>1, <1>9, <2>1 DEF Consume
    <3>2. NotYet'
      BY <1>2, <1>9, <2>1 DEF Consume
    <3>. QED
      BY <3>1, <3>2
  <2>2. CASE queue # <<>>
    <3>1. /\ task[x] = "consume" /\ task' = [task EXCEPT ![x] = "fetch"]
          /\ message' = [message EXCEPT ![x] = Head(queue)] /\ queue' = Tail(queue)
          /\ UNCHANGED <<sent, triggering, publishing, dropped>>
      BY <1>9, <2>2 DEF Consume
    <3>2. NotYet'
      BY <3>1 DEF NotYet
    <3>3. /\ Head(queue) \in ToSet(queue) /\ ToSet(queue') \subseteq ToSet(queue)
          /\ \A m \in ToSet(queue') : m.id # Head(queue).id
          /\ \A i, j \in DOMAIN queue' : queue'[i].id = queue'[j].id => i = j
      BY <2>2, <3>1, HeadLeaves
    <3>4. \A y \in Runs : message'[y] = IF y = x THEN Head(queue) ELSE message[y]
      BY <3>1
    <3>5. /\ \A y \in Runs : message'[y] # NoMessage => message'[y].id \in sent
          /\ \A y \in Runs, m \in publishing \cup ToSet(queue') \cup dropped :
               message'[y] # NoMessage => message'[y].id # m.id
          /\ \A y, z \in Runs :
               message'[y] # NoMessage /\ message'[z] # NoMessage /\ message'[y].id = message'[z].id
                 => y = z
      BY <3>3, <3>4 DEF IdsOnce
    <3>6. IdsOnce'
      BY <3>1, <3>3, <3>5 DEF IdsOnce
    <3>. QED
      BY <3>2, <3>6
  <2>. QED
    BY <2>1, <2>2
<1>10. ASSUME NEW x \in Runs, ConsumeDies(x) PROVE IdsOnce' /\ NotYet'
  <2>1. /\ task[x] = "consume" /\ queue # <<>> /\ dropped' = dropped \cup {Head(queue)}
        /\ queue' = Tail(queue) /\ UNCHANGED <<sent, triggering, publishing, message>>
        /\ \A y \in Runs : y # x => task'[y] = task[y]
        /\ task'[x] \in {"failed", "consume"}
    BY <1>10 DEF ConsumeDies
  <2>2. NotYet'
    BY <2>1 DEF NotYet
  <2>3. /\ Head(queue) \in ToSet(queue) /\ ToSet(queue') \subseteq ToSet(queue)
        /\ \A m \in ToSet(queue') : m.id # Head(queue).id
        /\ \A i, j \in DOMAIN queue' : queue'[i].id = queue'[j].id => i = j
    BY <2>1, HeadLeaves
  <2>4. IdsOnce'
    BY <2>1, <2>3 DEF IdsOnce
  <2>. QED
    BY <2>2, <2>4
<1>11. ASSUME NEW x \in Runs,
              \/ Fetch(x) \/ WriteFiles(x) \/ ApplyGroup(x) \/ Branch(x) \/ TaskFails(x)
              \/ \E k \in Kinds : TriggerChild(x, k) \/ TriggerFails(x, k)
       PROVE  IdsOnce' /\ NotYet'
  <2>1. UNCHANGED <<sent, triggering, publishing, queue, dropped, message>>
    BY <1>11 DEF Fetch, WriteFiles, ApplyGroup, Branch, TaskFails, TriggerChild, TriggerFails,
                 TriggerEnds
  <2>2. /\ \A y \in Runs : y # x => task'[y] = task[y]
        /\ task[x] # "none" /\ task'[x] \notin {"none", "consume"}
    BY <1>11 DEF Fetch, WriteFiles, ApplyGroup, Branch, TaskFails, TriggerChild, TriggerFails,
                 TriggerEnds, Tasks
  <2>. QED
    BY <1>1, <1>2, <2>1, <2>2
<1>12. ASSUME (\E r \in Requests : RemoveRequest(r)) \/ UNCHANGED vars
       PROVE  IdsOnce' /\ NotYet'
  <2>1. UNCHANGED <<sent, triggering, publishing, queue, dropped, message, task>>
    BY <1>12 DEF RemoveRequest, vars
  <2>. QED
    BY <1>1, <1>2, <2>1
<1>. QED
  BY <1>3, <1>4, <1>5, <1>6, <1>7, <1>8, <1>9, <1>10, <1>11, <1>12
     DEF Next, Deliver, Faults, RunStep, Work

(* So a message is always in one place, and a run has at most one.         *)
LEMMA TransportInvariant == Spec => [](IdsOnce /\ NotYet)
<1> USE SendsAssumption, NoMessageIsNone
<1>1. Init => IdsOnce /\ NotYet
  BY EmptySeq DEF Init, IdsOnce, NotYet, ToSet, Runs
<1>. QED
  BY <1>1, TransportStep, TypeCorrect, PTL DEF Spec

(* No run works on a message that is still queued, that was dropped or     *)
(* that another run has.                                                   *)
THEOREM MessagesAreNotShared == Spec => []NoMessageTwice
<1>1. IdsOnce => NoMessageTwice
  BY DEF IdsOnce, NoMessageTwice
<1>. QED
  BY <1>1, TransportInvariant, PTL

----------------------------------------------------------------------------
(* Where a message is, in the words of Delivery.                           *)
Underway(i) == \E m \in publishing : m.id = i
Queued(i)   == \E m \in ToSet(queue) : m.id = i
Taken(i)    == \E x \in Runs : message[x].id = i

Line  == [n \in DOMAIN queue |-> queue[n].id]
Taker == [x \in Runs |-> message[x] # NoMessage]

(* It is in one of these places only.                                      *)
LEMMA PlacesExclude ==
  ASSUME TypeOK, IdsOnce, NEW i \in Sends
  PROVE  /\ Underway(i) => i \in sent /\ ~Queued(i) /\ ~Taken(i)
         /\ Queued(i) => i \in sent /\ ~Taken(i)
         /\ Taken(i) => i \in sent
BY SendsAssumption DEF TypeOK, IdsOnce, Underway, Queued, Taken, NoMessage

PlaceRule ==
  /\ \A i \in Sends : Place[i] = IF i \notin sent THEN "unsent"
                                 ELSE IF Underway(i) THEN "underway"
                                 ELSE IF Queued(i) THEN "queued"
                                 ELSE IF Taken(i) THEN "taken" ELSE "lost"
  /\ Place = [i \in Sends |-> Place[i]]

LEMMA PlaceOf == PlaceRule
BY Zenon DEF PlaceRule, Place, Underway, Queued, Taken

(* The line as the queue grows and shrinks.                                *)
LEMMA LineGrows ==
  ASSUME queue \in Seq(Message), NEW m \in Message, queue' = Append(queue, m)
  PROVE  Line' = Append(Line, m.id)
<1>1. /\ DOMAIN queue = 1..Len(queue) /\ Len(queue) \in Nat
      /\ \A n \in 1..Len(queue) : queue[n] \in Message
      /\ DOMAIN queue' = 1..(Len(queue) + 1)
      /\ \A n \in 1..Len(queue) : queue'[n] = queue[n]
      /\ queue'[Len(queue) + 1] = m
  BY LenProperties, ElementOfSeq, AppendProperties
<1>2. Line \in [1..Len(queue) -> Sends] /\ \A n \in 1..Len(queue) : Line[n] = queue[n].id
  BY <1>1 DEF Line, Message
<1>3. Line' \in [1..(Len(queue) + 1) -> Sends]
      /\ \A n \in 1..(Len(queue) + 1) : Line'[n] = queue'[n].id
  BY <1>1 DEF Line, Message
<1>4. Line \in Seq(Sends) /\ Len(Line) = Len(queue)
  BY <1>1, <1>2, FunctionIsSeq
<1>5. Line' \in Seq(Sends) /\ Len(Line') = Len(queue) + 1
  BY <1>1, <1>3, FunctionIsSeq
<1>6. /\ \A n \in 1..Len(Line) : Line'[n] = Line[n]
      /\ Line'[Len(Line) + 1] = m.id
  BY <1>1, <1>2, <1>3, <1>4
<1>7. m.id \in Sends
  BY DEF Message
<1>. QED
  BY <1>4, <1>5, <1>6, <1>7, IsAppend

LEMMA LineShrinks ==
  ASSUME queue \in Seq(Message), queue # <<>>, queue' = Tail(queue)
  PROVE  Line # <<>> /\ Head(Line) = Head(queue).id /\ Line' = Tail(Line)
<1>1. /\ DOMAIN queue = 1..Len(queue) /\ Len(queue) \in Nat /\ Len(queue) # 0
      /\ \A n \in 1..Len(queue) : queue[n] \in Message
      /\ Head(queue) = queue[1]
      /\ DOMAIN queue' = 1..(Len(queue) - 1)
      /\ \A n \in 1..(Len(queue) - 1) : queue'[n] = queue[n + 1]
  BY EmptySeq, LenProperties, ElementOfSeq, QueueSplits
<1>2. Line \in [1..Len(queue) -> Sends] /\ \A n \in 1..Len(queue) : Line[n] = queue[n].id
  BY <1>1 DEF Line, Message
<1>3. Line' \in [1..(Len(queue) - 1) -> Sends]
      /\ \A n \in 1..(Len(queue) - 1) : Line'[n] = queue[n + 1].id
  <2>1. \A n \in 1..(Len(queue) - 1) : n + 1 \in 1..Len(queue)
    BY <1>1
  <2>. QED
    BY <1>1, <2>1 DEF Line, Message
<1>4. Line \in Seq(Sends) /\ Len(Line) = Len(queue)
  BY <1>1, <1>2, FunctionIsSeq
<1>5. Line' \in Seq(Sends) /\ Len(Line') = Len(queue) - 1
  <2>1. Len(queue) - 1 \in Nat
    BY <1>1
  <2>. QED
    BY <1>3, <2>1, FunctionIsSeq
<1>6. Line # <<>>
  BY <1>1, <1>4, EmptySeq
<1>7. \A n \in 1..Len(Line') : Line'[n] = Line[n + 1]
  <2>1. \A n \in 1..(Len(queue) - 1) : n + 1 \in 1..Len(queue)
    BY <1>1
  <2>. QED
    BY <1>1, <1>2, <1>3, <1>5, <2>1
<1>8. Line' = Tail(Line)
  BY <1>1, <1>4, <1>5, <1>6, <1>7, IsTail
<1>9. Head(Line) = Head(queue).id
  <2>1. Head(Line) = Line[1]
    BY <1>4, <1>6, QueueSplits
  <2>. QED
    BY <1>1, <1>2, <2>1
<1>. QED
  BY <1>6, <1>8, <1>9

(* The transport, the consumers of both DAGs and their retries deliver     *)
(* each message at most once, to one run, in order of arrival.             *)
THEOREM QueueImplementsDelivery == Spec => DeliversAtMostOnce
<1> USE SendsAssumption, NoMessageIsNone
<1>1. Init => D!Init
  <2> SUFFICES ASSUME Init PROVE D!Init
    OBVIOUS
  <2>1. Place = [i \in Sends |-> "unsent"]
    BY DEF Init, Place
  <2>2. Line = <<>>
    BY DEF Init, Line
  <2>3. Taker = [x \in Runs |-> FALSE]
    BY DEF Init, Taker
  <2>. QED
    BY <2>1, <2>2, <2>3 DEF D!Init, Line, Taker
<1>2. TypeOK /\ IdsOnce /\ NotYet /\ PlaceRule /\ (TypeOK /\ IdsOnce /\ PlaceRule)' /\ [Next]_vars
        => [D!Next]_(D!vars)
  <2> SUFFICES ASSUME TypeOK, IdsOnce, NotYet, PlaceRule,
                      TypeOK', IdsOnce', PlaceRule', [Next]_vars
               PROVE  D!Next \/ UNCHANGED <<Place, Line, Taker>>
    BY DEF D!vars, Line, Taker
  <2>0. /\ queue \in Seq(Message) /\ publishing \subseteq Message
        /\ message \in [Runs -> Message \cup {NoMessage}] /\ sent \subseteq Sends
        /\ \A m \in Message : m.id \in Sends
    BY DEF TypeOK, Message
  <2> USE <2>0 DEF transport, locals
  <2>1. \A i \in Sends :
          /\ Underway(i) => i \in sent /\ ~Queued(i) /\ ~Taken(i)
          /\ Queued(i) => i \in sent /\ ~Taken(i)
          /\ Taken(i) => i \in sent
    BY PlacesExclude
  (* A message moves from one place to another.                            *)
  <2>2. ASSUME NEW i \in Sends, NEW to, Place'[i] = to,
               \A j \in Sends : j # i =>
                 /\ j \in sent' <=> j \in sent
                 /\ Underway(j)' <=> Underway(j)
                 /\ Queued(j)' <=> Queued(j)
                 /\ Taken(j)' <=> Taken(j)
        PROVE  Place' = [Place EXCEPT ![i] = to]
    <3>1. \A j \in Sends : j # i => Place'[j] = Place[j]
      BY <2>2 DEF PlaceRule
    <3>. QED
      BY <2>2, <3>1 DEF PlaceRule
  <2>3. ASSUME NEW i \in Sends, NEW r \in Requests, Send(i, r) PROVE D!Send(i)
    <3>1. /\ i \notin sent /\ sent' = sent \cup {i} /\ UNCHANGED <<queue, message>>
          /\ publishing' = publishing \cup {[id |-> i, request |-> r]}
      BY <2>3 DEF Send
    <3>2. Underway(i)' /\ i \in sent'
      <4>1. [id |-> i, request |-> r].id = i /\ [id |-> i, request |-> r] \in publishing'
        BY <3>1
      <4>. QED
        BY <3>1, <4>1 DEF Underway
    <3>3. \A j \in Sends : j # i =>
            (Underway(j)' <=> Underway(j)) /\ (j \in sent' <=> j \in sent)
      BY <3>1 DEF Underway
    <3>4. \A j \in Sends : (Queued(j)' <=> Queued(j)) /\ (Taken(j)' <=> Taken(j))
      BY <3>1 DEF Queued, Taken
    <3>5. Place[i] = "unsent" /\ Place'[i] = "underway"
      BY <3>1, <3>2 DEF PlaceRule
    <3>6. Place' = [Place EXCEPT ![i] = "underway"]
      BY <2>2, <3>3, <3>4, <3>5
    <3>. QED
      BY <3>1, <3>5, <3>6 DEF D!Send, D!Move
  <2>4. ASSUME NEW m \in publishing, Publish(m) PROVE D!Arrive(m.id)
    <3>1. /\ publishing' = publishing \ {m} /\ queue' = Append(queue, m)
          /\ UNCHANGED <<sent, message>> /\ m.id \in Sends /\ m \in Message
      BY <2>4 DEF Publish
    <3>2. ToSet(queue') = ToSet(queue) \cup {m}
      BY <3>1, AppendSet
    <3>3. \A j \in Sends : j # m.id =>
            (Underway(j)' <=> Underway(j)) /\ (Queued(j)' <=> Queued(j)) /\ (Taken(j)' <=> Taken(j))
      BY <3>1, <3>2 DEF Underway, Queued, Taken
    <3>4. Underway(m.id) /\ ~Underway(m.id)' /\ Queued(m.id)'
      BY <3>1, <3>2 DEF Underway, Queued, IdsOnce
    <3>5. Place[m.id] = "underway" /\ Place'[m.id] = "queued"
      BY <2>1, <3>1, <3>4 DEF PlaceRule
    <3>6. Place' = [Place EXCEPT ![m.id] = "queued"]
      BY <2>2, <3>1, <3>3, <3>5
    <3>7. Line' = Append(Line, m.id) /\ Taker' = Taker
      BY <3>1, LineGrows DEF Taker
    <3>. QED
      BY <3>5, <3>6, <3>7 DEF D!Arrive, D!Move, Line, Taker
  <2>5. ASSUME NEW m \in publishing, LoseMessage(m) PROVE D!Lose(m.id)
    <3>1. /\ publishing' = publishing \ {m} /\ UNCHANGED <<sent, queue, message>>
          /\ m.id \in Sends /\ m \in Message
      BY <2>5 DEF LoseMessage
    <3>2. \A j \in Sends : j # m.id => (Underway(j)' <=> Underway(j))
      BY <3>1 DEF Underway
    <3>3. \A j \in Sends : (Queued(j)' <=> Queued(j)) /\ (Taken(j)' <=> Taken(j))
      BY <3>1 DEF Queued, Taken
    <3>4. Underway(m.id) /\ ~Underway(m.id)'
      BY <3>1 DEF Underway, IdsOnce
    <3>5. Place[m.id] = "underway" /\ Place'[m.id] = "lost"
      BY <2>1, <3>1, <3>3, <3>4 DEF PlaceRule
    <3>6. Place' = [Place EXCEPT ![m.id] = "lost"]
      BY <2>2, <3>1, <3>2, <3>3, <3>5
    <3>. QED
      BY <3>1, <3>5, <3>6 DEF D!Lose, D!Move
  (* Both ways in which the head leaves the queue.                         *)
  <2>6. ASSUME queue # <<>>, queue' = Tail(queue), UNCHANGED <<sent, publishing>>,
               NEW i \in Sends, i = Head(queue).id
        PROVE  /\ Line # <<>> /\ Head(Line) = i /\ Line' = Tail(Line)
               /\ i \in sent /\ Place[i] = "queued"
               /\ ~Underway(i)' /\ ~Queued(i)' /\ ~Taken(i)
               /\ \A j \in Sends : /\ Underway(j)' <=> Underway(j)
                                   /\ j # i => (Queued(j)' <=> Queued(j))
    <3>1. Line # <<>> /\ Head(Line) = i /\ Line' = Tail(Line)
      BY <2>6, LineShrinks
    <3>2. /\ Head(queue) \in ToSet(queue)
          /\ ToSet(queue') \subseteq ToSet(queue)
          /\ ToSet(queue) \subseteq ToSet(queue') \cup {Head(queue)}
          /\ \A m \in ToSet(queue') : m.id # i
      BY <2>6, HeadLeaves
    <3>3. Queued(i) /\ ~Queued(i)'
      BY <2>6, <3>2 DEF Queued
    <3>4. \A j \in Sends : Underway(j)' <=> Underway(j)
      BY <2>6 DEF Underway
    <3>5. \A j \in Sends : j # i => (Queued(j)' <=> Queued(j))
      BY <2>6, <3>2 DEF Queued
    <3>6. Place[i] = "queued" /\ ~Underway(i) /\ ~Taken(i) /\ i \in sent
      BY <2>1, <3>3 DEF PlaceRule
    <3>. QED
      BY <3>1, <3>3, <3>4, <3>5, <3>6
  <2>7. ASSUME NEW x \in Runs, Consume(x), queue # <<>> PROVE D!Take(x)
    <3>1. /\ message' = [message EXCEPT ![x] = Head(queue)] /\ queue' = Tail(queue)
          /\ UNCHANGED <<sent, publishing>> /\ task[x] = "consume"
      BY <2>7 DEF Consume
    <3>2. PICK i \in Sends : i = Head(queue).id
      BY <2>7, QueueSplits
    <3>3. message[x] = NoMessage /\ Head(queue) # NoMessage
      BY <2>7, <3>1, QueueSplits DEF NotYet
    <3>4. Taken(i)' /\ \A j \in Sends : j # i => (Taken(j)' <=> Taken(j))
      <4>1. \A y \in Runs : message'[y] = IF y = x THEN Head(queue) ELSE message[y]
        BY <3>1
      <4>2. message[x].id = None
        BY <3>3 DEF NoMessage
      <4>. QED
        BY <3>2, <4>1, <4>2 DEF Taken
    <3>5. /\ Line # <<>> /\ Head(Line) = i /\ Line' = Tail(Line)
          /\ i \in sent /\ Place[i] = "queued"
          /\ ~Underway(i)' /\ ~Queued(i)'
          /\ \A j \in Sends : /\ Underway(j)' <=> Underway(j)
                              /\ j # i => (Queued(j)' <=> Queued(j))
      BY <2>6, <2>7, <3>1, <3>2
    <3>6. Place'[i] = "taken"
      BY <3>1, <3>4, <3>5 DEF PlaceRule
    <3>7. Place' = [Place EXCEPT ![i] = "taken"]
      BY <2>2, <3>1, <3>4, <3>5, <3>6
    <3>8. ~Taker[x] /\ Taker' = [Taker EXCEPT ![x] = TRUE]
      BY <3>1, <3>3 DEF Taker
    <3>. QED
      BY <3>5, <3>7, <3>8 DEF D!Take, D!Move, Line, Taker
  <2>8. ASSUME NEW x \in Runs, ConsumeDies(x) PROVE D!Drop
    <3>1. queue # <<>> /\ queue' = Tail(queue) /\ UNCHANGED <<sent, publishing, message>>
      BY <2>8 DEF ConsumeDies
    <3>2. PICK i \in Sends : i = Head(queue).id
      BY <3>1, QueueSplits
    <3>3. \A j \in Sends : Taken(j)' <=> Taken(j)
      BY <3>1 DEF Taken
    <3>4. /\ Line # <<>> /\ Head(Line) = i /\ Line' = Tail(Line)
          /\ i \in sent /\ Place[i] = "queued"
          /\ ~Underway(i)' /\ ~Queued(i)' /\ ~Taken(i)
          /\ \A j \in Sends : /\ Underway(j)' <=> Underway(j)
                              /\ j # i => (Queued(j)' <=> Queued(j))
      BY <2>6, <3>1, <3>2
    <3>5. Place'[i] = "lost"
      BY <3>1, <3>3, <3>4 DEF PlaceRule
    <3>6. Place' = [Place EXCEPT ![i] = "lost"]
      BY <2>2, <3>1, <3>3, <3>4, <3>5
    <3>7. Taker' = Taker
      BY <3>1 DEF Taker
    <3>. QED
      BY <3>4, <3>6, <3>7 DEF D!Drop, D!Move, Line, Taker
  <2>9. ASSUME UNCHANGED <<sent, publishing, queue, message>>
        PROVE  UNCHANGED <<Place, Line, Taker>>
    BY <2>9 DEF Place, Line, Taker
  <2>10. ASSUME NEW x \in Runs, Consume(x), queue = <<>> PROVE UNCHANGED <<Place, Line, Taker>>
    BY <2>9, <2>10 DEF Consume
  <2>11. ASSUME \/ \E i \in triggering : StartRun(i) \/ LoseTrigger(i)
                \/ \E x \in DirectRuns, c \in Clouds : StartDirect(x, c)
                \/ \E r \in Requests : RemoveRequest(r)
                \/ UNCHANGED vars
         PROVE  UNCHANGED <<Place, Line, Taker>>
    BY <2>9, <2>11 DEF StartRun, LoseTrigger, StartDirect, RemoveRequest, vars
  <2>12. ASSUME NEW x \in Runs,
                \/ Fetch(x) \/ WriteFiles(x) \/ ApplyGroup(x) \/ Branch(x) \/ TaskFails(x)
                \/ \E k \in Kinds : TriggerChild(x, k) \/ TriggerFails(x, k)
         PROVE  UNCHANGED <<Place, Line, Taker>>
    BY <2>9, <2>12 DEF Fetch, WriteFiles, ApplyGroup, Branch, TaskFails, TriggerChild,
                       TriggerFails, TriggerEnds
  <2>. QED
    BY <2>3, <2>4, <2>5, <2>7, <2>8, <2>10, <2>11, <2>12
       DEF Next, Deliver, Faults, RunStep, Work, D!Next
<1>. QED
  BY <1>1, <1>2, TypeCorrect, TransportInvariant, PlaceOf, PTL DEF Spec, DeliversAtMostOnce, D!Spec

----------------------------------------------------------------------------
(* The kinds a run has still to trigger are kinds its message's request    *)
(* asks for, in the cloud the run is of.                                   *)
BranchesAsked ==
  \A x \in Runs :
    /\ task[x] \in {"none", "consume", "fetch"} => branches[x] = {}
    /\ \A k \in branches[x] :
         k \in Wanted[message[x].request] /\ Provider[message[x].request] = dag[x]

(* A run that has triggered something has started: its DAG is settled.     *)
TriggeredHaveStarted == \A t \in triggered : task[t.run] # "none"

(* No run starts a provisioning DAG for a kind its request does not ask    *)
(* for, or in a cloud that is not the request's, whatever message it took. *)
THEOREM ChildrenMatch == Spec => []ChildrenMatchRequest
<1> DEFINE Inv == BranchesAsked /\ TriggeredHaveStarted /\ ChildrenMatchRequest
<1> USE SendsAssumption, ProviderAssumption, WantedAssumption
<1>1. Init => Inv
  BY DEF Init, BranchesAsked, TriggeredHaveStarted, ChildrenMatchRequest
<1>2. TypeOK /\ NotYet /\ Inv /\ [Next]_vars => Inv'
  <2> SUFFICES ASSUME TypeOK, NotYet, Inv, [Next]_vars PROVE Inv'
    OBVIOUS
  <2>0. /\ task \in [Runs -> {"none", "success", "failed"} \cup Tasks]
        /\ dag \in [Runs -> Clouds \cup {None}] /\ branches \in [Runs -> SUBSET Kinds]
        /\ message \in [Runs -> Message \cup {NoMessage}]
        /\ Sends \subseteq Runs /\ DirectRuns \subseteq Runs /\ triggering \subseteq Sends
        /\ \A t \in triggered : t.run \in Runs
    BY DEF TypeOK, Runs, Child
  <2> USE <2>0 DEF Goto, transport, locals
  (* A run that has not started is given its DAG, or starts.               *)
  <2>1. ASSUME NEW x \in Runs, task[x] = "none", UNCHANGED <<message, branches, triggered>>,
               \A y \in Runs : y # x => task'[y] = task[y] /\ dag'[y] = dag[y],
               task'[x] \in {"none", "consume"}
        PROVE  Inv'
    <3>1. branches[x] = {} /\ \A t \in triggered : t.run # x
      BY <2>1 DEF BranchesAsked, TriggeredHaveStarted
    <3>2. BranchesAsked'
      BY <2>1, <3>1 DEF BranchesAsked
    <3>3. TriggeredHaveStarted'
      BY <2>1, <3>1 DEF TriggeredHaveStarted
    <3>4. ChildrenMatchRequest'
      BY <2>1, <3>1 DEF ChildrenMatchRequest
    <3>. QED
      BY <3>2, <3>3, <3>4
  <2>2. ASSUME NEW i \in Sends, NEW r \in Requests, Send(i, r) PROVE Inv'
    <3>1. task[i] = "none" /\ i \in Runs
      BY <2>2 DEF Send, NotYet
    <3>2. /\ UNCHANGED <<task, message, branches, triggered>>
          /\ \A y \in Runs : y # i => dag'[y] = dag[y]
      BY <2>2 DEF Send
    <3>. QED
      BY <2>1, <3>1, <3>2
  <2>3. ASSUME NEW i \in triggering, StartRun(i) PROVE Inv'
    <3>1. task[i] = "none" /\ i \in Runs
      BY <2>3 DEF NotYet
    <3>2. /\ UNCHANGED <<dag, message, branches, triggered>> /\ task'[i] = "consume"
          /\ \A y \in Runs : y # i => task'[y] = task[y]
      BY <2>3, <3>1 DEF StartRun
    <3>. QED
      BY <2>1, <3>1, <3>2
  <2>4. ASSUME NEW x \in DirectRuns, NEW c \in Clouds, StartDirect(x, c) PROVE Inv'
    <3>1. /\ task[x] = "none" /\ x \in Runs /\ task'[x] = "consume"
          /\ UNCHANGED <<message, branches, triggered>>
          /\ \A y \in Runs : y # x => task'[y] = task[y] /\ dag'[y] = dag[y]
      BY <2>4 DEF StartDirect
    <3>. QED
      BY <2>1, <3>1
  (* A run that has started goes on.                                       *)
  <2>5. ASSUME NEW x \in Runs, task[x] # "none", task'[x] # "none",
               UNCHANGED dag, \A y \in Runs : y # x => task'[y] = task[y],
               BranchesAsked', triggered' = triggered
        PROVE  Inv'
    <3>1. TriggeredHaveStarted'
      BY <2>5 DEF TriggeredHaveStarted
    <3>2. ChildrenMatchRequest'
      BY <2>5 DEF ChildrenMatchRequest
    <3>. QED
      BY <2>5, <3>1, <3>2
  <2>6. ASSUME NEW x \in Runs, Consume(x) \/ ConsumeDies(x) PROVE Inv'
    <3>1. /\ task[x] = "consume" /\ task'[x] \in {"consume", "fetch", "failed"}
          /\ UNCHANGED <<dag, branches, triggered>>
          /\ \A y \in Runs : y # x => task'[y] = task[y] /\ message'[y] = message[y]
      BY <2>6 DEF Consume, ConsumeDies
    <3>2. BranchesAsked'
      BY <3>1 DEF BranchesAsked
    <3>. QED
      BY <2>5, <3>1, <3>2
  <2>7. ASSUME NEW x \in Runs, Fetch(x) PROVE Inv'
    <3>1. /\ task[x] = "fetch" /\ task'[x] \in {"write", "branch", "failed"}
          /\ UNCHANGED <<dag, message, triggered>>
          /\ \A y \in Runs : y # x => task'[y] = task[y] /\ branches'[y] = branches[y]
          /\ branches'[x] \in {branches[x], Counted(x)}
      BY <2>7 DEF Fetch
    <3>2. \A k \in Counted(x) :
            k \in Wanted[message[x].request] /\ Provider[message[x].request] = dag[x]
      BY DEF Counted
    <3>3. BranchesAsked'
      BY <3>1, <3>2 DEF BranchesAsked
    <3>. QED
      BY <2>5, <3>1, <3>3
  <2>8. ASSUME NEW x \in Runs, WriteFiles(x) \/ ApplyGroup(x) \/ Branch(x) \/ TaskFails(x)
        PROVE  Inv'
    <3>1. /\ task[x] # "none" /\ task'[x] \notin {"none", "consume", "fetch"}
          /\ UNCHANGED <<dag, message, branches, triggered>>
          /\ \A y \in Runs : y # x => task'[y] = task[y]
      BY <2>8 DEF WriteFiles, ApplyGroup, Branch, TaskFails, Tasks
    <3>2. BranchesAsked'
      BY <3>1 DEF BranchesAsked
    <3>. QED
      BY <2>5, <3>1, <3>2
  <2>9. ASSUME NEW x \in Runs, NEW k \in Kinds, TriggerChild(x, k) \/ TriggerFails(x, k)
        PROVE  Inv'
    <3>1. /\ task[x] = "trigger" /\ task'[x] \in {"trigger", "failed", "success"}
          /\ k \in branches[x] /\ branches' = [branches EXCEPT ![x] = branches[x] \ {k}]
          /\ UNCHANGED <<dag, message>> /\ \A y \in Runs : y # x => task'[y] = task[y]
          /\ triggered' \subseteq
               triggered \cup {[run |-> x, request |-> message[x].request, kind |-> k]}
      BY <2>9 DEF TriggerChild, TriggerFails, TriggerEnds
    <3>2. BranchesAsked'
      BY <3>1 DEF BranchesAsked
    <3>3. TriggeredHaveStarted'
      BY <3>1 DEF TriggeredHaveStarted
    <3>4. ChildrenMatchRequest'
      BY <3>1 DEF ChildrenMatchRequest, BranchesAsked
    <3>. QED
      BY <3>2, <3>3, <3>4
  <2>10. ASSUME \/ \E m \in publishing : Publish(m) \/ LoseMessage(m)
                \/ \E i \in triggering : LoseTrigger(i)
                \/ \E r \in Requests : RemoveRequest(r)
                \/ UNCHANGED vars
         PROVE  Inv'
    <3>1. UNCHANGED <<task, dag, message, branches, triggered>>
      BY <2>10 DEF Publish, LoseMessage, LoseTrigger, RemoveRequest, vars
    <3>. QED
      BY <3>1 DEF BranchesAsked, TriggeredHaveStarted, ChildrenMatchRequest
  <2>. QED
    BY <2>2, <2>3, <2>4, <2>6, <2>7, <2>8, <2>9, <2>10 DEF Next, Deliver, Faults, RunStep, Work
<1>3. Inv => ChildrenMatchRequest
  OBVIOUS
<1>. QED
  BY <1>1, <1>2, <1>3, TypeCorrect, TransportInvariant, PTL DEF Spec

----------------------------------------------------------------------------
DistinctNames == \A r, s \in Requests : DirName[r] = DirName[s] => r = s

(* The directory of a resource group holds nothing of another request.     *)
OwnGroupFiles ==
  \A r \in Requests :
    /\ store.files[Directory(r, "rg")] \in {None, r}
    /\ store.state[Directory(r, "rg")] \in {None, r}

(* A run of the Azure DAG that has got past terraform apply has the group. *)
GroupMade ==
  \A x \in Runs : dag[x] = "AZURE" /\ task[x] \in {"branch", "trigger"} =>
    <<message[x].request, "rg">> \in store.cloud

Grouping == OwnGroupFiles /\ GroupMade /\ GroupBeforeChildren /\ TriggeredHaveStarted

(* If no two requests share a directory, an apply never takes away what    *)
(* another run has made, and the group is there when the DAGs that look it *)
(* up are started.                                                         *)
THEOREM GroupComesFirst ==
  ASSUME DistinctNames
  PROVE  Spec => []GroupBeforeChildren
<1> USE SendsAssumption, ProviderAssumption, WantedAssumption
<1>1. Init => Grouping
  BY DEF Init, EmptyStore, Directory, Dirs, Names, TfKinds, Grouping, OwnGroupFiles, GroupMade,
         GroupBeforeChildren, TriggeredHaveStarted
<1>2. TypeOK /\ HasWork /\ NotYet /\ Grouping /\ [Next]_vars => Grouping'
  <2> SUFFICES ASSUME TypeOK, HasWork, NotYet, Grouping, [Next]_vars PROVE Grouping'
    OBVIOUS
  <2>0. /\ task \in [Runs -> {"none", "success", "failed"} \cup Tasks]
        /\ dag \in [Runs -> Clouds \cup {None}] /\ store \in Stores
        /\ message \in [Runs -> Message \cup {NoMessage}]
        /\ Sends \subseteq Runs /\ DirectRuns \subseteq Runs /\ triggering \subseteq Sends
        /\ \A t \in triggered : t.run \in Runs
    BY DEF TypeOK, Runs, Child
  <2> USE <2>0 DEF Goto, transport, locals, Grouping
  (* A run that has not started is given its DAG, or starts.               *)
  <2>1. ASSUME NEW x \in Runs, task[x] = "none", UNCHANGED <<message, triggered, store>>,
               \A y \in Runs : y # x => task'[y] = task[y] /\ dag'[y] = dag[y],
               task'[x] \in {"none", "consume"}
        PROVE  Grouping'
    <3>1. \A t \in triggered : t.run # x
      BY <2>1 DEF TriggeredHaveStarted
    <3>2. OwnGroupFiles'
      BY <2>1 DEF OwnGroupFiles
    <3>3. GroupMade'
      BY <2>1 DEF GroupMade
    <3>4. GroupBeforeChildren' /\ TriggeredHaveStarted'
      BY <2>1, <3>1 DEF GroupBeforeChildren, TriggeredHaveStarted
    <3>. QED
      BY <3>2, <3>3, <3>4
  <2>2. ASSUME NEW i \in Sends, NEW r \in Requests, Send(i, r) PROVE Grouping'
    <3>1. task[i] = "none" /\ i \in Runs
      BY <2>2 DEF Send, NotYet
    <3>2. /\ UNCHANGED <<task, message, triggered, store>>
          /\ \A y \in Runs : y # i => dag'[y] = dag[y]
      BY <2>2 DEF Send
    <3>. QED
      BY <2>1, <3>1, <3>2
  <2>3. ASSUME NEW i \in triggering, StartRun(i) PROVE Grouping'
    <3>1. task[i] = "none" /\ i \in Runs
      BY <2>3 DEF NotYet
    <3>2. /\ UNCHANGED <<dag, message, triggered, store>> /\ task'[i] = "consume"
          /\ \A y \in Runs : y # i => task'[y] = task[y]
      BY <2>3, <3>1 DEF StartRun
    <3>. QED
      BY <2>1, <3>1, <3>2
  <2>4. ASSUME NEW x \in DirectRuns, NEW c \in Clouds, StartDirect(x, c) PROVE Grouping'
    <3>1. /\ task[x] = "none" /\ x \in Runs /\ task'[x] = "consume"
          /\ UNCHANGED <<message, triggered, store>>
          /\ \A y \in Runs : y # x => task'[y] = task[y] /\ dag'[y] = dag[y]
      BY <2>4 DEF StartDirect
    <3>. QED
      BY <2>1, <3>1
  (* A run that has started goes on: the group it needs is there.          *)
  <2>5. ASSUME NEW x \in Runs, task[x] # "none", task'[x] # "none",
               UNCHANGED <<dag, triggered>>,
               \A y \in Runs : y # x => task'[y] = task[y] /\ message'[y] = message[y],
               OwnGroupFiles',
               \A r \in Requests : <<r, "rg">> \in store.cloud => <<r, "rg">> \in store'.cloud,
               dag[x] = "AZURE" /\ task'[x] \in {"branch", "trigger"} =>
                 <<message'[x].request, "rg">> \in store'.cloud
        PROVE  Grouping'
    <3>1. GroupMade'
      <4> SUFFICES ASSUME NEW y \in Runs, dag[y] = "AZURE", task'[y] \in {"branch", "trigger"}
                   PROVE  <<message'[y].request, "rg">> \in store'.cloud
        BY <2>5 DEF GroupMade
      <4>1. CASE y = x
        BY <2>5, <4>1
      <4>2. CASE y # x
        <5>1. message[y].request \in Requests
          BY <2>5, <4>2 DEF HasWork, Fetched, Message
        <5>. QED
          BY <2>5, <4>2, <5>1 DEF GroupMade
      <4>. QED
        BY <4>1, <4>2
    <3>2. TriggeredHaveStarted'
      BY <2>5 DEF TriggeredHaveStarted
    <3>3. GroupBeforeChildren'
      <4>1. \A t \in triggered : t.request \in Requests
        BY DEF TypeOK, Child
      <4>. QED
        BY <2>5, <4>1 DEF GroupBeforeChildren
    <3>. QED
      BY <2>5, <3>1, <3>2, <3>3
  <2>6. ASSUME NEW x \in Runs, Consume(x) \/ ConsumeDies(x) PROVE Grouping'
    <3>1. /\ task[x] = "consume" /\ task'[x] \in {"consume", "fetch", "failed"}
          /\ UNCHANGED <<dag, triggered, store>>
          /\ \A y \in Runs : y # x => task'[y] = task[y] /\ message'[y] = message[y]
      BY <2>6 DEF Consume, ConsumeDies
    <3>. QED
      BY <2>5, <3>1 DEF OwnGroupFiles
  <2>7. ASSUME NEW x \in Runs, Fetch(x) PROVE Grouping'
    <3>1. /\ task[x] = "fetch" /\ task'[x] # "none"
          /\ task'[x] \in {"branch", "trigger"} => dag[x] # "AZURE"
          /\ UNCHANGED <<dag, message, triggered, store>>
          /\ \A y \in Runs : y # x => task'[y] = task[y]
      BY <2>7 DEF Fetch
    <3>. QED
      BY <2>5, <3>1 DEF OwnGroupFiles
  <2>w. ASSUME NEW x \in Runs, NEW r \in Requests, GroupDir(x) = Directory(r, "rg"),
               store'.files \in {store.files, [store.files EXCEPT ![GroupDir(x)] = r]},
               store'.state = store.state
        PROVE  OwnGroupFiles'
    <3>1. \A s \in Requests : Directory(s, "rg") \in Dirs /\ (Directory(s, "rg") = GroupDir(x) => s = r)
      BY <2>w DEF Directory, Dirs, Names, TfKinds, DistinctNames
    <3>. QED
      BY <2>w, <3>1 DEF OwnGroupFiles, Stores
  <2>8. ASSUME NEW x \in Runs, WriteFiles(x) PROVE Grouping'
    <3> DEFINE r == message[x].request
    <3>1. r \in Requests /\ GroupDir(x) = Directory(r, "rg") /\ GroupDir(x) \in Dirs
      BY <2>8, GroupDirType DEF WriteFiles, HasWork, Fetched, Message, GroupDir
    <3>2. /\ store' = Written(store, GroupDir(x), r) /\ task[x] = "write" /\ task'[x] = "apply"
          /\ UNCHANGED <<dag, message, triggered>>
          /\ \A y \in Runs : y # x => task'[y] = task[y]
      BY <2>8 DEF WriteFiles
    <3>3. /\ store'.files = [store.files EXCEPT ![GroupDir(x)] = r]
          /\ store'.state = store.state /\ store'.cloud = store.cloud
      BY <3>1, <3>2, WrittenTypes DEF Directory
    <3>4. OwnGroupFiles'
      BY <2>w, <3>1, <3>3
    <3>. QED
      BY <2>5, <3>2, <3>3, <3>4
  (* Both outcomes of terraform apply.                                     *)
  <2>9. ASSUME NEW x \in Runs, task[x] = "apply", store' = Applied(store, GroupDir(x))
        PROVE  /\ OwnGroupFiles'
               /\ \A r \in Requests : <<r, "rg">> \in store.cloud => <<r, "rg">> \in store'.cloud
               /\ <<message[x].request, "rg">> \in store'.cloud
    <3> DEFINE r == message[x].request
    <3>1. r \in Requests /\ GroupDir(x) = Directory(r, "rg") /\ GroupDir(x) \in Dirs
      BY <2>9, GroupDirType DEF HasWork, Fetched, Message, GroupDir
    <3>2. store.files[GroupDir(x)] = r /\ store.state[GroupDir(x)] \in {None, r}
      BY <2>9, <3>1, NoneAssumption DEF HasWork, OwnGroupFiles
    <3>3. GroupDir(x)[2] = "rg"
      BY <3>1 DEF Directory
    <3>4. /\ store'.files = store.files
          /\ store'.state = [store.state EXCEPT ![GroupDir(x)] = r]
          /\ store'.cloud =
               (store.cloud \ {<<store.state[GroupDir(x)], "rg">>}) \cup {<<r, "rg">>}
      BY <2>9, <3>2, <3>3 DEF Applied, Stores
    <3>5. \A s \in Requests : Directory(s, "rg") \in Dirs /\ (Directory(s, "rg") = GroupDir(x) => s = r)
      BY <3>1 DEF Directory, Dirs, Names, TfKinds, DistinctNames
    <3>6. OwnGroupFiles'
      BY <3>1, <3>4, <3>5 DEF OwnGroupFiles, Stores
    <3>7. \A s \in Requests : <<s, "rg">> \in store.cloud => <<s, "rg">> \in store'.cloud
      BY <3>2, <3>4, NoneAssumption
    <3>. QED
      BY <3>4, <3>6, <3>7
  <2>10. ASSUME NEW x \in Runs, ApplyGroup(x) PROVE Grouping'
    <3>1. /\ task[x] = "apply" /\ task'[x] = "branch" /\ store' = Applied(store, GroupDir(x))
          /\ UNCHANGED <<dag, message, triggered>>
          /\ \A y \in Runs : y # x => task'[y] = task[y]
      BY <2>10 DEF ApplyGroup
    <3>. QED
      BY <2>5, <2>9, <3>1
  <2>11. ASSUME NEW x \in Runs, Branch(x) PROVE Grouping'
    <3>1. /\ task[x] = "branch" /\ task'[x] \in {"trigger", "success"}
          /\ UNCHANGED <<dag, message, triggered, store>>
          /\ \A y \in Runs : y # x => task'[y] = task[y]
      BY <2>11 DEF Branch
    <3>. QED
      BY <2>5, <3>1 DEF OwnGroupFiles, GroupMade
  <2>12. ASSUME NEW x \in Runs, TaskFails(x) PROVE Grouping'
    <3>1. /\ task[x] # "none" /\ task'[x] = "failed" /\ UNCHANGED <<dag, message, triggered>>
          /\ \A y \in Runs : y # x => task'[y] = task[y]
          /\ \/ store' = store
             \/ /\ task[x] = "write"
                /\ store' \in PartlyWritten(store, GroupDir(x), message[x].request)
             \/ task[x] = "apply" /\ store' = Applied(store, GroupDir(x))
      BY <2>12 DEF TaskFails, Tasks
    <3>2. CASE store' = store
      BY <2>5, <3>1, <3>2 DEF OwnGroupFiles
    <3>3. CASE task[x] = "apply" /\ store' = Applied(store, GroupDir(x))
      BY <2>5, <2>9, <3>1, <3>3
    <3>4. CASE /\ task[x] = "write"
               /\ store' \in PartlyWritten(store, GroupDir(x), message[x].request)
      <4> DEFINE r == message[x].request
      <4>1. r \in Requests /\ GroupDir(x) = Directory(r, "rg") /\ GroupDir(x) \in Dirs
            /\ GroupDir(x)[2] = "rg"
        BY <3>4, GroupDirType DEF HasWork, Fetched, Message, GroupDir
      <4>2. /\ store'.files \in {store.files, [store.files EXCEPT ![GroupDir(x)] = r]}
            /\ store'.state = store.state /\ store'.cloud = store.cloud
        BY <3>4, <4>1, PartlyWrittenTypes
      <4>3. OwnGroupFiles'
        BY <2>w, <4>1, <4>2
      <4>. QED
        BY <2>5, <3>1, <4>2, <4>3
    <3>. QED
      BY <3>1, <3>2, <3>3, <3>4
  <2>13. ASSUME NEW x \in Runs, NEW k \in Kinds, TriggerChild(x, k) \/ TriggerFails(x, k)
         PROVE  Grouping'
    <3>1. /\ task[x] = "trigger" /\ task'[x] \in {"trigger", "failed", "success"}
          /\ UNCHANGED <<dag, message, store>> /\ \A y \in Runs : y # x => task'[y] = task[y]
          /\ triggered' \subseteq
               triggered \cup {[run |-> x, request |-> message[x].request, kind |-> k]}
      BY <2>13 DEF TriggerChild, TriggerFails, TriggerEnds
    <3>2. OwnGroupFiles' /\ GroupMade'
      BY <3>1 DEF OwnGroupFiles, GroupMade
    <3>3. TriggeredHaveStarted'
      BY <3>1 DEF TriggeredHaveStarted
    <3>4. GroupBeforeChildren'
      BY <3>1 DEF GroupBeforeChildren, GroupMade
    <3>. QED
      BY <3>2, <3>3, <3>4
  <2>14. ASSUME \/ \E m \in publishing : Publish(m) \/ LoseMessage(m)
                \/ \E i \in triggering : LoseTrigger(i)
                \/ \E r \in Requests : RemoveRequest(r)
                \/ UNCHANGED vars
         PROVE  Grouping'
    <3>1. UNCHANGED <<task, dag, message, triggered, store>>
      BY <2>14 DEF Publish, LoseMessage, LoseTrigger, RemoveRequest, vars
    <3>. QED
      BY <3>1 DEF OwnGroupFiles, GroupMade, GroupBeforeChildren, TriggeredHaveStarted
  <2>. QED
    BY <2>2, <2>3, <2>4, <2>6, <2>7, <2>8, <2>10, <2>11, <2>12, <2>13, <2>14
       DEF Next, Deliver, Faults, RunStep, Work
<1>3. Grouping => GroupBeforeChildren
  BY DEF Grouping
<1>. QED
  BY <1>1, <1>2, <1>3, TypeInvariant, TransportInvariant, PTL DEF Spec

----------------------------------------------------------------------------
(* The sets whose sizes QueueBalance compares.                             *)
OpenedDirectly == {x \in DirectRuns : task[x] # "none"}

Compared == {publishing, OpenedDirectly, triggering, Waiting, CameUpEmpty}

Balanced == (\A S \in Compared : IsFiniteSet(S)) /\ QueueBalance

NothingWrong == count["faults"] = 0 /\ count["losses"] = 0

(* One element more, or one less.                                          *)
LEMMA OneMore ==
  ASSUME NEW S, NEW x, IsFiniteSet(S), x \notin S
  PROVE  IsFiniteSet(S \cup {x}) /\ Cardinality(S \cup {x}) = Cardinality(S) + 1
BY FS_AddElement

LEMMA OneLess ==
  ASSUME NEW S, NEW x \in S, IsFiniteSet(S)
  PROVE  IsFiniteSet(S \ {x}) /\ Cardinality(S \ {x}) = Cardinality(S) - 1
BY FS_RemoveElement

(* As long as nothing fails or is lost, messages that wait are as many as  *)
(* the runs to come, less the direct ones, plus those that came too early  *)
(* (QueueBalance).                                                         *)
THEOREM MessagesMatchRuns == Spec => []QueueBalance
<1>1. Init => Balanced
  <2> SUFFICES ASSUME Init PROVE Balanced
    OBVIOUS
  <2>1. /\ publishing = {} /\ OpenedDirectly = {} /\ triggering = {} /\ Waiting = {}
        /\ CameUpEmpty = {} /\ queue = <<>>
    BY DEF Init, OpenedDirectly, Waiting, CameUpEmpty, Runs
  <2> QED
    BY <2>1, FS_EmptySet DEF Balanced, Compared, QueueBalance, OpenedDirectly
<1>2. TypeOK /\ IdsOnce /\ NotYet /\ Balanced /\ [Next]_vars => Balanced'
  <2> SUFFICES ASSUME TypeOK, IdsOnce, NotYet, Balanced, [Next]_vars PROVE Balanced'
    OBVIOUS
  <2> DEFINE U == OpenedDirectly
             Sizes == Cardinality(publishing) + Len(queue) + Cardinality(U)
                        = Cardinality(triggering) + Cardinality(Waiting) + Cardinality(CameUpEmpty)
  <2>0. /\ queue \in Seq(Message) /\ publishing \subseteq Message
        /\ message \in [Runs -> Message \cup {NoMessage}]
        /\ task \in [Runs -> {"none", "success", "failed"} \cup Tasks]
        /\ count \in [Events -> Nat]
        /\ Sends \subseteq Runs /\ DirectRuns \subseteq Runs /\ Sends \cap DirectRuns = {}
        /\ triggering \subseteq Sends
    BY SendsAssumption DEF TypeOK, Runs
  <2>01. /\ IsFiniteSet(publishing) /\ IsFiniteSet(U) /\ IsFiniteSet(triggering)
         /\ IsFiniteSet(Waiting) /\ IsFiniteSet(CameUpEmpty)
         /\ NothingWrong => Sizes
    BY DEF Balanced, Compared, NothingWrong, QueueBalance, OpenedDirectly
  <2>02. /\ Cardinality(publishing) \in Nat /\ Cardinality(U) \in Nat
          /\ Cardinality(triggering) \in Nat /\ Cardinality(Waiting) \in Nat
          /\ Cardinality(CameUpEmpty) \in Nat /\ Len(queue) \in Nat
    BY <2>0, <2>01, FS_CardinalityType, LenProperties
  (* A step that leaves the five sets finite, and balanced if it counts     *)
  (* no fault and no loss.                                                 *)
  <2>1. ASSUME IsFiniteSet(publishing'), IsFiniteSet(U'), IsFiniteSet(triggering'),
               IsFiniteSet(Waiting'), IsFiniteSet(CameUpEmpty'),
               NothingWrong' => Sizes'
        PROVE  Balanced'
    BY <2>1 DEF Balanced, Compared, NothingWrong, QueueBalance, OpenedDirectly
  (* A step after which something has gone wrong.                          *)
  <2>2. ASSUME NEW e \in {"faults", "losses"}, NEW bound, Count(e, bound) PROVE ~NothingWrong'
    BY <2>0, <2>2 DEF Count, NothingWrong, Events
  (* A step of a run that is past its consumer.                            *)
  <2>3. ASSUME UNCHANGED <<publishing, triggering, queue, message>>,
               count' = count \/ ~NothingWrong',
               \A y \in Runs : task'[y] = task[y]
                  \/ (task[y] \notin {"none", "consume"} /\ task'[y] \notin {"none", "consume"})
        PROVE  Balanced'
    <3>1. Waiting' = Waiting /\ CameUpEmpty' = CameUpEmpty /\ U' = U
      BY <2>0, <2>3 DEF Waiting, CameUpEmpty, OpenedDirectly
    <3>2. NothingWrong' => Sizes'
      BY <2>01, <2>3, <3>1 DEF NothingWrong
    <3> HIDE DEF U, Sizes
    <3> QED
      BY <2>01, <2>1, <2>3, <3>1, <3>2
  <2>4. ASSUME NEW i \in Sends, NEW r \in Requests, Send(i, r) PROVE Balanced'
    <3> DEFINE m == [id |-> i, request |-> r]
    <3>1. /\ i \notin sent /\ publishing' = publishing \cup {m}
          /\ triggering' = triggering \cup {i}
          /\ UNCHANGED <<queue, message, task, count>>
      BY <2>4 DEF Send
    <3>2. m \notin publishing /\ i \notin triggering
      BY <3>1 DEF IdsOnce, NotYet
    <3> HIDE DEF m
    <3>3. Waiting' = Waiting /\ CameUpEmpty' = CameUpEmpty /\ U' = U
      BY <3>1 DEF Waiting, CameUpEmpty, OpenedDirectly
    <3>4. /\ IsFiniteSet(publishing') /\ Cardinality(publishing') = Cardinality(publishing) + 1
          /\ IsFiniteSet(triggering') /\ Cardinality(triggering') = Cardinality(triggering) + 1
      BY <2>01, <3>1, <3>2, OneMore
    <3>5. /\ Cardinality(Waiting') = Cardinality(Waiting) /\ Cardinality(U') = Cardinality(U)
          /\ Cardinality(CameUpEmpty') = Cardinality(CameUpEmpty)
          /\ Len(queue') = Len(queue) /\ (NothingWrong' => NothingWrong)
      BY <3>1, <3>3 DEF NothingWrong
    <3>6. NothingWrong' => Sizes'
      <4>1. Cardinality(publishing') + Len(queue') + Cardinality(U')
              = (Cardinality(publishing) + Len(queue) + Cardinality(U)) + 1
        BY <2>02, <3>4, <3>5
      <4>2. Cardinality(triggering') + Cardinality(Waiting') + Cardinality(CameUpEmpty')
              = (Cardinality(triggering) + Cardinality(Waiting) + Cardinality(CameUpEmpty)) + 1
        BY <2>02, <3>4, <3>5
      <4> QED
        BY <2>01, <3>5, <4>1, <4>2
    <3> HIDE DEF U, Sizes
    <3> QED
      BY <2>01, <2>1, <3>3, <3>4, <3>6
  <2>5. ASSUME NEW m \in publishing, Publish(m) PROVE Balanced'
    <3>1. /\ publishing' = publishing \ {m} /\ queue' = Append(queue, m)
          /\ UNCHANGED <<triggering, message, task, count>>
      BY <2>5 DEF Publish, locals
    <3>2. Waiting' = Waiting /\ CameUpEmpty' = CameUpEmpty /\ U' = U
      BY <3>1 DEF Waiting, CameUpEmpty, OpenedDirectly
    <3>3. IsFiniteSet(publishing') /\ Cardinality(publishing') = Cardinality(publishing) - 1
      BY <2>01, <3>1, OneLess
    <3>4. Len(queue') = Len(queue) + 1
      BY <2>0, <3>1, AppendProperties
    <3>5. NothingWrong' => Sizes'
      BY <2>01, <2>02, <3>1, <3>2, <3>3, <3>4 DEF NothingWrong
    <3> HIDE DEF U, Sizes
    <3> QED
      BY <2>01, <2>1, <3>1, <3>2, <3>3, <3>5
  <2>6. ASSUME NEW m \in publishing, LoseMessage(m) PROVE Balanced'
    <3>1. /\ publishing' = publishing \ {m} /\ UNCHANGED <<triggering, message, task>>
          /\ ~NothingWrong'
      BY <2>2, <2>6 DEF LoseMessage, locals
    <3>2. Waiting' = Waiting /\ CameUpEmpty' = CameUpEmpty /\ U' = U
      BY <3>1 DEF Waiting, CameUpEmpty, OpenedDirectly
    <3>3. IsFiniteSet(publishing')
      BY <2>01, <3>1, OneLess
    <3> HIDE DEF U, Sizes
    <3> QED
      BY <2>01, <2>1, <3>1, <3>2, <3>3
  <2>7. ASSUME NEW i \in triggering, StartRun(i) PROVE Balanced'
    <3>1. /\ triggering' = triggering \ {i} /\ task' = [task EXCEPT ![i] = "consume"]
          /\ UNCHANGED <<publishing, queue, message, count>>
          /\ i \in Runs /\ i \notin DirectRuns /\ task[i] = "none"
      BY <2>0, <2>7 DEF StartRun, Goto, locals, NotYet
    <3>2. /\ Waiting' = Waiting \cup {i} /\ i \notin Waiting
          /\ CameUpEmpty' = CameUpEmpty /\ U' = U
      BY <2>0, <3>1 DEF Waiting, CameUpEmpty, OpenedDirectly
    <3>3. /\ IsFiniteSet(triggering') /\ Cardinality(triggering') = Cardinality(triggering) - 1
          /\ IsFiniteSet(Waiting') /\ Cardinality(Waiting') = Cardinality(Waiting) + 1
      BY <2>01, <3>1, <3>2, OneLess, OneMore
    <3>5. NothingWrong' => Sizes'
      BY <2>01, <2>02, <3>1, <3>2, <3>3 DEF NothingWrong
    <3> HIDE DEF U, Sizes
    <3> QED
      BY <2>01, <2>1, <3>1, <3>2, <3>3, <3>5
  <2>8. ASSUME NEW i \in triggering, LoseTrigger(i) PROVE Balanced'
    <3>1. /\ triggering' = triggering \ {i} /\ UNCHANGED <<publishing, message, task>>
          /\ ~NothingWrong'
      BY <2>2, <2>8 DEF LoseTrigger, locals
    <3>2. Waiting' = Waiting /\ CameUpEmpty' = CameUpEmpty /\ U' = U
      BY <3>1 DEF Waiting, CameUpEmpty, OpenedDirectly
    <3>3. IsFiniteSet(triggering')
      BY <2>01, <3>1, OneLess
    <3> HIDE DEF U, Sizes
    <3> QED
      BY <2>01, <2>1, <3>1, <3>2, <3>3
  <2>9. ASSUME NEW x \in DirectRuns, NEW c \in Clouds, StartDirect(x, c) PROVE Balanced'
    <3>1. /\ task[x] = "none" /\ task' = [task EXCEPT ![x] = "consume"] /\ x \in Runs
          /\ UNCHANGED <<publishing, triggering, queue, message, count>>
      BY <2>0, <2>9 DEF StartDirect, Goto, transport
    <3>2. /\ Waiting' = Waiting \cup {x} /\ x \notin Waiting
          /\ U' = U \cup {x} /\ x \notin U /\ CameUpEmpty' = CameUpEmpty
      BY <2>0, <3>1 DEF Waiting, CameUpEmpty, OpenedDirectly
    <3>3. /\ IsFiniteSet(U') /\ Cardinality(U') = Cardinality(U) + 1
          /\ IsFiniteSet(Waiting') /\ Cardinality(Waiting') = Cardinality(Waiting) + 1
      BY <2>01, <3>2, OneMore
    <3>4. /\ Cardinality(publishing') = Cardinality(publishing)
          /\ Cardinality(triggering') = Cardinality(triggering)
          /\ Cardinality(CameUpEmpty') = Cardinality(CameUpEmpty)
          /\ Len(queue') = Len(queue) /\ (NothingWrong' => NothingWrong)
      BY <3>1, <3>2 DEF NothingWrong
    <3>5. NothingWrong' => Sizes'
      <4>1. Cardinality(publishing') + Len(queue') + Cardinality(U')
              = (Cardinality(publishing) + Len(queue) + Cardinality(U)) + 1
        BY <2>02, <3>3, <3>4
      <4>2. Cardinality(triggering') + Cardinality(Waiting') + Cardinality(CameUpEmpty')
              = (Cardinality(triggering) + Cardinality(Waiting) + Cardinality(CameUpEmpty)) + 1
        BY <2>02, <3>3, <3>4
      <4> QED
        BY <2>01, <3>4, <4>1, <4>2
    <3> HIDE DEF U, Sizes
    <3> QED
      BY <2>01, <2>1, <3>1, <3>2, <3>3, <3>5
  <2>10. ASSUME NEW x \in Runs, Consume(x), queue = <<>> PROVE Balanced'
    <3>1. /\ task[x] = "consume" /\ task' = [task EXCEPT ![x] = "fetch"] /\ message[x] = NoMessage
          /\ UNCHANGED <<publishing, triggering, queue, message, count>>
      BY <2>10 DEF Consume, Goto, transport, NotYet
    <3>2. /\ Waiting' = Waiting \ {x} /\ x \in Waiting
          /\ CameUpEmpty' = CameUpEmpty \cup {x} /\ x \notin CameUpEmpty /\ U' = U
      BY <2>0, <3>1 DEF Waiting, CameUpEmpty, OpenedDirectly
    <3>3. /\ IsFiniteSet(Waiting') /\ Cardinality(Waiting') = Cardinality(Waiting) - 1
          /\ IsFiniteSet(CameUpEmpty') /\ Cardinality(CameUpEmpty') = Cardinality(CameUpEmpty) + 1
      BY <2>01, <3>2, OneLess, OneMore
    <3>5. NothingWrong' => Sizes'
      BY <2>01, <2>02, <3>1, <3>2, <3>3 DEF NothingWrong
    <3> HIDE DEF U, Sizes
    <3> QED
      BY <2>01, <2>1, <3>1, <3>2, <3>3, <3>5
  <2>11. ASSUME NEW x \in Runs, Consume(x), queue # <<>> PROVE Balanced'
    <3>1. /\ task[x] = "consume" /\ task' = [task EXCEPT ![x] = "fetch"]
          /\ queue' = Tail(queue) /\ message' = [message EXCEPT ![x] = Head(queue)]
          /\ UNCHANGED <<publishing, triggering, count>>
      BY <2>11 DEF Consume, Goto, transport
    <3>2. Head(queue) \in Message /\ Head(queue) # NoMessage /\ Len(queue') = Len(queue) - 1
      BY <2>0, <2>11, <3>1, HeadTailProperties, NoMessageIsNone
    <3>3. /\ Waiting' = Waiting \ {x} /\ x \in Waiting
          /\ CameUpEmpty' = CameUpEmpty /\ U' = U
      BY <2>0, <3>1, <3>2 DEF Waiting, CameUpEmpty, OpenedDirectly
    <3>4. IsFiniteSet(Waiting') /\ Cardinality(Waiting') = Cardinality(Waiting) - 1
      BY <2>01, <3>3, OneLess
    <3>5. NothingWrong' => Sizes'
      BY <2>01, <2>02, <3>1, <3>2, <3>3, <3>4 DEF NothingWrong
    <3> HIDE DEF U, Sizes
    <3> QED
      BY <2>01, <2>1, <3>1, <3>3, <3>4, <3>5
  <2>12. ASSUME NEW x \in Runs, ConsumeDies(x) \/ (TaskFails(x) /\ task[x] = "consume")
         PROVE  Balanced'
    <3>1. /\ task[x] = "consume" /\ task'[x] \in {"consume", "failed"}
          /\ \A y \in Runs \ {x} : task'[y] = task[y]
          /\ UNCHANGED <<publishing, triggering, message>>
          /\ ~NothingWrong'
      BY <2>0, <2>2, <2>12 DEF ConsumeDies, TaskFails, Goto, transport, locals
    <3>2. /\ Waiting' \in {Waiting, Waiting \ {x}} /\ U' = U
          /\ CameUpEmpty' \in {CameUpEmpty, CameUpEmpty \cup {x}}
      BY <2>0, <3>1 DEF Waiting, CameUpEmpty, OpenedDirectly
    <3>3. IsFiniteSet(Waiting') /\ IsFiniteSet(CameUpEmpty')
      <4>1. IsFiniteSet(Waiting \ {x}) /\ IsFiniteSet(CameUpEmpty \cup {x})
        BY <2>01, FS_AddElement, FS_RemoveElement
      <4> QED
        BY <2>01, <3>2, <4>1
    <3> HIDE DEF U, Sizes
    <3> QED
      BY <2>01, <2>1, <3>1, <3>2, <3>3
  <2>13. ASSUME NEW x \in Runs,
                \/ Fetch(x) \/ WriteFiles(x) \/ ApplyGroup(x) \/ Branch(x)
                \/ \E k \in Kinds : TriggerChild(x, k) \/ TriggerFails(x, k)
                \/ TaskFails(x) /\ task[x] # "consume"
         PROVE  Balanced'
    <3>1. UNCHANGED <<publishing, triggering, queue, message>>
      BY <2>13 DEF Fetch, WriteFiles, ApplyGroup, Branch, TriggerChild, TriggerFails,
                   TriggerEnds, TaskFails, transport, locals
    <3>2. count' = count \/ ~NothingWrong'
      BY <2>2, <2>13 DEF Fetch, WriteFiles, ApplyGroup, Branch, TriggerChild, TriggerFails,
                         TaskFails
    <3>3. \A y \in Runs : task'[y] = task[y]
            \/ (task[y] \notin {"none", "consume"} /\ task'[y] \notin {"none", "consume"})
      BY <2>0, <2>13 DEF Fetch, WriteFiles, ApplyGroup, Branch, TriggerChild, TriggerFails,
                         TriggerEnds, TaskFails, Goto, Tasks
    <3> QED
      BY <2>3, <3>1, <3>2, <3>3
  <2>14. ASSUME NEW r \in Requests, RemoveRequest(r) PROVE Balanced'
    <3>1. UNCHANGED <<publishing, triggering, queue, message, task>>
      BY <2>14 DEF RemoveRequest, transport, locals
    <3>2. Waiting' = Waiting /\ CameUpEmpty' = CameUpEmpty /\ U' = U
      BY <3>1 DEF Waiting, CameUpEmpty, OpenedDirectly
    <3>3. NothingWrong' => NothingWrong
      BY <2>0, <2>14 DEF RemoveRequest, Count, NothingWrong, Events
    <3>4. NothingWrong' => Sizes'
      BY <2>01, <3>1, <3>2, <3>3
    <3> HIDE DEF U, Sizes
    <3> QED
      BY <2>01, <2>1, <3>1, <3>2, <3>4
  <2>15. CASE UNCHANGED vars
    BY <2>3, <2>15 DEF vars
  <2> QED
    BY <2>4, <2>5, <2>6, <2>7, <2>8, <2>9, <2>10, <2>11, <2>12, <2>13, <2>14, <2>15
       DEF Next, Deliver, Faults, RunStep, Work
<1>3. Balanced => QueueBalance
  BY DEF Balanced
<1> QED
  BY <1>1, <1>2, <1>3, TypeCorrect, TransportInvariant, PTL DEF Spec
=============================================================================
