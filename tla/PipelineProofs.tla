---------------------------- MODULE PipelineProofs ----------------------------
(***************************************************************************)
(* Theorems about Pipeline.  What was proved of a step of one of its parts *)
(* is used here through an instance of the module that proves it, with     *)
(* Pipeline's variables; what is new is what the parts tell each other,    *)
(* and that Pipeline implements each of them (last section).               *)
(***************************************************************************)
EXTENDS Pipeline, SequenceLemmas, TLAPS

AP == INSTANCE ApprovalProofs WITH count <- handlerEvents
EP == INSTANCE EntryDagsProofs WITH Sends <- Patches, sent <- dispatched, count <- entryEvents
CP == INSTANCE ChildDagsProofs WITH count <- childEvents

(* The steps of the parts are those the lemmas speak of.                   *)
LEMMA HandlersAsProved ==
  ASSUME (\E p \in Patches : A!Advance(p)) \/ A!Environment
  PROVE  AP!Next
<1>1. \A p \in Patches : A!Load(p) => AP!Load(p)
  BY DEF A!Load, AP!Load, A!Goto, AP!Goto, A!rows, AP!rows, A!gitlab, AP!gitlab
<1>2. \A p \in Patches : A!CreateProject(p) => AP!CreateProject(p)
  BY Zenon DEF A!CreateProject, AP!CreateProject, A!Own, AP!Own, A!Goto, AP!Goto,
         A!rows, AP!rows, A!locals, AP!locals, A!ToSet, AP!ToSet
<1>3. \A p \in Patches : A!FindProject(p) => AP!FindProject(p)
  BY Zenon DEF A!FindProject, AP!FindProject, A!Matches, AP!Matches, A!FirstFound, AP!FirstFound,
         A!Goto, AP!Goto, A!rows, AP!rows, A!gitlab, AP!gitlab, A!Max, AP!Max
<1>4. \A p \in Patches, u \in Collaborators : A!Invite(p, u) => AP!Invite(p, u)
  BY Zenon DEF A!Invite, AP!Invite, A!Goto, AP!Goto, A!rows, AP!rows, A!ToSet, AP!ToSet
<1>5. \A p \in Patches : A!MarkCreated(p) => AP!MarkCreated(p)
  BY DEF A!MarkCreated, AP!MarkCreated, A!Goto, AP!Goto, A!gitlab, AP!gitlab, A!locals, AP!locals
<1>6. \A p \in Patches : A!Dispatch(p) => AP!Dispatch(p)
  BY DEF A!Dispatch, AP!Dispatch, A!Goto, AP!Goto, A!rows, AP!rows, A!gitlab, AP!gitlab,
         A!locals, AP!locals
<1> USE DEF A!Count, AP!Count, A!rows, AP!rows, A!gitlab, AP!gitlab, A!locals, AP!locals
<1>7. \A p \in Patches : A!Fail(p) => AP!Fail(p)
  BY DEF A!Fail, AP!Fail, A!Goto, AP!Goto, A!Open, AP!Open
<1>8. A!Crash => AP!Crash
  BY Zenon DEF A!Crash, AP!Crash, A!OpenHandlers, AP!OpenHandlers, A!Open, AP!Open
<1>9. \A u \in Users, a \in Accounts : A!Relink(u, a) => AP!Relink(u, a)
  BY DEF A!Relink, AP!Relink
<1>10. \A i \in DOMAIN projects : A!RemoveProject(i) => AP!RemoveProject(i)
  BY Zenon DEF A!RemoveProject, AP!RemoveProject, A!RemoveAt, AP!RemoveAt
<1>11. \A r \in Requests : A!RemoveRequest(r) => AP!RemoveRequest(r)
  BY DEF A!RemoveRequest, AP!RemoveRequest
<1> QED
  BY <1>1, <1>2, <1>3, <1>4, <1>5, <1>6, <1>7, <1>8, <1>9, <1>10, <1>11
     DEF A!Advance, A!Proceed, A!Environment, AP!Next, AP!Advance, AP!Proceed, AP!Environment

LEMMA EntryAsProved == E!Next => EP!Next
BY Zenon
   DEF E!Next, E!Send, E!StartDirect, E!RemoveRequest, E!Deliver, E!Publish, E!StartRun,
       E!RunStep, E!Work, E!Consume, E!Fetch, E!WriteFiles, E!ApplyGroup, E!Branch,
       E!TriggerChild, E!TriggerEnds, E!Faults, E!LoseMessage, E!LoseTrigger, E!ConsumeDies,
       E!TaskFails, E!TriggerFails, E!Goto, E!Count, E!Counted, E!GroupDir, E!Directory,
       E!Written, E!SettingsWritten, E!PartlyWritten, E!MainFile, E!Keeps, E!Stamped, E!Applied,
       E!Registered, E!NoMessage, E!Tasks, E!Clouds, E!Kinds, E!Runs,
       E!transport, E!locals,
       EP!Next, EP!Send, EP!StartDirect, EP!RemoveRequest, EP!Deliver, EP!Publish, EP!StartRun,
       EP!RunStep, EP!Work, EP!Consume, EP!Fetch, EP!WriteFiles, EP!ApplyGroup, EP!Branch,
       EP!TriggerChild, EP!TriggerEnds, EP!Faults, EP!LoseMessage, EP!LoseTrigger, EP!ConsumeDies,
       EP!TaskFails, EP!TriggerFails, EP!Goto, EP!Count, EP!Counted, EP!GroupDir, EP!Directory,
       EP!Written, EP!SettingsWritten, EP!PartlyWritten, EP!MainFile, EP!Keeps, EP!Stamped,
       EP!Applied, EP!Registered, EP!NoMessage, EP!Tasks, EP!Clouds, EP!Kinds, EP!Runs,
       EP!transport, EP!locals

LEMMA ChildAsProved == C!Next => CP!Next
BY Zenon
   DEF C!Next, C!Start, C!RunStep, C!Fetch, C!WriteFiles, C!Apply, C!Record, C!Faults,
       C!WriteFilesTwice, C!TaskFails, C!RemoveRequest, C!Goto, C!Count, C!DirOf, C!Directory,
       C!Written, C!SettingsWritten, C!PartlyWritten, C!MainFile, C!Keeps, C!Stamped, C!Clashes,
       C!Applied, C!Stages, C!Kinds,
       CP!Next, CP!Start, CP!RunStep, CP!Fetch, CP!WriteFiles, CP!Apply, CP!Record, CP!Faults,
       CP!WriteFilesTwice, CP!TaskFails, CP!RemoveRequest, CP!Goto, CP!Count, CP!DirOf, CP!Directory,
       CP!Written, CP!SettingsWritten, CP!PartlyWritten, CP!MainFile, CP!Keeps, CP!Stamped, CP!Clashes,
       CP!Applied, CP!Stages, CP!Kinds

----------------------------------------------------------------------------
(* What the parts keep to by themselves.                                   *)
HandlersTyped == AP!TypeOK /\ AP!Dispatching
EntriesTyped  == EP!TypeOK /\ EP!HasWork /\ EP!IdsOnce /\ EP!NotYet
ChildrenTyped == CP!TypeOK /\ CP!RunsHaveWork

LEMMA HandlersStep ==
  ASSUME HandlersTyped, (\E p \in Patches : A!Advance(p)) \/ A!Environment
  PROVE  HandlersTyped'
<1>1. AP!Next
  BY HandlersAsProved
<1> QED
  BY <1>1, PartsAssumption, AP!TypeStep, AP!DispatchingStep
     DEF HandlersTyped, A!OwnerAssumption, A!InviteesAssumption, A!ProviderAssumption, A!NameInAssumption

LEMMA EntriesStep ==
  ASSUME EntriesTyped, E!Next PROVE EntriesTyped'
<1>1. EP!Next
  BY EntryAsProved
<1> QED
  BY <1>1, PartsAssumption, EP!TypeStep, EP!TransportStep
     DEF EntriesTyped, E!SendsAssumption, E!ProviderAssumption, E!WantedAssumption,
         C!NoneAssumption, E!Clouds, EP!Clouds, E!Kinds, EP!Kinds

LEMMA ChildrenStep ==
  ASSUME ChildrenTyped, C!Next PROVE ChildrenTyped'
<1>1. CP!Next
  BY ChildAsProved
<1> QED
  BY <1>1, PartsAssumption, CP!TypeStep DEF ChildrenTyped, C!NoneAssumption

LEMMA UpdateStatusStep ==
  ASSUME HandlersTyped, NEW p \in Patches, NEW s \in A!Statuses, A!UpdateStatus(p, s)
  PROVE  HandlersTyped'
<1>1. /\ step[p] = "idle" /\ step' \in [Patches -> {"idle", "done", "failed"} \cup AP!Open]
      /\ step'[p] \in {"load", "done", "failed"}
      /\ \A q \in Patches \ {p} : step'[q] = step[q]
      /\ status' \in [Requests -> AP!Statuses]
      /\ UNCHANGED <<present, repoStatus, account, projects, removed, members, subject, namespace,
                     found, uninvited, dispatched, handlerEvents>>
  BY DEF HandlersTyped, AP!TypeOK, AP!Open, AP!Statuses, A!Statuses, A!UpdateStatus, A!Goto,
         A!gitlab, A!locals
<1>2. AP!TypeOK'
  BY <1>1 DEF HandlersTyped, AP!TypeOK
<1>3. AP!Made' = AP!Made
  BY <1>1 DEF AP!Made, AP!Created, HandlersTyped, AP!Dispatching, AP!DispatchedAreDone
<1>4. \A q \in Patches : AP!Own(q)' = AP!Own(q)
  BY <1>1 DEF AP!Own
<1>5. AP!ToSet(projects') = AP!ToSet(projects)
  BY <1>1
<1>6. AP!DispatchedAreDone'
  BY <1>1 DEF HandlersTyped, AP!Dispatching, AP!DispatchedAreDone, AP!TypeOK
<1>7. AP!MadeHaveProject'
  BY <1>1, <1>3, <1>4, <1>5 DEF HandlersTyped, AP!Dispatching, AP!MadeHaveProject, AP!Made
<1>8. AP!MadeOncePerProject'
  BY <1>1, <1>3, <1>4 DEF HandlersTyped, AP!Dispatching, AP!MadeOncePerProject, AP!Made
<1> QED
  BY <1>2, <1>6, <1>7, <1>8 DEF HandlersTyped, AP!Dispatching

(* What a handler leaves alone as long as it dispatches nothing.           *)
CreatedStays ==
  \A r \in Requests : repoStatus[r] = "Created" => repoStatus'[r] = "Created"

CreatedFirst ==
  \A p \in Patches : step[p] = "dispatch" \/ p \in dispatched => repoStatus[subject[p]] = "Created"

LEMMA HandlersFrame ==
  ASSUME HandlersTyped, CreatedFirst,
         \/ \E p \in Patches : A!Proceed(p)
         \/ \E p \in Patches, s \in A!Statuses : A!UpdateStatus(p, s)
         \/ A!Environment
  PROVE  /\ dispatched' = dispatched /\ subject' = subject /\ present' \subseteq present
         /\ CreatedFirst'
<1>1. /\ step \in [Patches -> {"idle", "done", "failed"} \cup AP!Open]
      /\ repoStatus \in [Requests -> {"Pending", "Created"}]
      /\ subject \in [Patches -> Requests] /\ dispatched \subseteq Patches
  BY DEF HandlersTyped, AP!TypeOK
<1> USE DEF A!Goto, A!rows, A!gitlab, A!locals
<1>2. ASSUME UNCHANGED <<dispatched, subject>>, CreatedStays,
             \A p \in Patches : step'[p] = "dispatch" /\ step[p] # "dispatch" =>
                                  repoStatus'[subject[p]] = "Created"
      PROVE  CreatedFirst'
  BY <1>1, <1>2 DEF CreatedFirst, CreatedStays
<1>3. ASSUME NEW p \in Patches,
             \/ A!Load(p) \/ A!CreateProject(p) \/ A!FindProject(p) \/ A!Fail(p)
             \/ \E u \in Collaborators : A!Invite(p, u)
             \/ \E s \in A!Statuses : A!UpdateStatus(p, s)
      PROVE  /\ UNCHANGED <<dispatched, subject, present, repoStatus>>
             /\ \A q \in Patches : step'[q] = "dispatch" => step[q] = "dispatch"
  BY <1>1, <1>3 DEF A!Load, A!CreateProject, A!FindProject, A!Fail, A!Invite, A!UpdateStatus
<1>4. ASSUME NEW p \in Patches, A!MarkCreated(p)
      PROVE  /\ UNCHANGED <<dispatched, subject, present>> /\ CreatedStays
             /\ repoStatus'[subject[p]] = "Created"
             /\ \A q \in Patches : step'[q] = "dispatch" => q = p \/ step[q] = "dispatch"
  BY <1>1, <1>4 DEF A!MarkCreated, CreatedStays
<1>5. ASSUME \/ A!Crash
             \/ \E u \in Users, a \in Accounts : A!Relink(u, a)
             \/ \E i \in DOMAIN projects : A!RemoveProject(i)
             \/ \E r \in Requests : A!RemoveRequest(r)
      PROVE  /\ UNCHANGED <<dispatched, subject, repoStatus>> /\ present' \subseteq present
             /\ \A q \in Patches : step'[q] = "dispatch" => step[q] = "dispatch"
  BY <1>1, <1>5 DEF A!Crash, A!Relink, A!RemoveProject, A!RemoveRequest
<1> QED
  BY <1>2, <1>3, <1>4, <1>5 DEF A!Proceed, A!Environment, CreatedStays

----------------------------------------------------------------------------
(* A step of Pipeline is a handler's, a dispatch, an entry DAG's, a trigger *)
(* task's or a provisioning DAG's.                                         *)
AllRuns == Patches \cup DirectRuns

HandlerMoves ==
  \/ \E p \in Patches : A!Proceed(p)
  \/ \E p \in Patches, s \in A!Statuses : A!UpdateStatus(p, s)
  \/ A!Environment

EntryMoves ==
  \/ \E x \in DirectRuns, c \in E!Clouds : E!StartDirect(x, c)
  \/ E!Deliver
  \/ \E x \in AllRuns : E!Work(x)
  \/ E!Faults

ChildMoves == \E i \in ChildRuns : C!RunStep(i) \/ C!Faults(i)

LEMMA StepCases ==
  ASSUME Next
  PROVE  \/ HandlerMoves /\ InApproval
         \/ \E p \in Patches : Dispatch(p)
         \/ EntryMoves /\ InEntry
         \/ \E x \in AllRuns, k \in E!Kinds : TriggerChild(x, k)
         \/ ChildMoves /\ InChild
BY Zenon DEF Next, Handle, Deliver, RunEntry, RunChild, HandlerMoves, EntryMoves, ChildMoves, AllRuns

LEMMA NoMessageIsNone == E!NoMessage \notin EP!Message
BY PartsAssumption DEF E!SendsAssumption, E!NoMessage, EP!Message

(* What an entry DAG's step does to what it shares, and to the messages.   *)
LEMMA EntryFrame ==
  ASSUME EntriesTyped, EntryMoves
  PROVE  /\ UNCHANGED <<present, dispatched>>
         /\ publishing' \cup ToSet(queue') \subseteq publishing \cup ToSet(queue)
         /\ \A x \in AllRuns :
              \/ message'[x] = message[x]
              \/ message[x] = E!NoMessage /\ message'[x] \in ToSet(queue)
<1>1. /\ queue \in Seq(EP!Message) /\ publishing \subseteq EP!Message
      /\ message \in [AllRuns -> EP!Message \cup {E!NoMessage}]
      /\ \A x \in AllRuns : task[x] = "consume" => message[x] = E!NoMessage
  BY DEF EntriesTyped, EP!TypeOK, EP!NotYet, EP!Runs, AllRuns, EP!NoMessage, E!NoMessage
<1>2. queue # <<>> => Head(queue) \in ToSet(queue) /\ ToSet(Tail(queue)) \subseteq ToSet(queue)
  BY <1>1, EP!HeadLeaves, PartsAssumption
     DEF EntriesTyped, EP!ToSet, ToSet, E!SendsAssumption, E!ProviderAssumption, E!WantedAssumption,
         C!NoneAssumption, E!Clouds, EP!Clouds, E!Kinds, EP!Kinds
<1>3. \A m \in publishing : ToSet(Append(queue, m)) = ToSet(queue) \cup {m}
  BY <1>1, AppendSet
<1> USE DEF E!Goto, E!transport, E!locals, E!Count
<1>4. ASSUME NEW m \in publishing, E!Publish(m)
      PROVE  /\ UNCHANGED <<present, dispatched, message>>
             /\ publishing' \cup ToSet(queue') \subseteq publishing \cup ToSet(queue)
  BY <1>3, <1>4 DEF E!Publish
<1>5. ASSUME NEW m \in publishing, E!LoseMessage(m)
      PROVE  UNCHANGED <<present, dispatched, queue, message>> /\ publishing' \subseteq publishing
  BY <1>5 DEF E!LoseMessage
<1>6. ASSUME NEW x \in AllRuns, E!Consume(x)
      PROVE  /\ UNCHANGED <<present, dispatched, publishing>> /\ ToSet(queue') \subseteq ToSet(queue)
             /\ \A y \in AllRuns :
                  \/ message'[y] = message[y]
                  \/ message[y] = E!NoMessage /\ message'[y] \in ToSet(queue)
  <2>1. CASE queue = <<>>
    BY <1>6, <2>1 DEF E!Consume
  <2>2. CASE queue # <<>>
    BY <1>1, <1>2, <1>6, <2>2 DEF E!Consume
  <2> QED
    BY <2>1, <2>2
<1>7. ASSUME NEW x \in AllRuns, E!ConsumeDies(x)
      PROVE  /\ UNCHANGED <<present, dispatched, publishing, message>>
             /\ ToSet(queue') \subseteq ToSet(queue)
  BY <1>2, <1>7 DEF E!ConsumeDies
<1>8. ASSUME \/ \E x \in DirectRuns, c \in E!Clouds : E!StartDirect(x, c)
             \/ \E i \in triggering : E!StartRun(i) \/ E!LoseTrigger(i)
             \/ \E x \in AllRuns : \/ E!Fetch(x) \/ E!WriteFiles(x) \/ E!ApplyGroup(x) \/ E!Branch(x)
                                   \/ E!TaskFails(x)
                                   \/ \E k \in E!Kinds : E!TriggerFails(x, k)
      PROVE  UNCHANGED <<present, dispatched, publishing, queue, message>>
  BY <1>8 DEF E!StartDirect, E!StartRun, E!LoseTrigger, E!Fetch, E!WriteFiles, E!ApplyGroup,
              E!Branch, E!TaskFails, E!TriggerFails, E!TriggerEnds
<1> QED
  BY <1>4, <1>5, <1>6, <1>7, <1>8 DEF EntryMoves, E!Deliver, E!Work, E!Faults, E!Runs, AllRuns

----------------------------------------------------------------------------
(* Who has sent what.                                                      *)
Sent == {subject[p] : p \in dispatched}

(* A message is about the request of the handler that sent it.             *)
MessagesFromHandlers ==
  /\ \A m \in publishing \cup ToSet(queue) : m.request = subject[m.id]
  /\ \A x \in AllRuns : message[x] # E!NoMessage => message[x].request = subject[message[x].id]

(* A provisioning run is about the request its entry run has taken, and    *)
(* the kind it was triggered for.                                          *)
ChildrenFromRuns ==
  \A x \in AllRuns, k \in E!Kinds :
    about[<<x, k>>] # C!NoSubject =>
      /\ message[x] # E!NoMessage
      /\ about[<<x, k>>] = <<message[x].request, k>>

(* Files are written, and so resources created, for a request in S only.   *)
StoreFrom(s, S) ==
  /\ \A d \in C!Dirs : s.files[d] \in S \cup {None}
  /\ \A o \in s.cloud : o[1] \in S

RecordedFromSent ==
  \A o \in Requests \X E!Kinds : recorded[o] # None => o[1] \in Sent

Typed  == HandlersTyped /\ EntriesTyped /\ ChildrenTyped /\ CreatedFirst
Linked == MessagesFromHandlers /\ ChildrenFromRuns /\ StoreFrom(store, Sent) /\ RecordedFromSent

(* What is taken was dispatched.                                           *)
LEMMA TakenWasSent ==
  ASSUME Typed, Linked, NEW x \in AllRuns, message[x] # E!NoMessage
  PROVE  /\ message[x].id \in dispatched /\ message[x].request = subject[message[x].id]
         /\ message[x].request \in Sent /\ message[x].request \in Requests
<1>1. message[x].id \in dispatched
  BY DEF Typed, EntriesTyped, EP!IdsOnce, EP!Runs, AllRuns, EP!NoMessage, E!NoMessage
<1>2. message[x].request = subject[message[x].id]
  BY DEF Linked, MessagesFromHandlers
<1>3. subject \in [Patches -> Requests] /\ dispatched \subseteq Patches
  BY DEF Typed, HandlersTyped, AP!TypeOK
<1> QED
  BY <1>1, <1>2, <1>3 DEF Sent

(* What a step may do to the store: a run works in its request's directory. *)
StoreMoves ==
  \/ UNCHANGED store
  \/ \E d \in C!Dirs, r \in Sent :
       C!Directory(r, d[2]) = d /\ store' \in C!PartlyWritten(store, d, r)
  \/ \E d \in C!Dirs : store.files[d] \in Requests /\ store' = C!Applied(store, d)

(* The modules mean the same by a write and by the directories.            *)
LEMMA WritesAgree ==
  ASSUME NEW s, NEW d, NEW r
  PROVE  /\ E!Written(s, d, r) = C!Written(s, d, r)
         /\ E!PartlyWritten(s, d, r) = C!PartlyWritten(s, d, r)
         /\ CP!PartlyWritten(s, d, r) = C!PartlyWritten(s, d, r)
<1>1. /\ E!SettingsWritten(s, d, r) = C!SettingsWritten(s, d, r)
      /\ CP!SettingsWritten(s, d, r) = C!SettingsWritten(s, d, r)
  BY Zenon DEF E!SettingsWritten, C!SettingsWritten, CP!SettingsWritten, E!Keeps, C!Keeps, CP!Keeps
<1>2. \A u : /\ E!Written(u, d, r) = C!Written(u, d, r)
             /\ CP!Written(u, d, r) = C!Written(u, d, r)
  BY Zenon DEF E!Written, C!Written, CP!Written, E!SettingsWritten, C!SettingsWritten,
               CP!SettingsWritten, E!Keeps, C!Keeps, CP!Keeps, E!MainFile, C!MainFile,
               CP!MainFile, E!Stamped, C!Stamped, CP!Stamped
<1> QED
  BY <1>1, <1>2, Zenon DEF E!PartlyWritten, C!PartlyWritten, CP!PartlyWritten

LEMMA PlacesAgree ==
  CP!Stores = C!Stores /\ CP!Dirs = C!Dirs /\ EP!Stores = C!Stores /\ EP!Dirs = C!Dirs
BY DEF CP!Stores, C!Stores, EP!Stores, CP!Dirs, C!Dirs, EP!Dirs, CP!Names, C!Names, EP!Names,
       CP!TfKinds, C!TfKinds, EP!TfKinds, CP!Kinds, C!Kinds, EP!Kinds,
       CP!MainFiles, C!MainFiles, EP!MainFiles

LEMMA StoreKept ==
  ASSUME NEW s \in C!Stores, NEW t, NEW S \in SUBSET Requests, StoreFrom(s, S),
         \/ t = s
         \/ \E d \in C!Dirs, r \in S : t \in C!PartlyWritten(s, d, r)
         \/ \E d \in C!Dirs : s.files[d] \in Requests /\ t = C!Applied(s, d)
  PROVE  /\ t \in C!Stores /\ StoreFrom(t, S)
         /\ \A d \in C!Dirs : s.files[d] \in Requests => t.files[d] \in Requests
<1>1. None \notin Requests
  BY PartsAssumption DEF C!NoneAssumption
<1>2. CASE t = s
  BY <1>2
<1>3. ASSUME NEW d \in C!Dirs, NEW r \in S, t \in C!PartlyWritten(s, d, r)
      PROVE  /\ t \in C!Stores /\ StoreFrom(t, S)
             /\ \A e \in C!Dirs : s.files[e] \in Requests => t.files[e] \in Requests
  <2>1. CP!WritesInto(s, t, d, r)
    BY <1>3, PartsAssumption, PlacesAgree, WritesAgree, CP!PartlyWrittenEffects DEF C!NoneAssumption
  <2>2. /\ t \in C!Stores /\ t.cloud = s.cloud /\ t.files[d] \in {s.files[d], r}
        /\ \A e \in C!Dirs : e # d => t.files[e] = s.files[e]
    BY <2>1, PlacesAgree DEF CP!WritesInto
  <2> QED
    BY <1>3, <2>2 DEF StoreFrom
<1>4. ASSUME NEW d \in C!Dirs, s.files[d] \in Requests, t = C!Applied(s, d)
      PROVE  /\ t \in C!Stores /\ StoreFrom(t, S)
             /\ \A e \in C!Dirs : s.files[e] \in Requests => t.files[e] \in Requests
  <2>1. <<s.files[d], d[2]>> \in Requests \X C!TfKinds
    BY <1>4 DEF C!Dirs
  <2>2. /\ t.files = s.files /\ t.mains = s.mains /\ s.cloud \subseteq Requests \X C!TfKinds
        /\ t.cloud = (s.cloud \ {<<s.state[d], d[2]>>}) \cup {<<s.files[d], d[2]>>}
        /\ t.state = [s.state EXCEPT ![d] = s.files[d]]
        /\ t = [files |-> t.files, mains |-> t.mains, state |-> t.state, cloud |-> t.cloud]
    BY <1>4 DEF C!Applied, C!Stores
  <2>3. t \in C!Stores
    BY <2>1, <2>2 DEF C!Stores
  <2>4. s.files[d] \in S
    BY <1>1, <1>4 DEF StoreFrom
  <2> QED
    BY <2>2, <2>3, <2>4 DEF StoreFrom
<1> QED
  BY <1>2, <1>3, <1>4

LEMMA EntryStore ==
  ASSUME Typed, Linked, EntryMoves PROVE StoreMoves
<1>1. \A x \in AllRuns : task[x] \in EP!Fetched =>
        /\ message[x].request \in Sent /\ E!GroupDir(x) \in C!Dirs
        /\ C!Directory(message[x].request, E!GroupDir(x)[2]) = E!GroupDir(x)
        /\ task[x] = "apply" => store.files[E!GroupDir(x)] \in Requests
  <2> SUFFICES ASSUME NEW x \in AllRuns, task[x] \in EP!Fetched
               PROVE  /\ message[x].request \in Sent /\ E!GroupDir(x) \in C!Dirs
                      /\ C!Directory(message[x].request, E!GroupDir(x)[2]) = E!GroupDir(x)
                      /\ task[x] = "apply" => store.files[E!GroupDir(x)] \in Requests
    OBVIOUS
  <2>1. message[x] # E!NoMessage /\ (task[x] = "apply" => store.files[E!GroupDir(x)] \in Requests)
    BY NoMessageIsNone
       DEF Typed, EntriesTyped, EP!HasWork, EP!Runs, AllRuns, EP!GroupDir, E!GroupDir,
           EP!Directory, E!Directory
  <2>2. message[x].request \in Sent /\ message[x].request \in Requests
    BY <2>1, TakenWasSent
  <2>3. E!GroupDir(x) \in C!Dirs
    BY <2>2 DEF E!GroupDir, E!Directory, C!Dirs, C!Names, C!TfKinds
  <2>4. C!Directory(message[x].request, E!GroupDir(x)[2]) = E!GroupDir(x)
    BY DEF E!GroupDir, E!Directory, C!Directory
  <2> QED
    BY <2>1, <2>2, <2>3, <2>4
<1>2. ASSUME NEW x \in AllRuns, task[x] = "write",
             store' \in E!PartlyWritten(store, E!GroupDir(x), message[x].request)
      PROVE  StoreMoves
  BY <1>1, <1>2, WritesAgree DEF EP!Fetched, StoreMoves
<1>3. ASSUME NEW x \in AllRuns, E!WriteFiles(x) PROVE StoreMoves
  BY <1>2, <1>3 DEF E!WriteFiles, E!PartlyWritten
<1>4. ASSUME NEW x \in AllRuns, E!ApplyGroup(x) \/ E!TaskFails(x) PROVE StoreMoves
  <2>1. \/ UNCHANGED store
        \/ task[x] = "write" /\ store' \in E!PartlyWritten(store, E!GroupDir(x), message[x].request)
        \/ task[x] = "apply" /\ store' = E!Applied(store, E!GroupDir(x))
    BY <1>4 DEF E!ApplyGroup, E!TaskFails
  <2>2. E!Applied(store, E!GroupDir(x)) = C!Applied(store, E!GroupDir(x))
    BY Zenon DEF E!Applied, C!Applied
  <2> QED
    BY <1>1, <1>2, <2>1, <2>2 DEF EP!Fetched, StoreMoves
<1>5. ASSUME \/ \E x \in DirectRuns, c \in E!Clouds : E!StartDirect(x, c)
             \/ E!Deliver
             \/ \E m \in publishing : E!LoseMessage(m)
             \/ \E i \in triggering : E!LoseTrigger(i)
             \/ \E x \in AllRuns : \/ E!Consume(x) \/ E!Fetch(x) \/ E!Branch(x) \/ E!ConsumeDies(x)
                                   \/ \E k \in E!Kinds : E!TriggerFails(x, k)
      PROVE  StoreMoves
  BY <1>5 DEF E!StartDirect, E!Deliver, E!Publish, E!StartRun, E!LoseMessage, E!LoseTrigger,
              E!Consume, E!Fetch, E!Branch, E!ConsumeDies, E!TriggerFails, E!TriggerEnds, StoreMoves
<1> QED
  BY <1>3, <1>4, <1>5 DEF EntryMoves, E!Work, E!Faults, E!Runs, AllRuns

(* What a provisioning DAG's step does to what it shares.                  *)
LEMMA ChildFrame ==
  ASSUME Typed, Linked, ChildMoves
  PROVE  /\ UNCHANGED <<present, about>> /\ StoreMoves
         /\ \A o \in Requests \X E!Kinds :
              recorded'[o] = recorded[o] \/ o[1] \in Sent
<1>1. \A i \in ChildRuns : stage[i] # "none" =>
        /\ about[i][1] \in Sent /\ about[i] \in Requests \X C!Kinds /\ C!DirOf(i) \in C!Dirs
        /\ C!Directory(about[i][1], C!DirOf(i)[2]) = C!DirOf(i)
  <2> SUFFICES ASSUME NEW i \in ChildRuns, stage[i] # "none"
               PROVE  /\ about[i][1] \in Sent /\ about[i] \in Requests \X C!Kinds
                      /\ C!DirOf(i) \in C!Dirs
                      /\ C!Directory(about[i][1], C!DirOf(i)[2]) = C!DirOf(i)
    OBVIOUS
  <2>1. PICK x \in AllRuns, k \in E!Kinds : i = <<x, k>>
    BY DEF ChildRuns, AllRuns, E!Kinds
  <2>2. about[i] \in Requests \X C!Kinds
    BY DEF Typed, ChildrenTyped, CP!RunsHaveWork, CP!Objects, CP!Kinds, C!Kinds
  <2>3. about[i] # C!NoSubject
    BY <2>2, PartsAssumption DEF C!NoSubject, C!NoneAssumption
  <2>4. message[x] # E!NoMessage /\ about[i] = <<message[x].request, k>>
    BY <2>1, <2>3 DEF Linked, ChildrenFromRuns
  <2>5. message[x].request \in Sent
    BY <2>4, TakenWasSent
  <2>6. C!DirOf(i) \in C!Dirs
    BY <2>2 DEF C!DirOf, C!Directory, C!Dirs, C!Names, C!TfKinds
  <2>7. C!Directory(about[i][1], C!DirOf(i)[2]) = C!DirOf(i)
    BY DEF C!DirOf, C!Directory
  <2> QED
    BY <2>2, <2>4, <2>5, <2>6, <2>7
<1>2. \A i \in ChildRuns : stage[i] = "apply" => store.files[C!DirOf(i)] \in Requests
  BY DEF Typed, ChildrenTyped, CP!RunsHaveWork, CP!DirOf, C!DirOf, CP!Directory, C!Directory
<1>3. recorded \in [Requests \X E!Kinds -> Requests \cup {None}]
  BY DEF Typed, ChildrenTyped, CP!TypeOK, CP!Kinds, E!Kinds
<1> USE DEF C!Goto, C!Count, C!Stages
<1>4. ASSUME NEW i \in ChildRuns, stage[i] = "write",
             store' \in C!PartlyWritten(store, C!DirOf(i), about[i][1])
      PROVE  StoreMoves
  BY <1>1, <1>4 DEF StoreMoves
<1>5. ASSUME NEW i \in ChildRuns,
             C!WriteFiles(i) \/ C!WriteFilesTwice(i) \/ C!Apply(i) \/ C!TaskFails(i)
      PROVE  UNCHANGED <<present, about, recorded>> /\ StoreMoves
  <2>1. UNCHANGED <<present, about, recorded>>
    BY <1>5 DEF C!WriteFiles, C!WriteFilesTwice, C!Apply, C!TaskFails
  <2>2. CASE C!WriteFiles(i) \/ C!WriteFilesTwice(i)
    BY <1>4, <2>1, <2>2 DEF C!WriteFiles, C!WriteFilesTwice, C!PartlyWritten
  <2>3. CASE C!Apply(i)
    BY <1>1, <1>2, <2>1, <2>3 DEF C!Apply, StoreMoves
  <2>4. CASE C!TaskFails(i)
    BY <1>1, <1>2, <1>4, <2>1, <2>4 DEF C!TaskFails, StoreMoves
  <2> QED
    BY <1>5, <2>2, <2>3, <2>4
<1>6. ASSUME NEW i \in ChildRuns, C!Fetch(i) \/ C!Record(i)
      PROVE  /\ UNCHANGED <<present, about>> /\ StoreMoves
             /\ \A o \in Requests \X E!Kinds : recorded'[o] = recorded[o] \/ o[1] \in Sent
  BY <1>1, <1>3, <1>6 DEF C!Fetch, C!Record, StoreMoves
<1> QED
  BY <1>5, <1>6 DEF ChildMoves, C!RunStep, C!Faults

----------------------------------------------------------------------------
(* The parts keep their types in each other's steps.                       *)
StoreTyped ==
  /\ store' \in C!Stores
  /\ \A d \in C!Dirs : store.files[d] \in Requests => store'.files[d] \in Requests

LEMMA HandlersUndisturbed ==
  ASSUME HandlersTyped, UNCHANGED <<approvalVars, handlerEvents, present, dispatched>>
  PROVE  HandlersTyped'
BY DEF HandlersTyped, approvalVars, AP!TypeOK, AP!Dispatching, AP!DispatchedAreDone,
       AP!MadeHaveProject, AP!MadeOncePerProject, AP!Made, AP!Own

LEMMA EntriesUndisturbed ==
  ASSUME EntriesTyped, UNCHANGED <<entryVars, entryEvents, dispatched>>,
         present' \subseteq present, StoreTyped
  PROVE  EntriesTyped'
<1>1. UNCHANGED <<publishing, triggering, queue, dropped, task, dag, message, retried, branches,
                  broken, triggered, entryEvents, dispatched>>
  BY DEF entryVars
<1>2. store' \in EP!Stores /\ EP!Dirs = C!Dirs
  BY PlacesAgree DEF StoreTyped
<1>3. EP!TypeOK'
  BY <1>1, <1>2 DEF EntriesTyped, EP!TypeOK
<1>4. EP!HasWork'
  <2>1. \A x \in EP!Runs : task[x] = "apply" => EP!GroupDir(x) \in EP!Dirs
    BY EP!GroupDirType, PartsAssumption
       DEF EntriesTyped, EP!HasWork, EP!Fetched, E!SendsAssumption, E!ProviderAssumption,
           E!WantedAssumption, C!NoneAssumption, E!Clouds, EP!Clouds, E!Kinds, EP!Kinds
  <2>2. \A x \in EP!Runs : EP!GroupDir(x)' = EP!GroupDir(x)
    BY <1>1 DEF EP!GroupDir
  <2> QED
    BY <1>1, <1>2, <2>1, <2>2 DEF EntriesTyped, EP!HasWork, StoreTyped
<1>5. EP!IdsOnce' /\ EP!NotYet'
  BY <1>1 DEF EntriesTyped, EP!IdsOnce, EP!NotYet
<1> QED
  BY <1>3, <1>4, <1>5 DEF EntriesTyped

LEMMA ChildrenUndisturbed ==
  ASSUME ChildrenTyped, UNCHANGED <<childVars, childEvents>>,
         present' \subseteq present, StoreTyped
  PROVE  ChildrenTyped'
<1>1. UNCHANGED <<stage, about, recorded, childEvents>>
  BY DEF childVars
<1>2. store' \in CP!Stores /\ CP!Dirs = C!Dirs
  BY PlacesAgree DEF StoreTyped
<1>3. CP!TypeOK'
  BY <1>1, <1>2 DEF ChildrenTyped, CP!TypeOK
<1>4. CP!RunsHaveWork'
  <2>1. \A i \in ChildRuns : stage[i] = "apply" => CP!DirOf(i) \in CP!Dirs
    BY DEF ChildrenTyped, CP!RunsHaveWork, CP!Objects, CP!DirOf, CP!Directory, CP!Dirs, CP!Names,
           CP!TfKinds
  <2>2. \A i \in ChildRuns : CP!DirOf(i)' = CP!DirOf(i)
    BY <1>1 DEF CP!DirOf
  <2> QED
    BY <1>1, <1>2, <2>1, <2>2 DEF ChildrenTyped, CP!RunsHaveWork, StoreTyped
<1> QED
  BY <1>3, <1>4 DEF ChildrenTyped

(* A dispatch and a trigger task are steps of two parts.                   *)
LEMMA DispatchFrame ==
  ASSUME Typed, NEW p \in Patches, Dispatch(p)
  PROVE  /\ HandlersTyped' /\ EntriesTyped'
         /\ UNCHANGED <<present, repoStatus, subject, store, queue, message, childVars, childEvents>>
         /\ dispatched' = dispatched \cup {p} /\ step[p] = "dispatch"
         /\ \A q \in Patches : step'[q] = "dispatch" => step[q] = "dispatch"
         /\ publishing' = publishing \cup {[id |-> p, request |-> subject[p]]}
<1>1. subject[p] \in Requests /\ step \in [Patches -> {"idle", "done", "failed"} \cup AP!Open]
  BY DEF Typed, HandlersTyped, AP!TypeOK
<1>2. A!Dispatch(p) /\ E!Send(p, subject[p]) /\ UNCHANGED <<childVars, childEvents>>
  BY DEF Dispatch
<1>3. HandlersTyped'
  BY <1>2, HandlersStep DEF A!Advance, Typed
<1>4. EntriesTyped'
  BY <1>1, <1>2, EntriesStep DEF E!Next, Typed
<1>5. /\ step[p] = "dispatch" /\ step' = [step EXCEPT ![p] = "done"]
      /\ dispatched' = dispatched \cup {p} /\ UNCHANGED <<present, repoStatus, subject>>
  BY <1>2 DEF A!Dispatch, A!Goto, A!rows, A!locals
<1>6. /\ publishing' = publishing \cup {[id |-> p, request |-> subject[p]]}
      /\ UNCHANGED <<store, queue, message>>
  BY <1>2 DEF E!Send
<1> QED
  BY <1>1, <1>2, <1>3, <1>4, <1>5, <1>6

LEMMA TriggerFrame ==
  ASSUME Typed, NEW x \in AllRuns, NEW k \in E!Kinds, TriggerChild(x, k)
  PROVE  /\ EntriesTyped' /\ message[x] # E!NoMessage
         /\ UNCHANGED <<present, dispatched, store, publishing, queue, message, recorded,
                        approvalVars, handlerEvents>>
         /\ \/ UNCHANGED <<childVars, childEvents>>
            \/ ChildrenTyped' /\ about' = [about EXCEPT ![<<x, k>>] = <<message[x].request, k>>]
<1>1. E!TriggerChild(x, k) /\ UNCHANGED <<approvalVars, handlerEvents>>
  BY DEF TriggerChild
<1>2. EntriesTyped'
  <2>1. E!Next
    BY <1>1 DEF E!Next, E!RunStep, E!Runs, AllRuns
  <2> QED
    BY <2>1, EntriesStep DEF Typed
<1>3. /\ UNCHANGED <<present, dispatched, store, publishing, queue, message>>
      /\ task[x] = "trigger"
  BY <1>1 DEF E!TriggerChild, E!TriggerEnds, E!transport
<1>4. message[x] \in EP!Message /\ message[x] # E!NoMessage
  BY <1>3, NoMessageIsNone DEF Typed, EntriesTyped, EP!HasWork, EP!Fetched, EP!Runs, AllRuns
<1>5. CASE UNCHANGED <<childVars, childEvents>>
  BY <1>1, <1>2, <1>3, <1>4, <1>5 DEF childVars
<1>6. CASE C!Start(<<x, k>>, message[x].request, k)
  <2>1. C!Next
    BY <1>4, <1>6 DEF C!Next, EP!Message, ChildRuns, AllRuns, E!Kinds, C!Kinds
  <2>2. ChildrenTyped'
    BY <2>1, ChildrenStep DEF Typed
  <2>3. about' = [about EXCEPT ![<<x, k>>] = <<message[x].request, k>>] /\ UNCHANGED recorded
    BY <1>6 DEF C!Start
  <2> QED
    BY <1>1, <1>2, <1>3, <1>4, <2>2, <2>3
<1> QED
  BY <1>5, <1>6 DEF TriggerChild

(* Every step keeps the types.                                             *)
LEMMA TypedStep == Typed /\ Linked /\ [Next]_vars => Typed'
<1> SUFFICES ASSUME Typed, Linked, [Next]_vars PROVE Typed'
  OBVIOUS
<1>1. ASSUME UNCHANGED store PROVE StoreTyped
  BY <1>1, PlacesAgree DEF Typed, ChildrenTyped, CP!TypeOK, StoreTyped
<1>2. ASSUME StoreMoves PROVE StoreTyped
  <2>1. store \in C!Stores
    BY PlacesAgree DEF Typed, ChildrenTyped, CP!TypeOK
  <2>2. Sent \in SUBSET Requests
    BY DEF Typed, HandlersTyped, AP!TypeOK, Sent
  <2> QED
    BY <1>2, <2>1, <2>2, StoreKept DEF StoreMoves, StoreTyped, Linked
<1>3. ASSUME UNCHANGED <<repoStatus, subject, step, dispatched>> PROVE CreatedFirst'
  BY <1>3 DEF Typed, CreatedFirst
<1>4. CASE HandlerMoves /\ InApproval
  <2>1. HandlersTyped'
    BY <1>4, HandlersStep, UpdateStatusStep DEF HandlerMoves, A!Advance, Typed
  <2>2. UNCHANGED <<dispatched, subject>> /\ present' \subseteq present /\ CreatedFirst'
    BY <1>4, HandlersFrame DEF HandlerMoves, Typed
  <2>3. UNCHANGED <<store, entryVars, entryEvents, childVars, childEvents>>
    BY <1>4 DEF InApproval
  <2> QED
    BY <1>1, <2>1, <2>2, <2>3, EntriesUndisturbed, ChildrenUndisturbed DEF Typed
<1>5. ASSUME NEW p \in Patches, Dispatch(p) PROVE Typed'
  <2>1. CreatedFirst'
    BY <1>5, DispatchFrame DEF Typed, CreatedFirst
  <2>2. ChildrenTyped'
    BY <1>1, <1>5, DispatchFrame, ChildrenUndisturbed DEF Typed
  <2> QED
    BY <1>5, <2>1, <2>2, DispatchFrame DEF Typed
<1>6. CASE EntryMoves /\ InEntry
  <2>1. UNCHANGED <<approvalVars, handlerEvents, childVars, childEvents, present, dispatched>>
    BY <1>6, EntryFrame DEF InEntry, Typed
  <2>2. EntriesTyped'
    <3>1. E!Next
      BY <1>6 DEF EntryMoves, E!Next, E!RunStep, E!Runs, AllRuns
    <3> QED
      BY <3>1, EntriesStep DEF Typed
  <2>3. ChildrenTyped'
    BY <1>2, <1>6, <2>1, EntryStore, ChildrenUndisturbed DEF Typed
  <2>4. HandlersTyped' /\ CreatedFirst'
    BY <1>3, <2>1, HandlersUndisturbed DEF Typed, approvalVars
  <2> QED
    BY <2>2, <2>3, <2>4 DEF Typed
<1>7. ASSUME NEW x \in AllRuns, NEW k \in E!Kinds, TriggerChild(x, k) PROVE Typed'
  <2>1. HandlersTyped' /\ CreatedFirst'
    BY <1>3, <1>7, TriggerFrame, HandlersUndisturbed DEF Typed, approvalVars
  <2>2. ChildrenTyped'
    BY <1>1, <1>7, TriggerFrame, ChildrenUndisturbed DEF Typed
  <2> QED
    BY <1>7, <2>1, <2>2, TriggerFrame DEF Typed
<1>8. CASE ChildMoves /\ InChild
  <2>1. /\ UNCHANGED <<approvalVars, handlerEvents, dispatched, entryVars, entryEvents, present>>
        /\ StoreMoves
    BY <1>8, ChildFrame DEF InChild
  <2>2. ChildrenTyped'
    <3>1. C!Next
      BY <1>8 DEF ChildMoves, C!Next
    <3> QED
      BY <3>1, ChildrenStep DEF Typed
  <2>3. EntriesTyped'
    BY <1>2, <2>1, EntriesUndisturbed DEF Typed
  <2>4. HandlersTyped' /\ CreatedFirst'
    BY <1>3, <2>1, HandlersUndisturbed DEF Typed, approvalVars
  <2> QED
    BY <2>2, <2>3, <2>4 DEF Typed
<1>9. CASE UNCHANGED vars
  <2>1. UNCHANGED <<approvalVars, handlerEvents, dispatched, entryVars, entryEvents, childVars,
                    childEvents, present, store>>
    BY <1>9 DEF vars
  <2> QED
    BY <1>1, <1>3, <2>1, HandlersUndisturbed, EntriesUndisturbed, ChildrenUndisturbed
       DEF Typed, approvalVars
<1> QED
  BY <1>4, <1>5, <1>6, <1>7, <1>8, <1>9, StepCases

(* And what the parts have told each other.                                *)
LEMMA LinkedStep == Typed /\ Linked /\ [Next]_vars => Linked'
<1> SUFFICES ASSUME Typed, Linked, [Next]_vars PROVE Linked'
  OBVIOUS
<1>0. /\ subject \in [Patches -> Requests] /\ dispatched \subseteq Patches
      /\ publishing \subseteq EP!Message /\ Sent \in SUBSET Requests
      /\ about \in [ChildRuns -> (Requests \X C!Kinds) \cup {C!NoSubject}]
      /\ message \in [AllRuns -> EP!Message \cup {E!NoMessage}]
      /\ store \in C!Stores
  BY PlacesAgree
     DEF Typed, HandlersTyped, AP!TypeOK, EntriesTyped, EP!TypeOK, ChildrenTyped, CP!TypeOK, Sent,
         CP!Kinds, C!Kinds, CP!NoSubject, C!NoSubject, EP!Runs, AllRuns, EP!NoMessage, E!NoMessage
(* Of each part of Linked, what it needs of a step.                        *)
<1>1. ASSUME UNCHANGED subject,
             publishing' \cup ToSet(queue') \subseteq publishing \cup ToSet(queue),
             \A x \in AllRuns : \/ message'[x] = message[x]
                                \/ message[x] = E!NoMessage /\ message'[x] \in ToSet(queue)
      PROVE  MessagesFromHandlers'
  BY <1>1 DEF Linked, MessagesFromHandlers
<1>2. ASSUME UNCHANGED about,
             \A x \in AllRuns : message'[x] = message[x] \/ message[x] = E!NoMessage
      PROVE  ChildrenFromRuns'
  BY <1>2 DEF Linked, ChildrenFromRuns
<1>3. ASSUME StoreMoves, UNCHANGED <<subject, dispatched>> PROVE StoreFrom(store, Sent)'
  <2>1. StoreFrom(store', Sent)
    BY <1>0, <1>3, StoreKept DEF StoreMoves, Linked
  <2>2. Sent' = Sent
    BY <1>3 DEF Sent
  <2> QED
    BY <2>1, <2>2 DEF StoreFrom
<1>4. ASSUME UNCHANGED <<subject, dispatched>>,
             \A o \in Requests \X E!Kinds : recorded'[o] = recorded[o] \/ o[1] \in Sent
      PROVE  RecordedFromSent'
  BY <1>4 DEF Linked, RecordedFromSent, Sent
<1>5. ASSUME UNCHANGED store PROVE StoreMoves
  BY <1>5 DEF StoreMoves
<1>6. CASE HandlerMoves /\ InApproval
  <2>1. UNCHANGED <<subject, dispatched, publishing, queue, message, about, store, recorded>>
    BY <1>6, HandlersFrame DEF HandlerMoves, Typed, InApproval, entryVars, childVars
  <2> QED
    BY <1>1, <1>2, <1>3, <1>4, <1>5, <2>1 DEF Linked
<1>7. ASSUME NEW p \in Patches, Dispatch(p) PROVE Linked'
  <2>1. /\ UNCHANGED <<subject, store, queue, message, about, recorded>>
        /\ dispatched' = dispatched \cup {p}
        /\ publishing' = publishing \cup {[id |-> p, request |-> subject[p]]}
    BY <1>7, DispatchFrame DEF childVars
  <2>2. MessagesFromHandlers'
    BY <2>1 DEF Linked, MessagesFromHandlers
  <2>3. Sent \subseteq Sent'
    BY <2>1 DEF Sent
  <2>4. StoreFrom(store, Sent)' /\ RecordedFromSent'
    BY <2>1, <2>3 DEF Linked, StoreFrom, RecordedFromSent
  <2>5. ChildrenFromRuns'
    BY <1>2, <2>1
  <2> QED
    BY <2>2, <2>4, <2>5 DEF Linked
<1>8. CASE EntryMoves /\ InEntry
  <2>1. UNCHANGED <<subject, dispatched, about, recorded>>
    BY <1>8, EntryFrame DEF InEntry, Typed, approvalVars, childVars
  <2>2. MessagesFromHandlers' /\ ChildrenFromRuns'
    BY <1>1, <1>2, <1>8, <2>1, EntryFrame DEF Typed
  <2>3. StoreMoves
    BY <1>8, EntryStore
  <2> QED
    BY <1>3, <1>4, <2>1, <2>2, <2>3 DEF Linked
<1>9. ASSUME NEW x \in AllRuns, NEW k \in E!Kinds, TriggerChild(x, k) PROVE Linked'
  <2>1. /\ UNCHANGED <<subject, dispatched, store, publishing, queue, message, recorded>>
        /\ message[x] # E!NoMessage
        /\ \/ UNCHANGED about
           \/ about' = [about EXCEPT ![<<x, k>>] = <<message[x].request, k>>]
    BY <1>9, TriggerFrame DEF approvalVars, childVars
  <2>2. ChildrenFromRuns'
    <3>1. \A y \in AllRuns, l \in E!Kinds : <<y, l>> \in ChildRuns
      BY DEF ChildRuns, AllRuns, E!Kinds
    <3> QED
      BY <1>0, <2>1, <3>1 DEF Linked, ChildrenFromRuns
  <2> QED
    BY <1>1, <1>3, <1>4, <1>5, <2>1, <2>2 DEF Linked
<1>10. CASE ChildMoves /\ InChild
  <2>1. /\ UNCHANGED <<subject, dispatched, publishing, queue, message, about>> /\ StoreMoves
        /\ \A o \in Requests \X E!Kinds : recorded'[o] = recorded[o] \/ o[1] \in Sent
    BY <1>10, ChildFrame DEF InChild, approvalVars, entryVars
  <2> QED
    BY <1>1, <1>2, <1>3, <1>4, <2>1 DEF Linked
<1>11. CASE UNCHANGED vars
  <2>1. UNCHANGED <<subject, dispatched, publishing, queue, message, about, store, recorded>>
    BY <1>11 DEF vars, approvalVars, entryVars, childVars
  <2> QED
    BY <1>1, <1>2, <1>3, <1>4, <1>5, <2>1 DEF Linked
<1> QED
  BY <1>6, <1>7, <1>8, <1>9, <1>10, <1>11, StepCases

LEMMA LinkedInvariant == Spec => [](Typed /\ Linked)
<1> USE DEF A!Init, E!Init, C!Init
<1>1. Init => Typed /\ Linked
  <2> SUFFICES ASSUME Init PROVE Typed /\ Linked
    OBVIOUS
  <2>1. HandlersTyped
    BY EmptySeq, PartsAssumption
       DEF Init, HandlersTyped, AP!TypeOK, AP!Dispatching, AP!DispatchedAreDone, AP!MadeHaveProject,
           AP!MadeOncePerProject, AP!Made, AP!Created, A!OwnerAssumption, A!NoProject, AP!NoProject,
           A!Events, AP!Events, AP!Statuses
  <2>2. EntriesTyped
    BY EmptySeq
       DEF Init, EntriesTyped, EP!TypeOK, EP!HasWork, EP!IdsOnce, EP!NotYet, EP!Fetched, EP!ToSet,
           E!NoMessage, EP!NoMessage, E!Runs, EP!Runs, E!Events, EP!Events, E!EmptyStore, EP!Stores,
           E!Dirs, EP!Dirs, E!Names, EP!Names, E!TfKinds, EP!TfKinds, E!Kinds, EP!Kinds
  <2>3. ChildrenTyped
    BY DEF Init, ChildrenTyped, CP!TypeOK, CP!RunsHaveWork, C!NoSubject, CP!NoSubject, C!Events,
           CP!Events, C!EmptyStore, CP!Stores, C!Dirs, CP!Dirs, C!Names, CP!Names, C!TfKinds,
           CP!TfKinds, C!Kinds, CP!Kinds
  <2>4. CreatedFirst
    BY DEF Init, CreatedFirst
  <2>5. Linked
    BY EmptySeq
       DEF Init, Linked, MessagesFromHandlers, ChildrenFromRuns, StoreFrom, RecordedFromSent, ToSet,
           AllRuns, ChildRuns, E!Runs, E!Kinds, C!Kinds, C!EmptyStore
  <2> QED
    BY <2>1, <2>2, <2>3, <2>4, <2>5 DEF Typed
<1> QED
  BY <1>1, TypedStep, LinkedStep, PTL DEF Spec

----------------------------------------------------------------------------
(* One kind of instance of a request is provisioned by one run only,       *)
(* unless the request had more than one project at GitLab: two runs have   *)
(* taken two messages, two handlers have sent them, and each of these had  *)
(* made a project of its own.                                              *)
THEOREM RequestsProvisionedOnce == Spec => []ProvisionedOnce
<1>1. Typed /\ Linked => ProvisionedOnce
  <2> SUFFICES ASSUME Typed, Linked, NEW i \in ChildRuns, NEW j \in ChildRuns,
                      i # j, stage[i] # "none", about[i] = about[j]
               PROVE  \/ \E z \in removed : z.request = about[i][1]
                      \/ \E y, z \in ToSet(projects) :
                           y # z /\ y.request = about[i][1] /\ z.request = about[i][1]
    BY DEF ProvisionedOnce
  <2>1. PICK x \in AllRuns, k \in E!Kinds : i = <<x, k>>
    BY DEF ChildRuns, AllRuns, E!Kinds
  <2>2. PICK y \in AllRuns, l \in E!Kinds : j = <<y, l>>
    BY DEF ChildRuns, AllRuns, E!Kinds
  <2>3. about[i] \in Requests \X C!Kinds /\ about[i] # C!NoSubject
    BY PartsAssumption
       DEF Typed, ChildrenTyped, CP!RunsHaveWork, CP!Objects, CP!Kinds, C!Kinds, C!NoSubject,
           C!NoneAssumption
  <2>4. /\ about[i] = <<message[x].request, k>> /\ about[j] = <<message[y].request, l>>
        /\ message[x] # E!NoMessage /\ message[y] # E!NoMessage
    BY <2>1, <2>2, <2>3 DEF Linked, ChildrenFromRuns
  <2>5. x # y
    BY <2>1, <2>2, <2>4
  <2> DEFINE p == message[x].id
             q == message[y].id
  <2>6. p # q
    BY <2>4, <2>5 DEF Typed, EntriesTyped, EP!IdsOnce, EP!Runs, AllRuns, EP!NoMessage, E!NoMessage
  <2>7. /\ p \in dispatched /\ subject[p] = about[i][1]
        /\ q \in dispatched /\ subject[q] = about[i][1]
    <3>1. p \in dispatched /\ message[x].request = subject[p]
      BY <2>4, TakenWasSent
    <3>2. q \in dispatched /\ message[y].request = subject[q]
      BY <2>4, TakenWasSent
    <3> HIDE DEF p, q
    <3>3. about[i][1] = message[x].request /\ about[j][1] = message[y].request
      <4>1. \A a, b : <<a, b>>[1] = a
        OBVIOUS
      <4> QED
        BY <2>4, <4>1, Zenon
    <3> QED
      BY <3>1, <3>2, <3>3
  <2>8. p \in AP!Made /\ q \in AP!Made
    BY <2>7 DEF AP!Made, Typed, HandlersTyped, AP!TypeOK
  <2>9. /\ AP!Own(p) \in ToSet(projects) \cup removed /\ AP!Own(q) \in ToSet(projects) \cup removed
        /\ AP!Own(p) = AP!Own(q) => AP!Own(p) \in removed
    BY <2>6, <2>8
       DEF Typed, HandlersTyped, AP!Dispatching, AP!MadeHaveProject, AP!MadeOncePerProject,
           AP!ToSet, ToSet
  <2>10. AP!Own(p).request = about[i][1] /\ AP!Own(q).request = about[i][1]
    BY <2>7 DEF AP!Own
  <2> QED
    BY <2>9, <2>10
<1> QED
  BY <1>1, LinkedInvariant, PTL

(* Nothing is created in the cloud or recorded for a request that no       *)
(* approval has dispatched, whichever run takes which message: what a run  *)
(* works on is what a handler sent, after it had marked the repository.    *)
THEOREM OnlyTheApprovedProvisioned == Spec => []ProvisionedWasApproved
<1>1. Typed /\ Linked => ProvisionedWasApproved
  <2> SUFFICES ASSUME Typed, Linked, NEW r \in Requests,
                      \/ \E k \in E!TfKinds : <<r, k>> \in store.cloud
                      \/ \E k \in E!Kinds : recorded[<<r, k>>] # None
               PROVE  (\E p \in dispatched : subject[p] = r) /\ repoStatus[r] = "Created"
    BY DEF ProvisionedWasApproved
  <2>1. r \in Sent
    <3>1. ASSUME NEW k \in E!TfKinds, <<r, k>> \in store.cloud PROVE r \in Sent
      BY <3>1 DEF Linked, StoreFrom
    <3>2. ASSUME NEW k \in E!Kinds, recorded[<<r, k>>] # None PROVE r \in Sent
      BY <3>2 DEF Linked, RecordedFromSent
    <3> QED
      BY <3>1, <3>2
  <2>2. PICK p \in dispatched : subject[p] = r
    BY <2>1 DEF Sent
  <2>3. p \in Patches
    BY DEF Typed, HandlersTyped, AP!TypeOK
  <2> QED
    BY <2>2, <2>3 DEF Typed, CreatedFirst
<1> QED
  BY <1>1, LinkedInvariant, PTL

----------------------------------------------------------------------------
(* Pipeline implements each of its parts: what one of them does is, to     *)
(* another one, a step of that one or none.  Of the store, the entry DAGs  *)
(* see the resource groups and the provisioning DAGs the instances; rows   *)
(* are removed by users, whom Approval counts.                             *)
Fields(F, M, G, H) == [files |-> F, mains |-> M, state |-> G, cloud |-> H]

Of(f, K, c) == [d \in C!Dirs |-> IF d[2] \in K THEN f[d] ELSE c]

Part(s, K) ==
  Fields(Of(s.files, K, None), Of(s.mains, K, {}), Of(s.state, K, None), {o \in s.cloud : o[2] \in K})

Groups    == Part(store, {"rg"})
Instances == Part(store, C!Kinds)

Removals == handlerEvents["requestRemovals"]
EntryCount == [e \in E!Events |-> IF e = "requestRemovals" THEN Removals ELSE entryEvents[e]]
ChildCount == [e \in C!Events |-> IF e = "requestRemovals" THEN Removals ELSE childEvents[e]]

ES == INSTANCE EntryDagsProofs WITH
        Sends <- Patches, sent <- dispatched, store <- Groups, count <- EntryCount
CS == INSTANCE ChildDagsProofs WITH store <- Instances, count <- ChildCount

(* Writing and applying in a store that is given by its fields.           *)
Put(F, d, x) == [F EXCEPT ![d] = x]
NewFile(F, d, r) == IF C!Keeps(F[d], r, d[2]) THEN F[d] ELSE r
NewMains(M, d, r) == M[d] \cup {C!MainFile(M[d], r, d[2])}
NewCloud(F, G, H, d) == (H \ {<<G[d], d[2]>>}) \cup {<<F[d], d[2]>>}

LEMMA FieldsWritten ==
  ASSUME NEW F, NEW M, NEW G, NEW H, NEW d, NEW r
  PROVE  /\ C!SettingsWritten(Fields(F, M, G, H), d, r)
              = Fields(Put(F, d, NewFile(F, d, r)), M, G, H)
         /\ C!Written(Fields(F, M, G, H), d, r)
              = Fields(Put(F, d, NewFile(F, d, r)), Put(M, d, NewMains(M, d, r)), G, H)
         /\ C!Applied(Fields(F, M, G, H), d)
              = Fields(F, M, Put(G, d, F[d]), NewCloud(F, G, H, d))
<1> DEFINE s == Fields(F, M, G, H)
           u == Fields(Put(F, d, NewFile(F, d, r)), M, G, H)
           gone == <<G[d], d[2]>>
           made == <<F[d], d[2]>>
<1>1. C!SettingsWritten(s, d, r) = u
  BY DEF C!SettingsWritten, Fields, NewFile, Put
<1>2. C!Written(s, d, r) = [u EXCEPT !.mains = Put(M, d, NewMains(M, d, r))]
  BY <1>1 DEF C!Written, Fields, NewMains, Put
<1>3. C!Applied(s, d) = Fields(F, M, Put(G, d, F[d]), (H \ {gone}) \cup {made})
  <2>1. C!Applied(s, d) = [s EXCEPT !.state[d] = F[d], !.cloud = (H \ {gone}) \cup {made}]
    BY DEF C!Applied, Fields
  <2> HIDE DEF gone, made
  <2> QED
    BY <2>1 DEF Fields, Put
<1> QED
  BY <1>1, <1>2, <1>3 DEF Fields, NewCloud

(* What is written or applied in a directory of another kind is not seen.  *)
LEMMA PartsApart ==
  ASSUME NEW s \in C!Stores, NEW d \in C!Dirs, NEW r, NEW K
  PROVE  /\ d[2] \in K =>
              /\ Part(C!SettingsWritten(s, d, r), K) = C!SettingsWritten(Part(s, K), d, r)
              /\ Part(C!Written(s, d, r), K) = C!Written(Part(s, K), d, r)
              /\ Part(C!Applied(s, d), K) = C!Applied(Part(s, K), d)
         /\ d[2] \notin K =>
              /\ Part(C!SettingsWritten(s, d, r), K) = Part(s, K)
              /\ Part(C!Written(s, d, r), K) = Part(s, K)
              /\ Part(C!Applied(s, d), K) = Part(s, K)
<1> DEFINE F == s.files
           M == s.mains
           G == s.state
           H == s.cloud
           Fk == Of(F, K, None)
           Mk == Of(M, K, {})
           Gk == Of(G, K, None)
           Hk == {o \in H : o[2] \in K}
<1>1. /\ s = Fields(F, M, G, H)
      /\ DOMAIN F = C!Dirs /\ DOMAIN M = C!Dirs /\ DOMAIN G = C!Dirs
  BY DEF C!Stores, Fields
<1>2. Part(s, K) = Fields(Fk, Mk, Gk, Hk)
  BY DEF Part
<1> HIDE DEF F, M, G, H
<1>3. \A f, n, g, h : Part(Fields(f, n, g, h), K)
                      = Fields(Of(f, K, None), Of(n, K, {}), Of(g, K, None), {o \in h : o[2] \in K})
  BY DEF Part, Fields
<1>4. /\ Part(C!SettingsWritten(s, d, r), K)
           = Fields(Of(Put(F, d, NewFile(F, d, r)), K, None), Mk, Gk, Hk)
      /\ Part(C!Written(s, d, r), K)
           = Fields(Of(Put(F, d, NewFile(F, d, r)), K, None),
                    Of(Put(M, d, NewMains(M, d, r)), K, {}), Gk, Hk)
      /\ Part(C!Applied(s, d), K)
           = Fields(Fk, Mk, Of(Put(G, d, F[d]), K, None),
                    {o \in NewCloud(F, G, H, d) : o[2] \in K})
  <2>1. /\ C!SettingsWritten(s, d, r) = Fields(Put(F, d, NewFile(F, d, r)), M, G, H)
        /\ C!Written(s, d, r) = Fields(Put(F, d, NewFile(F, d, r)),
                                       Put(M, d, NewMains(M, d, r)), G, H)
        /\ C!Applied(s, d) = Fields(F, M, Put(G, d, F[d]), NewCloud(F, G, H, d))
    BY <1>1, FieldsWritten
  <2> QED
    BY <1>3, <2>1
<1>5. ASSUME d[2] \in K
      PROVE  /\ Part(C!SettingsWritten(s, d, r), K) = C!SettingsWritten(Part(s, K), d, r)
             /\ Part(C!Written(s, d, r), K) = C!Written(Part(s, K), d, r)
             /\ Part(C!Applied(s, d), K) = C!Applied(Part(s, K), d)
  <2>1. Fk[d] = F[d] /\ Mk[d] = M[d] /\ Gk[d] = G[d]
    BY <1>5 DEF Of
  <2>2. /\ C!SettingsWritten(Part(s, K), d, r) = Fields(Put(Fk, d, NewFile(Fk, d, r)), Mk, Gk, Hk)
        /\ C!Written(Part(s, K), d, r) = Fields(Put(Fk, d, NewFile(Fk, d, r)),
                                                Put(Mk, d, NewMains(Mk, d, r)), Gk, Hk)
        /\ C!Applied(Part(s, K), d)
             = Fields(Fk, Mk, Put(Gk, d, Fk[d]), NewCloud(Fk, Gk, Hk, d))
    <3> HIDE DEF Fk, Mk, Gk, Hk
    <3> QED
      BY <1>2, FieldsWritten
  <2>3. NewFile(Fk, d, r) = NewFile(F, d, r) /\ NewMains(Mk, d, r) = NewMains(M, d, r)
    BY <2>1 DEF NewFile, NewMains
  <2>4. /\ Of(Put(F, d, NewFile(F, d, r)), K, None) = Put(Fk, d, NewFile(F, d, r))
        /\ Of(Put(M, d, NewMains(M, d, r)), K, {}) = Put(Mk, d, NewMains(M, d, r))
        /\ Of(Put(G, d, F[d]), K, None) = Put(Gk, d, F[d])
    BY <1>1, <1>5 DEF Of, Put
  <2>5. {o \in NewCloud(F, G, H, d) : o[2] \in K} = NewCloud(Fk, Gk, Hk, d)
    <3> DEFINE gone == <<G[d], d[2]>>
               made == <<F[d], d[2]>>
    <3>1. gone[2] = d[2] /\ made[2] = d[2]
      OBVIOUS
    <3>2. NewCloud(F, G, H, d) = (H \ {gone}) \cup {made}
      BY DEF NewCloud
    <3>3. NewCloud(Fk, Gk, Hk, d) = (Hk \ {gone}) \cup {made}
      BY <2>1, Zenon DEF NewCloud
    <3> HIDE DEF gone, made
    <3> QED
      BY <1>5, <3>1, <3>2, <3>3
  <2> QED
    BY <1>4, <2>1, <2>2, <2>3, <2>4, <2>5
<1>6. ASSUME d[2] \notin K
      PROVE  /\ Part(C!SettingsWritten(s, d, r), K) = Part(s, K)
             /\ Part(C!Written(s, d, r), K) = Part(s, K)
             /\ Part(C!Applied(s, d), K) = Part(s, K)
  <2>1. /\ Of(Put(F, d, NewFile(F, d, r)), K, None) = Fk
        /\ Of(Put(M, d, NewMains(M, d, r)), K, {}) = Mk
        /\ Of(Put(G, d, F[d]), K, None) = Gk
    BY <1>1, <1>6 DEF Of, Put
  <2>2. {o \in NewCloud(F, G, H, d) : o[2] \in K} = Hk
    BY <1>6 DEF NewCloud
  <2> QED
    BY <1>2, <1>4, <2>1, <2>2
<1> QED
  BY <1>5, <1>6

(* The same of a write that is repeated, or fails.                         *)
LEMMA PartlyApart ==
  ASSUME NEW s \in C!Stores, NEW d \in C!Dirs, NEW r \in Requests, NEW K
  PROVE  /\ d[2] \in K =>
              /\ Part(C!Written(C!Written(s, d, r), d, r), K)
                   = C!Written(C!Written(Part(s, K), d, r), d, r)
              /\ \A u \in C!PartlyWritten(s, d, r) :
                   Part(u, K) \in C!PartlyWritten(Part(s, K), d, r)
         /\ d[2] \notin K => \A u \in C!PartlyWritten(s, d, r) : Part(u, K) = Part(s, K)
<1> DEFINE w == C!Written(s, d, r)
<1>1. w \in C!Stores
  <2>1. w \in C!PartlyWritten(s, d, r)
    BY DEF C!PartlyWritten
  <2> QED
    BY <2>1, PartsAssumption, PlacesAgree, WritesAgree, CP!PartlyWrittenEffects
       DEF C!NoneAssumption, CP!WritesInto
<1> HIDE DEF w
<1>2. /\ d[2] \in K => Part(C!Written(w, d, r), K) = C!Written(Part(w, K), d, r)
      /\ d[2] \notin K => Part(C!Written(w, d, r), K) = Part(w, K)
  BY <1>1, PartsApart
<1>3. \A u \in C!PartlyWritten(s, d, r) :
        \/ u = s \/ u = C!SettingsWritten(s, d, r) \/ u = w \/ u = C!Written(w, d, r)
  BY DEF C!PartlyWritten, w
<1>4. ASSUME d[2] \in K
      PROVE  /\ Part(C!Written(w, d, r), K) = C!Written(C!Written(Part(s, K), d, r), d, r)
             /\ \A u \in C!PartlyWritten(s, d, r) :
                  Part(u, K) \in C!PartlyWritten(Part(s, K), d, r)
  <2>1. /\ Part(C!SettingsWritten(s, d, r), K) = C!SettingsWritten(Part(s, K), d, r)
        /\ Part(w, K) = C!Written(Part(s, K), d, r)
    BY <1>4, PartsApart DEF w
  <2>2. Part(C!Written(w, d, r), K) = C!Written(C!Written(Part(s, K), d, r), d, r)
    BY <1>2, <1>4, <2>1
  <2> QED
    BY <1>3, <2>1, <2>2, Zenon DEF C!PartlyWritten
<1>5. ASSUME d[2] \notin K
      PROVE  \A u \in C!PartlyWritten(s, d, r) : Part(u, K) = Part(s, K)
  <2>1. /\ Part(C!SettingsWritten(s, d, r), K) = Part(s, K)
        /\ Part(w, K) = Part(s, K)
    BY <1>5, PartsApart DEF w
  <2> QED
    BY <1>2, <1>3, <1>5, <2>1, Zenon
<1> QED
  BY <1>4, <1>5 DEF w

(* What the handlers' side does to what the others see.                    *)
LEMMA HandlersOutside ==
  ASSUME HandlersTyped, CreatedFirst, HandlerMoves, InApproval
  PROVE  /\ UNCHANGED <<store, entryVars, entryEvents, childVars, childEvents, dispatched>>
         /\ \/ UNCHANGED <<present, Removals>>
            \/ \E r \in Requests :
                 /\ r \in present /\ Removals < MaxRequestRemovals
                 /\ present' = present \ {r} /\ Removals' = Removals + 1
<1>1. handlerEvents \in [AP!Events -> Nat]
  BY DEF HandlersTyped, AP!TypeOK
<1>2. UNCHANGED dispatched
  BY HandlersFrame DEF HandlerMoves
<1> USE DEF A!Goto, A!rows, A!gitlab, A!locals, A!Count, Removals
<1>3. ASSUME NEW p \in Patches,
             \/ A!Proceed(p) \/ A!Fail(p)
             \/ \E s \in A!Statuses : A!UpdateStatus(p, s)
      PROVE  UNCHANGED <<present, Removals>>
  BY <1>1, <1>3 DEF A!Proceed, A!Load, A!CreateProject, A!FindProject, A!Invite, A!MarkCreated,
                    A!Fail, A!UpdateStatus, AP!Events
<1>4. ASSUME \/ A!Crash
             \/ \E u \in Users, a \in Accounts : A!Relink(u, a)
             \/ \E i \in DOMAIN projects : A!RemoveProject(i)
      PROVE  UNCHANGED <<present, Removals>>
  BY <1>1, <1>4 DEF A!Crash, A!Relink, A!RemoveProject, AP!Events
<1>5. ASSUME NEW r \in Requests, A!RemoveRequest(r)
      PROVE  /\ r \in present /\ Removals < MaxRequestRemovals
             /\ present' = present \ {r} /\ Removals' = Removals + 1
  BY <1>1, <1>5 DEF A!RemoveRequest, AP!Events
<1> QED
  BY <1>2, <1>3, <1>4, <1>5 DEF HandlerMoves, A!Environment, InApproval

(* The instances of the parts mean the same by a write and an apply.       *)
LEMMA PartsAgree ==
  ASSUME NEW s, NEW d, NEW r
  PROVE  /\ ES!Written(s, d, r) = C!Written(s, d, r)
         /\ ES!PartlyWritten(s, d, r) = C!PartlyWritten(s, d, r)
         /\ CS!Written(s, d, r) = C!Written(s, d, r)
         /\ CS!PartlyWritten(s, d, r) = C!PartlyWritten(s, d, r)
         /\ E!Applied(s, d) = C!Applied(s, d)
         /\ ES!Applied(s, d) = C!Applied(s, d)
         /\ CS!Applied(s, d) = C!Applied(s, d)
<1>1. /\ ES!SettingsWritten(s, d, r) = C!SettingsWritten(s, d, r)
      /\ CS!SettingsWritten(s, d, r) = C!SettingsWritten(s, d, r)
  BY Zenon DEF ES!SettingsWritten, C!SettingsWritten, CS!SettingsWritten, ES!Keeps, C!Keeps, CS!Keeps
<1>2. \A u : /\ ES!Written(u, d, r) = C!Written(u, d, r)
             /\ CS!Written(u, d, r) = C!Written(u, d, r)
  BY Zenon DEF ES!Written, C!Written, CS!Written, ES!SettingsWritten, C!SettingsWritten,
               CS!SettingsWritten, ES!Keeps, C!Keeps, CS!Keeps, ES!MainFile, C!MainFile,
               CS!MainFile, ES!Stamped, C!Stamped, CS!Stamped
<1>3. /\ E!Applied(s, d) = C!Applied(s, d)
      /\ ES!Applied(s, d) = C!Applied(s, d)
      /\ CS!Applied(s, d) = C!Applied(s, d)
  BY Zenon DEF E!Applied, ES!Applied, C!Applied, CS!Applied
<1> QED
  BY <1>1, <1>2, <1>3, Zenon DEF ES!PartlyWritten, C!PartlyWritten, CS!PartlyWritten

(* A step of an entry DAG, as seen with the resource groups alone.         *)
LEMMA EntriesSeen ==
  ASSUME Typed, Linked, EntryMoves, InEntry PROVE [ES!Next]_(ES!vars)
<1>1. /\ UNCHANGED handlerEvents /\ store \in C!Stores
      /\ entryEvents \in [E!Events -> Nat]
  BY PlacesAgree
     DEF InEntry, Typed, ChildrenTyped, CP!TypeOK, EntriesTyped, EP!TypeOK, EP!Events, E!Events
<1>2. ASSUME UNCHANGED store PROVE UNCHANGED Groups
  BY <1>2 DEF Groups
<1>3. ASSUME UNCHANGED entryEvents PROVE UNCHANGED EntryCount
  BY <1>1, <1>3 DEF EntryCount, Removals
<1>4. ASSUME NEW e \in {"faults", "losses"}, NEW bound, E!Count(e, bound) PROVE ES!Count(e, bound)
  <2>1. entryEvents[e] < bound /\ entryEvents' = [entryEvents EXCEPT ![e] = @ + 1]
    BY <1>4 DEF E!Count
  <2>2. EntryCount[e] = entryEvents[e] /\ e \in E!Events
    BY DEF EntryCount, E!Events
  <2>3. EntryCount' = [EntryCount EXCEPT ![e] = @ + 1]
    BY <1>1, <2>1, <2>2 DEF EntryCount, Removals
  <2> QED
    BY <2>1, <2>2, <2>3 DEF ES!Count
<1>5. \A x \in AllRuns : task[x] \in EP!Fetched =>
        /\ E!GroupDir(x) \in C!Dirs /\ E!GroupDir(x)[2] = "rg" /\ message[x].request \in Requests
  <2> SUFFICES ASSUME NEW x \in AllRuns, task[x] \in EP!Fetched
               PROVE  /\ E!GroupDir(x) \in C!Dirs /\ E!GroupDir(x)[2] = "rg"
                      /\ message[x].request \in Requests
    OBVIOUS
  <2>1. message[x].request \in Requests
    BY NoMessageIsNone, TakenWasSent DEF Typed, EntriesTyped, EP!HasWork, EP!Runs, AllRuns
  <2> QED
    BY <2>1 DEF E!GroupDir, E!Directory, C!Dirs, C!Names, C!TfKinds
<1>6. ASSUME NEW x \in AllRuns, task[x] \in EP!Fetched
      PROVE  /\ store' = E!Written(store, E!GroupDir(x), message[x].request)
                  => Groups' = ES!Written(Groups, ES!GroupDir(x), message[x].request)
             /\ store' \in E!PartlyWritten(store, E!GroupDir(x), message[x].request)
                  => Groups' \in ES!PartlyWritten(Groups, ES!GroupDir(x), message[x].request)
             /\ store' = E!Applied(store, E!GroupDir(x))
                  => Groups' = ES!Applied(Groups, ES!GroupDir(x))
  <2> DEFINE d == E!GroupDir(x)
             r == message[x].request
  <2>1. ES!GroupDir(x) = d
    BY DEF ES!GroupDir, ES!Directory, E!GroupDir, E!Directory
  <2>2. d \in C!Dirs /\ d[2] \in {"rg"} /\ r \in Requests
    BY <1>5, <1>6
  <2> HIDE DEF d, r
  <2>3. /\ Part(C!Written(store, d, r), {"rg"}) = C!Written(Groups, d, r)
        /\ \A u \in C!PartlyWritten(store, d, r) : Part(u, {"rg"}) \in C!PartlyWritten(Groups, d, r)
        /\ Part(C!Applied(store, d), {"rg"}) = C!Applied(Groups, d)
    BY <1>1, <2>2, PartsApart, PartlyApart DEF Groups
  <2>4. /\ E!Written(store, d, r) = C!Written(store, d, r)
        /\ E!PartlyWritten(store, d, r) = C!PartlyWritten(store, d, r)
    BY WritesAgree, Zenon
  <2>5. E!Applied(store, d) = C!Applied(store, d)
    BY PartsAgree, Zenon
  <2>6. /\ ES!Written(Groups, d, r) = C!Written(Groups, d, r)
        /\ ES!PartlyWritten(Groups, d, r) = C!PartlyWritten(Groups, d, r)
        /\ ES!Applied(Groups, d) = C!Applied(Groups, d)
    BY PartsAgree, Zenon
  <2>7. Groups' = Part(store', {"rg"})
    BY DEF Groups
  <2> HIDE DEF Groups
  <2>8. /\ store' = E!Written(store, d, r) => Groups' = ES!Written(Groups, d, r)
        /\ store' \in E!PartlyWritten(store, d, r) => Groups' \in ES!PartlyWritten(Groups, d, r)
        /\ store' = E!Applied(store, d) => Groups' = ES!Applied(Groups, d)
    BY <2>3, <2>4, <2>5, <2>6, <2>7, Zenon
  <2> QED
    BY <2>1, <2>8 DEF d, r
<1>7. ASSUME NEW x \in DirectRuns, NEW c \in E!Clouds, E!StartDirect(x, c) PROVE ES!StartDirect(x, c)
  BY <1>2, <1>3, <1>7 DEF E!StartDirect, ES!StartDirect, E!Goto, ES!Goto, E!transport, ES!transport
<1>8. ASSUME E!Deliver PROVE ES!Deliver
  BY <1>2, <1>3, <1>8 DEF E!Deliver, ES!Deliver, E!Publish, ES!Publish, E!StartRun, ES!StartRun,
         E!Goto, ES!Goto, E!locals, ES!locals
<1>9. ASSUME NEW x \in AllRuns, E!Consume(x) PROVE ES!Consume(x)
  BY <1>2, <1>3, <1>9 DEF E!Consume, ES!Consume, E!Goto, ES!Goto, E!transport, ES!transport
<1>10. ASSUME NEW x \in AllRuns, E!Fetch(x) PROVE ES!Fetch(x)
  BY <1>2, <1>3, <1>10, Zenon DEF E!Fetch, ES!Fetch, E!Counted, ES!Counted, E!NoMessage, ES!NoMessage,
         E!Goto, ES!Goto, E!transport, ES!transport
<1>11. ASSUME NEW x \in AllRuns, E!WriteFiles(x) PROVE ES!WriteFiles(x)
  BY <1>3, <1>6, <1>11 DEF E!WriteFiles, ES!WriteFiles, EP!Fetched, E!Goto, ES!Goto,
         E!transport, ES!transport, E!locals, ES!locals
<1>12. ASSUME NEW x \in AllRuns, E!ApplyGroup(x) PROVE ES!ApplyGroup(x)
  BY <1>3, <1>6, <1>12 DEF E!ApplyGroup, ES!ApplyGroup, EP!Fetched, E!Goto, ES!Goto,
         E!transport, ES!transport, E!locals, ES!locals
<1>13. ASSUME NEW x \in AllRuns, E!Branch(x) PROVE ES!Branch(x)
  BY <1>2, <1>3, <1>13 DEF E!Branch, ES!Branch, E!Goto, ES!Goto, E!transport, ES!transport,
         E!locals, ES!locals
<1>14. ASSUME NEW m \in publishing, E!LoseMessage(m) PROVE ES!LoseMessage(m)
  BY <1>2, <1>4, <1>14 DEF E!LoseMessage, ES!LoseMessage, E!locals, ES!locals
<1>15. ASSUME NEW i \in triggering, E!LoseTrigger(i) PROVE ES!LoseTrigger(i)
  BY <1>2, <1>4, <1>15 DEF E!LoseTrigger, ES!LoseTrigger, E!locals, ES!locals
<1>16. ASSUME NEW x \in AllRuns, E!ConsumeDies(x) PROVE ES!ConsumeDies(x)
  BY <1>2, <1>4, <1>16 DEF E!ConsumeDies, ES!ConsumeDies, E!Goto, ES!Goto, E!transport, ES!transport
<1>17. ASSUME NEW x \in AllRuns, E!TaskFails(x) PROVE ES!TaskFails(x)
  <2>1. ES!Count("faults", MaxFaults)
    BY <1>4, <1>17 DEF E!TaskFails
  <2>2. \/ UNCHANGED Groups
        \/ /\ task[x] = "write"
           /\ Groups' \in ES!PartlyWritten(Groups, ES!GroupDir(x), message[x].request)
        \/ task[x] = "apply" /\ Groups' = ES!Applied(Groups, ES!GroupDir(x))
    <3>1. \/ UNCHANGED store
          \/ /\ task[x] = "write"
             /\ store' \in E!PartlyWritten(store, E!GroupDir(x), message[x].request)
          \/ task[x] = "apply" /\ store' = E!Applied(store, E!GroupDir(x))
      BY <1>17 DEF E!TaskFails
    <3>2. task[x] \in {"write", "apply"} => task[x] \in EP!Fetched
      BY DEF EP!Fetched
    <3> QED
      BY <1>2, <1>6, <3>1, <3>2
  <2> QED
    BY <1>17, <2>1, <2>2 DEF E!TaskFails, ES!TaskFails, E!Goto, ES!Goto, E!Tasks, ES!Tasks,
         E!transport, ES!transport, E!locals, ES!locals
<1>18. ASSUME NEW x \in AllRuns, NEW k \in E!Kinds, E!TriggerFails(x, k) PROVE ES!TriggerFails(x, k)
  BY <1>2, <1>4, <1>18 DEF E!TriggerFails, ES!TriggerFails, E!TriggerEnds, ES!TriggerEnds,
         E!Goto, ES!Goto, E!transport, ES!transport
<1> QED
  BY <1>7, <1>8, <1>9, <1>10, <1>11, <1>12, <1>13, <1>14, <1>15, <1>16, <1>17, <1>18
     DEF EntryMoves, E!Work, E!Faults, ES!Next, ES!RunStep, ES!Work, ES!Faults, E!Runs, ES!Runs,
         AllRuns, E!Clouds, ES!Clouds, E!Kinds, ES!Kinds

(* The entry DAGs work in the directories of resource groups, the others   *)
(* in those of instances.                                                  *)
LEMMA EntryWrites ==
  ASSUME Typed, Linked, EntryMoves
  PROVE  UNCHANGED Instances
<1>1. store \in C!Stores
  BY PlacesAgree DEF Typed, ChildrenTyped, CP!TypeOK
<1>2. ASSUME NEW x \in AllRuns, task[x] \in EP!Fetched, NEW t,
             \/ t \in C!PartlyWritten(store, E!GroupDir(x), message[x].request)
             \/ t = C!Applied(store, E!GroupDir(x))
      PROVE  Part(t, C!Kinds) = Instances
  <2>1. message[x].request \in Requests
    BY <1>2, NoMessageIsNone, TakenWasSent DEF Typed, EntriesTyped, EP!HasWork, EP!Runs, AllRuns
  <2>2. E!GroupDir(x) \in C!Dirs /\ E!GroupDir(x)[2] \notin C!Kinds
    BY <2>1 DEF E!GroupDir, E!Directory, C!Dirs, C!Names, C!TfKinds, C!Kinds
  <2> QED
    BY <1>1, <1>2, <2>1, <2>2, PartsApart, PartlyApart DEF Instances
<1>3. ASSUME NEW x \in AllRuns, E!WriteFiles(x) \/ E!ApplyGroup(x) \/ E!TaskFails(x)
      PROVE  UNCHANGED Instances
  <2>1. \/ UNCHANGED store
        \/ task[x] = "write" /\ store' = E!Written(store, E!GroupDir(x), message[x].request)
        \/ /\ task[x] = "write"
           /\ store' \in E!PartlyWritten(store, E!GroupDir(x), message[x].request)
        \/ task[x] = "apply" /\ store' = E!Applied(store, E!GroupDir(x))
    BY <1>3 DEF E!WriteFiles, E!ApplyGroup, E!TaskFails
  <2>2. E!Written(store, E!GroupDir(x), message[x].request)
          \in C!PartlyWritten(store, E!GroupDir(x), message[x].request)
    BY WritesAgree DEF C!PartlyWritten
  <2>3. \/ UNCHANGED store
        \/ /\ task[x] \in EP!Fetched
           /\ \/ store' \in C!PartlyWritten(store, E!GroupDir(x), message[x].request)
              \/ store' = C!Applied(store, E!GroupDir(x))
    BY <2>1, <2>2, WritesAgree, PartsAgree DEF EP!Fetched
  <2> QED
    BY <1>2, <2>3 DEF Instances
<1>4. ASSUME \/ \E x \in DirectRuns, c \in E!Clouds : E!StartDirect(x, c)
             \/ E!Deliver
             \/ \E m \in publishing : E!LoseMessage(m)
             \/ \E i \in triggering : E!LoseTrigger(i)
             \/ \E x \in AllRuns : \/ E!Consume(x) \/ E!Fetch(x) \/ E!Branch(x) \/ E!ConsumeDies(x)
                                   \/ \E k \in E!Kinds : E!TriggerFails(x, k)
      PROVE  UNCHANGED store
  BY <1>4 DEF E!StartDirect, E!Deliver, E!Publish, E!StartRun, E!LoseMessage, E!LoseTrigger,
              E!Consume, E!Fetch, E!Branch, E!ConsumeDies, E!TriggerFails, E!TriggerEnds
<1> QED
  BY <1>3, <1>4 DEF EntryMoves, E!Work, E!Faults, E!Runs, AllRuns, Instances

(* What writing and applying an instance's directory is to each side.      *)
LEMMA ChildWrites ==
  ASSUME Typed, NEW i \in ChildRuns, stage[i] # "none"
  PROVE  /\ CS!DirOf(i) = C!DirOf(i)
         /\ \A u \in C!PartlyWritten(store, C!DirOf(i), about[i][1]) :
              /\ Part(u, {"rg"}) = Groups
              /\ Part(u, C!Kinds) \in CS!PartlyWritten(Instances, C!DirOf(i), about[i][1])
         /\ Part(C!Written(store, C!DirOf(i), about[i][1]), C!Kinds)
              = CS!Written(Instances, C!DirOf(i), about[i][1])
         /\ Part(C!Written(C!Written(store, C!DirOf(i), about[i][1]), C!DirOf(i), about[i][1]), C!Kinds)
              = CS!Written(CS!Written(Instances, C!DirOf(i), about[i][1]), C!DirOf(i), about[i][1])
         /\ Part(C!Applied(store, C!DirOf(i)), {"rg"}) = Groups
         /\ Part(C!Applied(store, C!DirOf(i)), C!Kinds) = CS!Applied(Instances, C!DirOf(i))
         /\ Instances.state[C!DirOf(i)] = store.state[C!DirOf(i)]
         /\ CS!Clashes(Instances, C!DirOf(i)) <=> C!Clashes(store, C!DirOf(i))
<1> DEFINE d == C!DirOf(i)
           r == about[i][1]
<1>1. store \in C!Stores
  BY PlacesAgree DEF Typed, ChildrenTyped, CP!TypeOK
<1>2. about[i] \in Requests \X C!Kinds
  BY DEF Typed, ChildrenTyped, CP!RunsHaveWork, CP!Objects, CP!Kinds, C!Kinds
<1>3. d \in C!Dirs /\ d[2] \in C!Kinds /\ d[2] \notin {"rg"} /\ r \in Requests
  BY <1>2 DEF C!DirOf, C!Directory, C!Dirs, C!Names, C!TfKinds, C!Kinds
<1>4. CS!DirOf(i) = d
  BY DEF CS!DirOf, C!DirOf, CS!Directory, C!Directory
<1>5. Instances.state[d] = store.state[d] /\ Instances.mains[d] = store.mains[d]
  BY <1>3 DEF Instances, Part, Fields, Of
<1> HIDE DEF d, r
<1>6. CS!Clashes(Instances, d) <=> C!Clashes(store, d)
  BY <1>5 DEF CS!Clashes, C!Clashes
<1>7. /\ \A u \in C!PartlyWritten(store, d, r) : Part(u, {"rg"}) = Groups
      /\ Part(C!Applied(store, d), {"rg"}) = Groups
  <2>1. \A u \in C!PartlyWritten(store, d, r) : Part(u, {"rg"}) = Part(store, {"rg"})
    BY <1>1, <1>3, PartlyApart
  <2>2. Part(C!Applied(store, d), {"rg"}) = Part(store, {"rg"})
    BY <1>1, <1>3, PartsApart
  <2> QED
    BY <2>1, <2>2 DEF Groups
<1>8. /\ \A u \in C!PartlyWritten(store, d, r) :
           Part(u, C!Kinds) \in C!PartlyWritten(Instances, d, r)
      /\ Part(C!Written(store, d, r), C!Kinds) = C!Written(Instances, d, r)
      /\ Part(C!Written(C!Written(store, d, r), d, r), C!Kinds)
           = C!Written(C!Written(Instances, d, r), d, r)
      /\ Part(C!Applied(store, d), C!Kinds) = C!Applied(Instances, d)
  BY <1>1, <1>3, PartsApart, PartlyApart DEF Instances
<1>9. /\ \A u \in C!PartlyWritten(store, d, r) :
           Part(u, C!Kinds) \in CS!PartlyWritten(Instances, d, r)
      /\ Part(C!Written(store, d, r), C!Kinds) = CS!Written(Instances, d, r)
      /\ Part(C!Written(C!Written(store, d, r), d, r), C!Kinds)
           = CS!Written(CS!Written(Instances, d, r), d, r)
      /\ Part(C!Applied(store, d), C!Kinds) = CS!Applied(Instances, d)
  <2>1. C!PartlyWritten(Instances, d, r) = CS!PartlyWritten(Instances, d, r)
    BY PartsAgree
  <2>2. \A s : CS!Written(s, d, r) = C!Written(s, d, r)
    BY PartsAgree
  <2>3. C!Applied(Instances, d) = CS!Applied(Instances, d)
    BY PartsAgree
  <2> QED
    BY <1>8, <2>1, <2>2, <2>3
<1> QED
  BY <1>4, <1>5, <1>6, <1>7, <1>9, Zenon DEF d, r

(* A step of a provisioning DAG, as seen with the instances alone.         *)
LEMMA ChildrenSeen ==
  ASSUME Typed, ChildMoves, InChild
  PROVE  [CS!Next]_(CS!vars) /\ UNCHANGED <<Groups, present, Removals>>
<1>1. childEvents \in [C!Events -> Nat] /\ UNCHANGED handlerEvents
  BY DEF InChild, Typed, ChildrenTyped, CP!TypeOK, CP!Events, C!Events
<1>2. ASSUME UNCHANGED store PROVE UNCHANGED <<Groups, Instances>>
  BY <1>2 DEF Groups, Instances
<1>3. ASSUME UNCHANGED childEvents PROVE UNCHANGED ChildCount
  BY <1>1, <1>3 DEF ChildCount, Removals
<1>4. ASSUME C!Count("faults", MaxFaults) PROVE CS!Count("faults", MaxFaults)
  <2>1. childEvents["faults"] < MaxFaults /\ childEvents' = [childEvents EXCEPT !["faults"] = @ + 1]
    BY <1>4 DEF C!Count
  <2>2. ChildCount["faults"] = childEvents["faults"] /\ "faults" \in C!Events
    BY DEF ChildCount, C!Events
  <2>3. ChildCount' = [ChildCount EXCEPT !["faults"] = @ + 1]
    BY <1>1, <2>1, <2>2 DEF ChildCount, Removals
  <2> QED
    BY <2>1, <2>2, <2>3 DEF CS!Count
<1>5. ASSUME NEW i \in ChildRuns, C!Fetch(i)
      PROVE  CS!Fetch(i) /\ UNCHANGED <<Groups, present>>
  BY <1>2, <1>3, <1>5 DEF C!Fetch, CS!Fetch, C!Goto, CS!Goto
<1>6. ASSUME NEW i \in ChildRuns, C!WriteFiles(i)
      PROVE  CS!WriteFiles(i) /\ UNCHANGED <<Groups, present>>
  <2>1. /\ stage[i] = "write" /\ store' = C!Written(store, C!DirOf(i), about[i][1])
        /\ C!Goto(i, "apply") /\ UNCHANGED <<present, about, recorded, childEvents>>
    BY <1>6 DEF C!WriteFiles
  <2>2. store' \in C!PartlyWritten(store, C!DirOf(i), about[i][1])
    BY <2>1 DEF C!PartlyWritten
  <2>3. Groups' = Groups /\ Instances' = CS!Written(Instances, CS!DirOf(i), about[i][1])
    BY <2>1, <2>2, ChildWrites, Zenon DEF Groups, Instances
  <2> QED
    BY <1>3, <2>1, <2>3 DEF CS!WriteFiles, C!Goto, CS!Goto
<1>7. ASSUME NEW i \in ChildRuns, stage[i] # "none", store' = C!Applied(store, C!DirOf(i))
      PROVE  Groups' = Groups /\ Instances' = CS!Applied(Instances, CS!DirOf(i))
  BY <1>7, ChildWrites, Zenon DEF Groups, Instances
<1>8. ASSUME NEW i \in ChildRuns, C!Apply(i)
      PROVE  CS!Apply(i) /\ UNCHANGED <<Groups, present>>
  <2>1. CS!Clashes(Instances, CS!DirOf(i)) <=> C!Clashes(store, C!DirOf(i))
    BY <1>8, ChildWrites DEF C!Apply
  <2>2. CASE C!Clashes(store, C!DirOf(i))
    BY <1>2, <1>3, <1>8, <2>1, <2>2 DEF C!Apply, CS!Apply, C!Goto, CS!Goto
  <2>3. CASE ~C!Clashes(store, C!DirOf(i))
    <3>1. Groups' = Groups /\ Instances' = CS!Applied(Instances, CS!DirOf(i))
      BY <1>7, <1>8, <2>3 DEF C!Apply
    <3> QED
      BY <1>3, <1>8, <2>1, <2>3, <3>1 DEF C!Apply, CS!Apply, C!Goto, CS!Goto
  <2> QED
    BY <2>2, <2>3
<1>9. ASSUME NEW i \in ChildRuns, C!Record(i)
      PROVE  CS!Record(i) /\ UNCHANGED <<Groups, present>>
  <2>1. Instances.state[CS!DirOf(i)] = store.state[C!DirOf(i)]
    BY <1>9, ChildWrites DEF C!Record
  <2> QED
    BY <1>2, <1>3, <1>9, <2>1 DEF C!Record, CS!Record, C!Goto, CS!Goto
<1>10. ASSUME NEW i \in ChildRuns, C!TaskFails(i)
       PROVE  CS!TaskFails(i) /\ UNCHANGED <<Groups, present>>
  <2>1. /\ Groups' = Groups
        /\ \/ UNCHANGED Instances
           \/ /\ stage[i] = "write"
              /\ Instances' \in CS!PartlyWritten(Instances, CS!DirOf(i), about[i][1])
           \/ /\ stage[i] = "apply" /\ ~CS!Clashes(Instances, CS!DirOf(i))
              /\ Instances' = CS!Applied(Instances, CS!DirOf(i))
    <3>1. CASE UNCHANGED store
      BY <1>2, <3>1
    <3>2. CASE stage[i] = "write" /\ store' \in C!PartlyWritten(store, C!DirOf(i), about[i][1])
      BY <3>2, ChildWrites DEF Groups, Instances
    <3>3. CASE stage[i] = "apply" /\ ~C!Clashes(store, C!DirOf(i)) /\ store' = C!Applied(store, C!DirOf(i))
      BY <1>7, <3>3, ChildWrites
    <3> QED
      BY <1>10, <3>1, <3>2, <3>3 DEF C!TaskFails
  <2>2. CS!Count("faults", MaxFaults)
    BY <1>4, <1>10 DEF C!TaskFails
  <2> QED
    BY <1>10, <2>1, <2>2 DEF C!TaskFails, CS!TaskFails, C!Goto, CS!Goto, C!Stages, CS!Stages
<1>11. ASSUME NEW i \in ChildRuns, C!WriteFilesTwice(i)
       PROVE  CS!WriteFilesTwice(i) /\ UNCHANGED <<Groups, present>>
  <2> DEFINE u == C!Written(C!Written(store, C!DirOf(i), about[i][1]), C!DirOf(i), about[i][1])
  <2>1. /\ stage[i] = "write" /\ store' = u /\ C!Count("faults", MaxFaults)
        /\ C!Goto(i, "apply") /\ UNCHANGED <<present, about, recorded>>
    BY <1>11 DEF C!WriteFilesTwice
  <2>2. u \in C!PartlyWritten(store, C!DirOf(i), about[i][1])
    BY DEF C!PartlyWritten
  <2>3. /\ Groups' = Groups
        /\ Instances' = CS!Written(CS!Written(Instances, CS!DirOf(i), about[i][1]),
                                   CS!DirOf(i), about[i][1])
    BY <2>1, <2>2, ChildWrites, Zenon DEF Groups, Instances
  <2> QED
    BY <1>4, <2>1, <2>3 DEF CS!WriteFilesTwice, C!Goto, CS!Goto
<1>12. UNCHANGED Removals
  BY <1>1 DEF Removals
<1> QED
  BY <1>5, <1>6, <1>8, <1>9, <1>10, <1>11, <1>12
     DEF ChildMoves, C!RunStep, C!Faults, CS!Next, CS!RunStep, CS!Faults

(* The handlers with all they share: nobody else dispatches, or removes a  *)
(* request.                                                                *)
THEOREM PipelineImplementsApproval == Spec => A!Spec
<1>1. Init => A!Init
  BY DEF Init
<1>2. Typed /\ Linked /\ [Next]_vars => [A!Next]_(A!vars)
  <2> SUFFICES ASSUME Typed, Linked, [Next]_vars PROVE [A!Next]_(A!vars)
    OBVIOUS
  <2>1. ASSUME UNCHANGED <<approvalVars, handlerEvents, present, dispatched>> PROVE UNCHANGED A!vars
    BY <2>1 DEF approvalVars, A!vars
  <2>2. CASE HandlerMoves
    BY <2>2 DEF HandlerMoves, A!Next, A!Advance
  <2>3. ASSUME NEW p \in Patches, Dispatch(p) PROVE A!Next
    BY <2>3 DEF Dispatch, A!Next, A!Advance
  <2>4. CASE EntryMoves /\ InEntry
    BY <2>1, <2>4, EntryFrame DEF InEntry, Typed
  <2>5. ASSUME NEW x \in AllRuns, NEW k \in E!Kinds, TriggerChild(x, k) PROVE UNCHANGED A!vars
    BY <2>1, <2>5, TriggerFrame
  <2>6. CASE ChildMoves /\ InChild
    BY <2>1, <2>6, ChildFrame DEF InChild
  <2>7. CASE UNCHANGED vars
    BY <2>1, <2>7 DEF vars
  <2> QED
    BY <2>2, <2>3, <2>4, <2>5, <2>6, <2>7, StepCases
<1> QED
  BY <1>1, <1>2, LinkedInvariant, PTL DEF Spec, A!Spec

(* The queue and the entry DAGs, with handlers that dispatch, users that   *)
(* remove requests and provisioning DAGs that work on the same host.       *)
THEOREM PipelineImplementsEntryDags == Spec => ES!Spec
<1>1. Init => ES!Init
  <2> SUFFICES ASSUME Init PROVE ES!Init
    OBVIOUS
  <2>1. Groups = ES!EmptyStore
    BY DEF Init, C!Init, C!EmptyStore, Groups, Part, Fields, Of, ES!EmptyStore, C!Dirs, ES!Dirs, C!Names,
           ES!Names, C!TfKinds, ES!TfKinds, C!Kinds, ES!Kinds
  <2>2. EntryCount = [e \in ES!Events |-> 0]
    BY DEF Init, A!Init, A!Events, E!Init, EntryCount, Removals, E!Events, ES!Events
  <2> QED
    BY <2>1, <2>2 DEF Init, E!Init, ES!Init, E!Runs, ES!Runs, E!NoMessage, ES!NoMessage
<1>2. Typed /\ Linked /\ [Next]_vars => [ES!Next]_(ES!vars)
  <2> SUFFICES ASSUME Typed, Linked, [Next]_vars PROVE [ES!Next]_(ES!vars)
    OBVIOUS
  <2>1. ASSUME UNCHANGED <<entryVars, dispatched, present, Groups, EntryCount>> PROVE UNCHANGED ES!vars
    BY <2>1 DEF entryVars, ES!vars
  <2>2. ASSUME UNCHANGED <<entryEvents, Removals>> PROVE UNCHANGED EntryCount
    BY <2>2 DEF EntryCount
  <2>3. ASSUME UNCHANGED store PROVE UNCHANGED Groups
    BY <2>3 DEF Groups
  <2>4. CASE HandlerMoves /\ InApproval
    <3>1. UNCHANGED <<store, entryVars, entryEvents, dispatched>>
      BY <2>4, HandlersOutside DEF Typed
    <3>2. CASE UNCHANGED <<present, Removals>>
      BY <2>1, <2>2, <2>3, <3>1, <3>2
    <3>3. ASSUME NEW r \in Requests, r \in present, Removals < MaxRequestRemovals,
                 present' = present \ {r}, Removals' = Removals + 1
          PROVE  ES!RemoveRequest(r)
      <4>1. EntryCount["requestRemovals"] = Removals /\ "requestRemovals" \in E!Events
        BY DEF EntryCount, E!Events
      <4>2. EntryCount' = [EntryCount EXCEPT !["requestRemovals"] = @ + 1]
        BY <3>1, <3>3, <4>1 DEF EntryCount
      <4> QED
        BY <2>3, <3>1, <3>3, <4>1, <4>2
           DEF ES!RemoveRequest, ES!Count, ES!transport, ES!locals, entryVars
    <3> QED
      BY <2>4, <3>2, <3>3, HandlersOutside DEF Typed, ES!Next
  <2>5. ASSUME NEW p \in Patches, Dispatch(p) PROVE ES!Next
    <3>1. E!Send(p, subject[p]) /\ UNCHANGED handlerEvents /\ subject[p] \in Requests
      BY <2>5 DEF Dispatch, A!Dispatch, Typed, HandlersTyped, AP!TypeOK
    <3>2. ES!Send(p, subject[p])
      BY <2>2, <2>3, <3>1 DEF E!Send, ES!Send, Removals
    <3> QED
      BY <3>1, <3>2 DEF ES!Next
  <2>6. CASE EntryMoves /\ InEntry
    BY <2>6, EntriesSeen
  <2>7. ASSUME NEW x \in AllRuns, NEW k \in E!Kinds, TriggerChild(x, k) PROVE ES!Next
    <3>1. E!TriggerChild(x, k) /\ UNCHANGED handlerEvents
      BY <2>7 DEF TriggerChild
    <3>2. ES!TriggerChild(x, k)
      BY <2>2, <2>3, <3>1 DEF E!TriggerChild, ES!TriggerChild, E!TriggerEnds, ES!TriggerEnds,
         E!Goto, ES!Goto, E!transport, ES!transport, E!Registered, ES!Registered, E!Clouds,
         ES!Clouds, E!Kinds, ES!Kinds, Removals
    <3> QED
      BY <3>2 DEF ES!Next, ES!RunStep, ES!Runs, AllRuns, E!Kinds, ES!Kinds
  <2>8. CASE ChildMoves /\ InChild
    BY <2>1, <2>2, <2>8, ChildrenSeen DEF InChild
  <2>9. CASE UNCHANGED vars
    BY <2>1, <2>2, <2>3, <2>9 DEF vars, Removals
  <2> QED
    BY <2>4, <2>5, <2>6, <2>7, <2>8, <2>9, StepCases
<1> QED
  BY <1>1, <1>2, LinkedInvariant, PTL DEF Spec, ES!Spec

(* The provisioning DAGs, started by trigger tasks.                        *)
THEOREM PipelineImplementsChildDags == Spec => CS!Spec
<1>1. Init => CS!Init
  <2> SUFFICES ASSUME Init PROVE CS!Init
    OBVIOUS
  <2>1. Instances = CS!EmptyStore
    BY DEF Init, C!Init, C!EmptyStore, Instances, Part, Fields, Of, CS!EmptyStore, C!Dirs, CS!Dirs, C!Names,
           CS!Names, C!TfKinds, CS!TfKinds, C!Kinds, CS!Kinds
  <2>2. ChildCount = [e \in CS!Events |-> 0]
    BY DEF Init, A!Init, A!Events, C!Init, ChildCount, Removals, C!Events, CS!Events
  <2> QED
    BY <2>1, <2>2 DEF Init, C!Init, CS!Init, C!NoSubject, CS!NoSubject, C!Kinds, CS!Kinds
<1>2. Typed /\ Linked /\ [Next]_vars => [CS!Next]_(CS!vars)
  <2> SUFFICES ASSUME Typed, Linked, [Next]_vars PROVE [CS!Next]_(CS!vars)
    OBVIOUS
  <2>1. ASSUME UNCHANGED <<childVars, present, Instances, ChildCount>> PROVE UNCHANGED CS!vars
    BY <2>1 DEF childVars, CS!vars
  <2>2. ASSUME UNCHANGED <<childEvents, Removals>> PROVE UNCHANGED ChildCount
    BY <2>2 DEF ChildCount
  <2>3. ASSUME UNCHANGED store PROVE UNCHANGED Instances
    BY <2>3 DEF Instances
  <2>4. CASE HandlerMoves /\ InApproval
    <3>1. UNCHANGED <<store, childVars, childEvents>>
      BY <2>4, HandlersOutside DEF Typed
    <3>2. CASE UNCHANGED <<present, Removals>>
      BY <2>1, <2>2, <2>3, <3>1, <3>2
    <3>3. ASSUME NEW r \in Requests, r \in present, Removals < MaxRequestRemovals,
                 present' = present \ {r}, Removals' = Removals + 1
          PROVE  CS!RemoveRequest(r)
      <4>1. ChildCount["requestRemovals"] = Removals /\ "requestRemovals" \in C!Events
        BY DEF ChildCount, C!Events
      <4>2. ChildCount' = [ChildCount EXCEPT !["requestRemovals"] = @ + 1]
        BY <3>1, <3>3, <4>1 DEF ChildCount
      <4> QED
        BY <2>3, <3>1, <3>3, <4>1, <4>2 DEF CS!RemoveRequest, CS!Count, childVars
    <3> QED
      BY <2>4, <3>2, <3>3, HandlersOutside DEF Typed, CS!Next
  <2>5. ASSUME NEW p \in Patches, Dispatch(p) PROVE UNCHANGED CS!vars
    BY <2>1, <2>2, <2>3, <2>5, DispatchFrame DEF Dispatch, A!Dispatch, Removals
  <2>6. CASE EntryMoves /\ InEntry
    BY <2>1, <2>2, <2>6, EntryFrame, EntryWrites DEF InEntry, Typed, Removals
  <2>7. ASSUME NEW x \in AllRuns, NEW k \in E!Kinds, TriggerChild(x, k) PROVE [CS!Next]_(CS!vars)
    <3>1. UNCHANGED <<present, store, recorded, handlerEvents>>
      BY <2>7, TriggerFrame
    <3>2. CASE UNCHANGED <<childVars, childEvents>>
      BY <2>1, <2>2, <2>3, <3>1, <3>2 DEF Removals
    <3>3. CASE C!Start(<<x, k>>, message[x].request, k)
      <4>1. message[x] # E!NoMessage
        BY <2>7, TriggerFrame
      <4>2. message[x].request \in Requests /\ <<x, k>> \in ChildRuns /\ k \in CS!Kinds
        BY <4>1, TakenWasSent DEF ChildRuns, AllRuns, E!Kinds, CS!Kinds
      <4>3. CS!Start(<<x, k>>, message[x].request, k)
        BY <2>2, <2>3, <3>1, <3>3 DEF C!Start, CS!Start, C!Goto, CS!Goto, Removals
      <4> QED
        BY <4>2, <4>3 DEF CS!Next
    <3> QED
      BY <2>7, <3>2, <3>3 DEF TriggerChild
  <2>8. CASE ChildMoves /\ InChild
    BY <2>8, ChildrenSeen
  <2>9. CASE UNCHANGED vars
    BY <2>1, <2>2, <2>3, <2>9 DEF vars, Removals
  <2> QED
    BY <2>4, <2>5, <2>6, <2>7, <2>8, <2>9, StepCases
<1> QED
  BY <1>1, <1>2, LinkedInvariant, PTL DEF Spec, CS!Spec

(* Approval and ApprovalProofs speak of the same behaviours.               *)
LEMMA SameSize ==
  ASSUME NEW S PROVE A!Cardinality(S) = AP!Cardinality(S) /\ E!Cardinality(S) = ES!Cardinality(S)
BY DEF A!Cardinality, AP!Cardinality, E!Cardinality, ES!Cardinality

LEMMA ApprovalAsProved == A!Spec => AP!Spec
<1>1. A!Init => AP!Init
  BY Zenon DEF A!Init, AP!Init, A!NoProject, AP!NoProject, A!Events, AP!Events
<1>2. ASSUME NEW p \in Patches, NEW s \in A!Statuses, A!UpdateStatus(p, s) PROVE AP!Next
  <2>1. AP!UpdateStatus(p, s)
    BY <1>2, SameSize, Zenon DEF A!UpdateStatus, AP!UpdateStatus, A!OpenHandlers, AP!OpenHandlers, A!Open, AP!Open,
           A!Goto, AP!Goto, A!gitlab, AP!gitlab, A!locals, AP!locals
  <2> QED
    BY <2>1 DEF AP!Next, A!Statuses, AP!Statuses
<1>3. A!Next => AP!Next
  <2>1. (\E p \in Patches : A!Advance(p)) \/ A!Environment => AP!Next
    BY HandlersAsProved
  <2> QED
    BY <1>2, <2>1 DEF A!Next
<1>4. [A!Next]_(A!vars) => [AP!Next]_(AP!vars)
  BY <1>3 DEF A!vars, AP!vars
<1> QED
  BY <1>1, <1>4, PTL DEF A!Spec, AP!Spec

(* What was proved of the parts by themselves holds of them together.  Of  *)
(* approvals: a request is dispatched once for each of its projects, a     *)
(* repository that is Created has one, and what is dispatched is Approved. *)
THEOREM ApprovalHoldsInPipeline ==
  Spec => /\ [](A!OneDispatchPerProject /\ A!CreatedHasProject)
          /\ A!DispatchSeesApproved
<1>1. AP!Spec => []AP!OneDispatchPerProject
  BY PartsAssumption, AP!DispatchedOncePerProject
     DEF A!OwnerAssumption, A!InviteesAssumption, A!ProviderAssumption, A!NameInAssumption
<1>2. AP!Spec => []AP!CreatedHasProject
  BY PartsAssumption, AP!CreatedMeansProject
     DEF A!OwnerAssumption, A!InviteesAssumption, A!ProviderAssumption, A!NameInAssumption
<1>3. AP!Spec => AP!DispatchSeesApproved
  BY PartsAssumption, AP!DispatchesAreApproved
     DEF A!OwnerAssumption, A!InviteesAssumption, A!ProviderAssumption, A!NameInAssumption
<1>4. AP!OneDispatchPerProject => A!OneDispatchPerProject
  BY DEF AP!OneDispatchPerProject, A!OneDispatchPerProject, AP!Own, A!Own
<1>5. AP!CreatedHasProject => A!CreatedHasProject
  BY Zenon DEF AP!CreatedHasProject, A!CreatedHasProject, AP!ToSet, A!ToSet
<1>6. AP!DispatchSeesApproved => A!DispatchSeesApproved
  BY PTL DEF AP!DispatchSeesApproved, A!DispatchSeesApproved, AP!vars, A!vars
<1> QED
  BY <1>1, <1>2, <1>3, <1>4, <1>5, <1>6, ApprovalAsProved, PipelineImplementsApproval, PTL

(* Of messages: each is delivered at most once and in order of arrival, a  *)
(* provisioning DAG is started for what its request asks for, and the      *)
(* messages that wait match the runs to come.                              *)
THEOREM DeliveryHoldsInPipeline ==
  Spec => /\ ES!DeliversAtMostOnce
          /\ [](E!NoMessageTwice /\ E!ChildrenMatchRequest /\ E!QueueBalance)
<1> USE PartsAssumption DEF E!SendsAssumption, E!ProviderAssumption, E!WantedAssumption,
        C!NoneAssumption, E!Clouds, ES!Clouds, E!Kinds, ES!Kinds
<1>1. ES!Spec => ES!DeliversAtMostOnce
  BY ES!QueueImplementsDelivery
<1>2. ES!Spec => []ES!NoMessageTwice
  BY ES!MessagesAreNotShared
<1>3. ES!Spec => []ES!ChildrenMatchRequest
  BY ES!ChildrenMatch
<1>4. ES!Spec => []ES!QueueBalance
  BY ES!MessagesMatchRuns
<1>5. ES!NoMessageTwice => E!NoMessageTwice
  BY Zenon DEF ES!NoMessageTwice, E!NoMessageTwice, ES!ToSet, E!ToSet, ES!Runs, E!Runs,
               ES!NoMessage, E!NoMessage
<1>6. ES!ChildrenMatchRequest => E!ChildrenMatchRequest
  BY DEF ES!ChildrenMatchRequest, E!ChildrenMatchRequest
<1>7. ES!QueueBalance => E!QueueBalance
  <2>1. EntryCount["faults"] = entryEvents["faults"] /\ EntryCount["losses"] = entryEvents["losses"]
    BY DEF EntryCount, E!Events
  <2>2. ES!Waiting = E!Waiting /\ ES!CameUpEmpty = E!CameUpEmpty
    BY Zenon DEF ES!Waiting, E!Waiting, ES!CameUpEmpty, E!CameUpEmpty, ES!Runs, E!Runs,
                 ES!NoMessage, E!NoMessage
  <2> QED
    BY <2>1, <2>2, SameSize DEF ES!QueueBalance, E!QueueBalance
<1> QED
  BY <1>1, <1>2, <1>3, <1>4, <1>5, <1>6, <1>7, PipelineImplementsEntryDags, PTL

(* Files and state of a directory are of requests whose directory it is,   *)
(* the state lists what is left of them, instances or groups, and groups   *)
(* have one main file.                                                     *)
StoreKeepsTrack ==
  /\ \A d \in C!Dirs :
       /\ store.files[d] # None => C!Directory(store.files[d], d[2]) = d
       /\ store.state[d] # None => C!Directory(store.state[d], d[2]) = d
       /\ d[2] = "rg" => store.mains[d] \subseteq {"main"}
  /\ \A o \in store.cloud : store.state[C!Directory(o[1], o[2])] = o[1]

LEMMA StepsMoveStore ==
  ASSUME Typed, Linked, [Next]_vars PROVE StoreMoves
<1>1. ASSUME UNCHANGED store PROVE StoreMoves
  BY <1>1 DEF StoreMoves
<1>2. ASSUME NEW p \in Patches, Dispatch(p) PROVE UNCHANGED store
  BY <1>2, DispatchFrame
<1>3. ASSUME NEW x \in AllRuns, NEW k \in E!Kinds, TriggerChild(x, k) PROVE UNCHANGED store
  BY <1>3, TriggerFrame
<1> QED
  BY <1>1, <1>2, <1>3, EntryStore, ChildFrame, StepCases DEF InApproval, vars

LEMMA TrackKept == Typed /\ Linked /\ StoreKeepsTrack /\ [Next]_vars => StoreKeepsTrack'
<1> SUFFICES ASSUME Typed, Linked, StoreKeepsTrack, [Next]_vars PROVE StoreKeepsTrack'
  OBVIOUS
<1>1. /\ store \in C!Stores /\ Sent \in SUBSET Requests /\ None \notin Requests
  BY PartsAssumption, PlacesAgree
     DEF C!NoneAssumption, Typed, ChildrenTyped, CP!TypeOK, HandlersTyped, AP!TypeOK, Sent
<1>2. CASE UNCHANGED store
  BY <1>2 DEF StoreKeepsTrack
<1>3. ASSUME NEW d \in C!Dirs, NEW r \in Sent, C!Directory(r, d[2]) = d,
             store' \in C!PartlyWritten(store, d, r)
      PROVE  StoreKeepsTrack'
  <2>1. CP!WritesInto(store, store', d, r)
    BY <1>1, <1>3, PartsAssumption, PlacesAgree, WritesAgree, CP!PartlyWrittenEffects
       DEF C!NoneAssumption
  <2>2. /\ store'.state = store.state /\ store'.cloud = store.cloud
        /\ store'.files[d] \in {store.files[d], r}
        /\ d[2] = "rg" => store'.mains[d] \subseteq store.mains[d] \cup {"main"}
        /\ \A e \in C!Dirs : e # d =>
             store'.files[e] = store.files[e] /\ store'.mains[e] = store.mains[e]
    BY <2>1, PlacesAgree DEF CP!WritesInto, CP!Stamped
  <2> QED
    BY <1>3, <2>2 DEF StoreKeepsTrack
<1>4. ASSUME NEW d \in C!Dirs, store.files[d] \in Requests, store' = C!Applied(store, d)
      PROVE  StoreKeepsTrack'
  <2> DEFINE f == store.files[d]
             g == store.state[d]
  <2>1. /\ store'.files = store.files /\ store'.mains = store.mains
        /\ store'.state = [store.state EXCEPT ![d] = f]
        /\ store'.cloud = (store.cloud \ {<<g, d[2]>>}) \cup {<<f, d[2]>>}
        /\ store.cloud \subseteq Requests \X C!TfKinds
    BY <1>1, <1>4 DEF C!Applied, C!Stores
  <2>2. \A e \in C!Dirs : store'.state[e] = IF e = d THEN f ELSE store.state[e]
    BY <1>1, <2>1 DEF C!Stores
  <2>3. C!Directory(f, d[2]) = d
    BY <1>1, <1>4 DEF StoreKeepsTrack
  <2>4. ASSUME NEW o \in store'.cloud
        PROVE  store'.state[C!Directory(o[1], o[2])] = o[1]
    <3>1. CASE o = <<f, d[2]>>
      BY <2>2, <2>3, <3>1
    <3>2. CASE o # <<f, d[2]>>
      <4>1. o \in store.cloud /\ o # <<g, d[2]>> /\ o \in Requests \X C!TfKinds
        BY <2>1, <2>4, <3>2
      <4>2. /\ C!Directory(o[1], o[2]) \in C!Dirs /\ C!Directory(o[1], o[2])[2] = o[2]
            /\ o = <<o[1], o[2]>>
        BY <4>1 DEF C!Directory, C!Dirs, C!Names
      <4>3. store.state[C!Directory(o[1], o[2])] = o[1]
        BY <4>1 DEF StoreKeepsTrack
      <4>4. C!Directory(o[1], o[2]) # d
        BY <4>1, <4>2, <4>3
      <4> QED
        BY <2>2, <4>2, <4>3, <4>4
    <3> QED
      BY <3>1, <3>2
  <2>5. \A e \in C!Dirs :
          /\ store'.files[e] # None => C!Directory(store'.files[e], e[2]) = e
          /\ store'.state[e] # None => C!Directory(store'.state[e], e[2]) = e
          /\ e[2] = "rg" => store'.mains[e] \subseteq {"main"}
    BY <2>1, <2>2, <2>3 DEF StoreKeepsTrack
  <2> QED
    BY <2>4, <2>5 DEF StoreKeepsTrack
<1> QED
  BY <1>2, <1>3, <1>4, StepsMoveStore DEF StoreMoves

(* What Instances shows of the store.                                      *)
LEMMA InstancesSeen ==
  /\ \A o : o[2] \in C!Kinds => (o \in store.cloud <=> o \in Instances.cloud)
  /\ \A d \in C!Dirs : d[2] \in C!Kinds =>
       Instances.state[d] = store.state[d] /\ Instances.mains[d] = store.mains[d]
BY DEF Instances, Part, Fields, Of

(* What is proved of instances says all there is to say of clashes: the    *)
(* groups have none.                                                       *)
LEMMA TrackSeen ==
  ASSUME Typed, StoreKeepsTrack, CS!NothingOrphaned PROVE C!NothingOrphaned
<1> SUFFICES ASSUME NEW o \in store.cloud, C!Clashes(store, C!Directory(o[1], o[2]))
             PROVE  /\ childEvents["faults"] > 0 \/ C!WrittenByTwo(C!Directory(o[1], o[2]))
                    /\ \E i \in ChildRuns : /\ C!DirOf(i) = C!Directory(o[1], o[2])
                                           /\ C!Stamped(about[i][1], about[i][2])
  BY DEF StoreKeepsTrack, C!NothingOrphaned
<1> DEFINE d == C!Directory(o[1], o[2])
<1>1. store \in C!Stores
  BY PlacesAgree DEF Typed, ChildrenTyped, CP!TypeOK
<1>2. o[2] \in C!TfKinds /\ d \in C!Dirs /\ d[2] = o[2]
  BY <1>1 DEF C!Stores, C!Directory, C!Dirs, C!Names
<1>3. o[2] # "rg"
  BY <1>2 DEF StoreKeepsTrack, C!Clashes
<1>4. o \in Instances.cloud /\ Instances.mains[d] = store.mains[d]
  BY <1>2, <1>3, InstancesSeen DEF C!TfKinds
<1>5. CS!Directory(o[1], o[2]) = d /\ CS!Clashes(Instances, d)
  BY <1>4 DEF CS!Directory, C!Directory, CS!Clashes, C!Clashes
<1>6. ChildCount["faults"] = childEvents["faults"]
  BY DEF ChildCount, C!Events
<1>7. /\ ChildCount["faults"] > 0 \/ CS!WrittenByTwo(d)
      /\ \E i \in ChildRuns : CS!DirOf(i) = d /\ CS!Stamped(about[i][1], about[i][2])
  BY <1>4, <1>5 DEF CS!NothingOrphaned
<1>8. \A i : CS!DirOf(i) = C!DirOf(i)
  BY DEF CS!DirOf, C!DirOf, CS!Directory, C!Directory
<1>9. CS!WrittenByTwo(d) <=> C!WrittenByTwo(d)
  BY <1>8 DEF CS!WrittenByTwo, C!WrittenByTwo
<1> QED
  BY <1>6, <1>7, <1>8, <1>9 DEF CS!Stamped, C!Stamped

(* And of resources: the rows of a request that shares no directory list   *)
(* what exists, a row goes wrong only by a takeover of its directory, an   *)
(* instance without a row is explained by a run that has yet to record it  *)
(* or failed, and whatever exists is listed by its directory's state.      *)
THEOREM RecordingHoldsInPipeline ==
  Spec => [](/\ C!RecordedIsReal /\ C!LostOnlyByTakeover
             /\ CS!UnrecordedExplained /\ C!NothingOrphaned)
<1> USE PartsAssumption DEF C!NoneAssumption
<1>1. CS!Spec => []CS!RecordedIsReal
  BY CS!RowsListWhatExists
<1>2. CS!Spec => []CS!LostOnlyByTakeover
  BY CS!OnlyTakeoversLose
<1>3. CS!Spec => []CS!UnrecordedExplained
  BY CS!LeftoversHaveARun
<1>4. CS!Spec => []CS!NothingOrphaned
  BY CS!StateFilesKeepTrack
<1>5. Spec => [](StoreKeepsTrack /\ Typed)
  <2>1. Init => StoreKeepsTrack
    BY DEF Init, C!Init, C!EmptyStore, StoreKeepsTrack
  <2> QED
    BY <2>1, TrackKept, LinkedInvariant, PTL DEF Spec
<1>6. CS!RecordedIsReal => C!RecordedIsReal
  BY InstancesSeen DEF CS!RecordedIsReal, C!RecordedIsReal, CS!Alone, C!Alone, CS!Kinds, C!Kinds
<1>7. CS!LostOnlyByTakeover => C!LostOnlyByTakeover
  <2>1. \A o : CS!SharedWith(o) <=> C!SharedWith(o)
    BY DEF CS!SharedWith, C!SharedWith, CS!DirOf, C!DirOf, CS!Directory, C!Directory
  <2> QED
    BY <2>1, InstancesSeen DEF CS!LostOnlyByTakeover, C!LostOnlyByTakeover, CS!Kinds, C!Kinds
<1>8. Typed /\ StoreKeepsTrack /\ CS!NothingOrphaned => C!NothingOrphaned
  BY TrackSeen
<1> QED
  BY <1>1, <1>2, <1>3, <1>4, <1>5, <1>6, <1>7, <1>8, PipelineImplementsChildDags, PTL

(* The Azure provisioning DAGs find their resource group, if no two        *)
(* requests share a name: nothing that is done to instances destroys one.  *)
THEOREM GroupsHoldInPipeline ==
  ASSUME ES!DistinctNames
  PROVE  Spec => []E!GroupBeforeChildren
<1>1. ES!Spec => []ES!GroupBeforeChildren
  BY PartsAssumption, ES!GroupComesFirst
     DEF E!SendsAssumption, E!ProviderAssumption, E!WantedAssumption, C!NoneAssumption,
         E!Clouds, ES!Clouds, E!Kinds, ES!Kinds
<1>2. ES!GroupBeforeChildren => E!GroupBeforeChildren
  BY DEF ES!GroupBeforeChildren, E!GroupBeforeChildren, Groups, Part, Fields
<1> QED
  BY <1>1, <1>2, PipelineImplementsEntryDags, PTL
=============================================================================
