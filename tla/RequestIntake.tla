--------------------------- MODULE RequestIntake ---------------------------
(***************************************************************************)
(* How request rows come to exist.                                         *)
(*                                                                         *)
(* POST /request/azure and POST /request/aws run createRequestAzure and    *)
(* createRequestAws; POST /repositories/azure runs createRepositoryAzure.  *)
(* Each is a chain of awaited Prisma calls with no transaction around it,  *)
(* so the calls of concurrent HTTP requests interleave at every await, and *)
(* a call that throws half way leaves the rows it has already written.     *)
(*                                                                         *)
(* A row is named by the call that wrote it, since every call writes at    *)
(* most one row of each table and primary keys are fresh uuids.  AWS       *)
(* requests are the requests with resources: the two request handlers have *)
(* the same control.                                                       *)
(***************************************************************************)
EXTENDS Integers, FiniteSets, SequencesExt

CONSTANTS
  Calls,        \* invocations of the three handlers
  Names,        \* repository names users may submit
  MaxInFlight,  \* bound: calls in progress at a time
  MaxRemovals   \* bound: DELETE /request/:id calls

ASSUME InFlightAssumption == MaxInFlight \in Nat
ASSUME RemovalsAssumption == MaxRemovals \in Nat

VARIABLES
  step,          \* the await each call has reached, or how it ended
  form,          \* the submitted body
  configs,       \* ResourceConfig rows
  resources,     \* Resources rows
  repositories,  \* Repository rows
  requests,      \* Request rows, in createdAt order
  code,          \* the number of the displayCode R-<n> a call has computed
  removals,      \* number of requests removed so far
  overlapped     \* history: whether two calls were ever in progress at a time

vars == <<step, form, configs, resources, repositories, requests, code, removals, overlapped>>

(* A call is created as a repository only (createRepositoryAzure) or as a  *)
(* request with its repository; only Azure requests may lack resources.    *)
Forms == {f \in [kind : {"request", "repository"}, name : Names, withResources : BOOLEAN] :
            f.kind = "repository" => f.withResources}

Running  == {"checks", "config", "resources", "repository", "readCode", "insert"}
Finished == {"done", "refused", "nameClash", "codeClash", "aborted"}

InFlight == {c \in Calls : step[c] \in Running}

TypeOK ==
  /\ step \in [Calls -> {"idle"} \cup Running \cup Finished]
  /\ form \in [Calls -> Forms]
  /\ configs \subseteq Calls
  /\ resources \subseteq Calls
  /\ repositories \subseteq Calls
  /\ requests \in Seq([call : Calls, number : Nat])
  /\ code \in [Calls -> Nat]
  /\ removals \in 0..MaxRemovals
  /\ overlapped \in BOOLEAN

Init ==
  /\ step = [c \in Calls |-> "idle"]
  /\ form \in [Calls -> Forms]
  /\ configs = {}
  /\ resources = {}
  /\ repositories = {}
  /\ requests = <<>>
  /\ code = [c \in Calls |-> 0]
  /\ removals = 0
  /\ overlapped = FALSE

Goto(c, s) == step' = [step EXCEPT ![c] = s]

(* Repository.name is @unique.                                             *)
NameTaken(name) == \E d \in repositories : form[d].name = name

(* Request.displayCode is @unique.                                         *)
NumberTaken(n) == \E i \in DOMAIN requests : requests[i].number = n

(* The HTTP request arrives.                                               *)
Submit(c) ==
  /\ step[c] = "idle"
  /\ Cardinality(InFlight) < MaxInFlight
  /\ Goto(c, "checks")
  /\ overlapped' = (overlapped \/ InFlight # {})
  /\ UNCHANGED <<form, configs, resources, repositories, requests, code, removals>>

(* Mutant of Check: the configuration is never created.                    *)
CheckSkipsConfig(c) ==
  /\ step[c] = "checks"
  /\ \/ Goto(c, "refused")
     \/ ~NameTaken(form[c].name) /\ Goto(c, "repository")
  /\ UNCHANGED <<form, configs, resources, repositories, requests, code, removals, overlapped>>

(* The owner, the name and the collaborators are looked up before anything *)
(* is written; an unknown user refuses the call whatever the name.         *)
Check(c) ==
  /\ step[c] = "checks"
  /\ \/ Goto(c, "refused")
     \/ /\ ~NameTaken(form[c].name)
        /\ Goto(c, IF form[c].withResources THEN "config" ELSE "repository")
  /\ UNCHANGED <<form, configs, resources, repositories, requests, code, removals, overlapped>>

(* resourceConfig.create with its nested instances is one transaction.     *)
CreateConfig(c) ==
  /\ step[c] = "config"
  /\ configs' = configs \cup {c}
  /\ Goto(c, "resources")
  /\ UNCHANGED <<form, resources, repositories, requests, code, removals, overlapped>>

CreateResources(c) ==
  /\ step[c] = "resources"
  /\ resources' = resources \cup {c}
  /\ Goto(c, "repository")
  /\ UNCHANGED <<form, configs, repositories, requests, code, removals, overlapped>>

(* Mutant of CreateRepository: the handler answers before it has written  *)
(* the request.                                                            *)
CreateRepositoryOnly(c) ==
  /\ step[c] = "repository"
  /\ IF NameTaken(form[c].name)
       THEN Goto(c, "nameClash") /\ UNCHANGED repositories
       ELSE Goto(c, "done") /\ repositories' = repositories \cup {c}
  /\ UNCHANGED <<form, configs, resources, requests, code, removals, overlapped>>

(* repository.create: the name may have been taken since it was checked.   *)
CreateRepository(c) ==
  /\ step[c] = "repository"
  /\ IF NameTaken(form[c].name)
       THEN /\ Goto(c, "nameClash")
            /\ UNCHANGED repositories
       ELSE /\ repositories' = repositories \cup {c}
            /\ Goto(c, IF form[c].kind = "request" THEN "readCode" ELSE "done")
  /\ UNCHANGED <<form, configs, resources, requests, code, removals, overlapped>>

(* Mutants of NextNumber: the lowest free number is given out again; an    *)
(* index is taken for a number; the oldest request is read.                *)
NextNumberLowest == Min({n \in 1..(Len(requests) + 1) : ~NumberTaken(n)})
NextNumberIndex  == Len(requests) - 1
NextNumberOldest == IF requests = <<>> THEN 1 ELSE Head(requests).number + 1

(* The number after that of the request created last.                      *)
NextNumber == IF requests = <<>> THEN 1 ELSE Last(requests).number + 1

ReadCode(c) ==
  /\ step[c] = "readCode"
  /\ code' = [code EXCEPT ![c] = NextNumber]
  /\ Goto(c, "insert")
  /\ UNCHANGED <<form, configs, resources, repositories, requests, removals, overlapped>>

(* Mutant of InsertRequest: displayCode has no unique index.               *)
InsertRequestUnchecked(c) ==
  /\ step[c] = "insert"
  /\ requests' = Append(requests, [call |-> c, number |-> code[c]])
  /\ Goto(c, "done")
  /\ UNCHANGED <<form, configs, resources, repositories, code, removals, overlapped>>

(* request.create: another call may have inserted the same number since.   *)
InsertRequest(c) ==
  /\ step[c] = "insert"
  /\ IF NumberTaken(code[c])
       THEN /\ Goto(c, "codeClash")
            /\ UNCHANGED requests
       ELSE /\ requests' = Append(requests, [call |-> c, number |-> code[c]])
            /\ Goto(c, "done")
  /\ UNCHANGED <<form, configs, resources, repositories, code, removals, overlapped>>

(* Any awaited call may throw (connection lost, invalid data) or be the    *)
(* last the process makes before it stops: nothing already written is      *)
(* taken back.                                                             *)
Abort(c) ==
  /\ step[c] \in Running
  /\ Goto(c, "aborted")
  /\ UNCHANGED <<form, configs, resources, repositories, requests, code, removals, overlapped>>

(* DELETE /request/:id deletes the request row and nothing else.           *)
RemoveRequest(i) ==
  /\ removals < MaxRemovals
  /\ i \in DOMAIN requests
  /\ requests' = RemoveAt(requests, i)
  /\ removals' = removals + 1
  /\ UNCHANGED <<step, form, configs, resources, repositories, code, overlapped>>

Next ==
  \/ \E c \in Calls :
       \/ Submit(c)
       \/ Check(c)
       \/ CreateConfig(c)
       \/ CreateResources(c)
       \/ CreateRepository(c)
       \/ ReadCode(c)
       \/ InsertRequest(c)
       \/ Abort(c)
  \/ \E i \in DOMAIN requests : RemoveRequest(i)

Spec == Init /\ [][Next]_vars

----------------------------------------------------------------------------
(* As long as no request has been removed, the n-th request created is     *)
(* R-n, however the reads and inserts of concurrent calls interleave: the  *)
(* numbers the users see have no gap and no repetition.                    *)
NumbersFollowInsertion ==
  removals = 0 => \A i \in DOMAIN requests : requests[i].number = i

(* The check of the name is made several awaits before the insert, and two *)
(* calls may both pass it: still no two repositories carry the same name.  *)
NamesDistinct ==
  \A c, d \in repositories : form[c].name = form[d].name => c = d

(* Every row that nothing refers to was left by a call that is still at    *)
(* work, that failed, or whose request was removed: a call that answers    *)
(* "done" has connected everything it wrote.                               *)
LeftoversExplained ==
  /\ \A c \in configs \ resources : step[c] \in {"resources", "aborted"}
  /\ \A c \in resources \ repositories : step[c] \in {"repository", "nameClash", "aborted"}
  /\ \A c \in repositories :
       \/ \E i \in DOMAIN requests : requests[i].call = c
       \/ step[c] \in {"readCode", "insert", "codeClash", "aborted"}
       \/ step[c] = "done" /\ (form[c].kind = "repository" \/ removals > 0)

(* What a request row is connected to when it is inserted is there, and    *)
(* belongs to the same call: its repository, and both halves of its        *)
(* resources if it asked for any.                                          *)
RequestsConnected ==
  \A i \in DOMAIN requests :
    LET c == requests[i].call
    IN  /\ c \in repositories
        /\ form[c].withResources <=> c \in resources \cap configs

(* As long as calls have not overlapped, the request created last carries  *)
(* the highest number even if requests are removed, so reading the last    *)
(* one is enough to number the next one.                                   *)
NewestIsHighest ==
  ~overlapped =>
    \A i, j \in DOMAIN requests : i < j => requests[i].number < requests[j].number

(* As long as calls have not overlapped, neither unique index ever rejects *)
(* a row: the checks made beforehand, and the number read, are still good. *)
NoClash == ~overlapped => \A c \in Calls : step[c] \notin {"nameClash", "codeClash"}
============================================================================
