------------------------ MODULE RequestIntakeProofs ------------------------
(***************************************************************************)
(* Theorems about RequestIntake, for any set of calls and names, any number *)
(* of calls in flight and any number of removals.                          *)
(***************************************************************************)
EXTENDS RequestIntake, SequenceLemmas, SequenceTheorems, TLAPS

Row == [call : Calls, number : Nat]

(* NextNumber is a number whatever the rows are.                           *)
LEMMA NextNumberType ==
  ASSUME requests \in Seq(Row)
  PROVE  NextNumber \in Nat
<1>1. CASE requests = <<>>
  BY <1>1 DEF NextNumber
<1>2. CASE requests # <<>>
  <2>1. Len(requests) \in DOMAIN requests
    BY <1>2, EmptySeq, LenProperties
  <2>2. requests[Len(requests)] \in Row
    BY <2>1, ElementOfSeq, LenProperties
  <2>. QED
    BY <1>2, <2>2 DEF NextNumber, Last, Row
<1>. QED
  BY <1>1, <1>2

(* The variables keep their types: a call is always at a known await, and  *)
(* the rows are those of calls.                                            *)
THEOREM TypeCorrect == Spec => []TypeOK
<1>1. Init => TypeOK
  <2> SUFFICES ASSUME Init PROVE TypeOK
    OBVIOUS
  <2>1. overlapped \in BOOLEAN
    BY Zenon DEF Init
  <2>2. requests \in Seq([call : Calls, number : Nat])
    BY DEF Init
  <2>. QED
    BY <2>1, <2>2, RemovalsAssumption DEF Init, TypeOK
<1>2. TypeOK /\ [Next]_vars => TypeOK'
  <2> SUFFICES ASSUME TypeOK, [Next]_vars PROVE TypeOK'
    OBVIOUS
  <2> USE DEF TypeOK, Running, Finished, Goto
  <2>1. ASSUME NEW c \in Calls, Submit(c) PROVE TypeOK'
    BY <2>1 DEF Submit
  <2>2. ASSUME NEW c \in Calls, Check(c) PROVE TypeOK'
    BY <2>2 DEF Check
  <2>3. ASSUME NEW c \in Calls, CreateConfig(c) PROVE TypeOK'
    BY <2>3 DEF CreateConfig
  <2>4. ASSUME NEW c \in Calls, CreateResources(c) PROVE TypeOK'
    BY <2>4 DEF CreateResources
  <2>5. ASSUME NEW c \in Calls, CreateRepository(c) PROVE TypeOK'
    BY <2>5 DEF CreateRepository
  <2>6. ASSUME NEW c \in Calls, ReadCode(c) PROVE TypeOK'
    <3>1. NextNumber \in Nat
      BY NextNumberType DEF Row
    <3>. QED
      BY <2>6, <3>1 DEF ReadCode
  <2>7. ASSUME NEW c \in Calls, InsertRequest(c) PROVE TypeOK'
    <3>1. [call |-> c, number |-> code[c]] \in [call : Calls, number : Nat]
      OBVIOUS
    <3>2. requests' \in Seq([call : Calls, number : Nat])
      <4>1. Append(requests, [call |-> c, number |-> code[c]]) \in Seq([call : Calls, number : Nat])
        BY <3>1, AppendProperties
      <4>. QED
        BY <2>7, <4>1 DEF InsertRequest
    <3>. QED
      BY <2>7, <3>2 DEF InsertRequest
  <2>8. ASSUME NEW c \in Calls, Abort(c) PROVE TypeOK'
    BY <2>8 DEF Abort
  <2>9. ASSUME NEW i \in DOMAIN requests, RemoveRequest(i) PROVE TypeOK'
    <3>1. requests' \in Seq([call : Calls, number : Nat])
      BY <2>9, RemoveAtType DEF RemoveRequest
    <3>2. removals' \in 0..MaxRemovals
      BY <2>9, RemovalsAssumption DEF RemoveRequest
    <3>. QED
      BY <2>9, <3>1, <3>2 DEF RemoveRequest
  <2>10. CASE UNCHANGED vars
    BY <2>10 DEF vars
  <2>. QED
    BY <2>1, <2>2, <2>3, <2>4, <2>5, <2>6, <2>7, <2>8, <2>9, <2>10 DEF Next
<1>. QED
  BY <1>1, <1>2, PTL DEF Spec

----------------------------------------------------------------------------
(* A number read before others are inserted is stale but never too high:   *)
(* it is that of a row that exists, or the next free one.                  *)
NumberReadIsNotAhead ==
  removals = 0 => \A c \in Calls : step[c] = "insert" => code[c] \in 1..(Len(requests) + 1)

Numbering == NumbersFollowInsertion /\ NumberReadIsNotAhead

(* With no request removed, the n-th request created is R-n: an insert     *)
(* either continues the numbering or is rejected by the unique index,      *)
(* because a number read is never ahead of the rows.                       *)
THEOREM NumbersNeverSkip == Spec => []NumbersFollowInsertion
<1>1. Init => Numbering
  BY DEF Init, Numbering, NumbersFollowInsertion, NumberReadIsNotAhead
<1>2. TypeOK /\ Numbering /\ [Next]_vars => Numbering'
  <2> SUFFICES ASSUME TypeOK, Numbering, [Next]_vars, removals' = 0
               PROVE  /\ \A i \in DOMAIN requests' : requests'[i].number = i
                      /\ \A d \in Calls : step'[d] = "insert" =>
                            code'[d] \in 1..(Len(requests') + 1)
    BY DEF Numbering, NumbersFollowInsertion, NumberReadIsNotAhead
  <2> DEFINE Goal == /\ \A i \in DOMAIN requests' : requests'[i].number = i
                     /\ \A d \in Calls : step'[d] = "insert" =>
                           code'[d] \in 1..(Len(requests') + 1)
  <2>0. removals = 0
    <3>1. removals' = removals \/ removals' = removals + 1
      BY DEF Next, vars, Submit, Check, CreateConfig, CreateResources,
             CreateRepository, ReadCode, InsertRequest, Abort, RemoveRequest
    <3>2. removals \in Nat
      BY RemovalsAssumption DEF TypeOK
    <3>. QED
      BY <3>1, <3>2
  <2> USE <2>0 DEF TypeOK, Numbering, NumbersFollowInsertion, NumberReadIsNotAhead, Goto
  <2>1. ASSUME NEW c \in Calls,
               \/ Submit(c) \/ Check(c) \/ CreateConfig(c) \/ CreateResources(c)
               \/ CreateRepository(c) \/ Abort(c)
        PROVE  Goal
    BY <2>1 DEF Submit, Check, CreateConfig, CreateResources, CreateRepository, Abort
  <2>2. ASSUME NEW c \in Calls, ReadCode(c) PROVE Goal
    <3>1. NextNumber = Len(requests) + 1
      <4>1. CASE requests = <<>>
        BY <4>1, EmptySeq DEF NextNumber
      <4>2. CASE requests # <<>>
        <5>1. Len(requests) \in DOMAIN requests
          BY <4>2, EmptySeq, LenProperties
        <5>. QED
          BY <4>2, <5>1 DEF NextNumber, Last
      <4>. QED
        BY <4>1, <4>2
    <3>. QED
      BY <2>2, <3>1 DEF ReadCode
  <2>3. ASSUME NEW c \in Calls, InsertRequest(c) PROVE Goal
    <3>1. CASE NumberTaken(code[c])
      BY <2>3, <3>1 DEF InsertRequest
    <3>2. CASE ~NumberTaken(code[c])
      <4>1. code[c] = Len(requests) + 1
        <5>1. code[c] \in 1..(Len(requests) + 1)
          BY <2>3 DEF InsertRequest
        <5>2. DOMAIN requests = 1..Len(requests) /\ Len(requests) \in Nat
          BY LenProperties
        <5>3. code[c] \notin DOMAIN requests
          BY <3>2 DEF NumberTaken
        <5>. QED
          BY <5>1, <5>2, <5>3
      <4>2. requests' = Append(requests, [call |-> c, number |-> Len(requests) + 1])
        BY <2>3, <3>2, <4>1 DEF InsertRequest
      <4>. QED
        BY <2>3, <3>2, <4>2 DEF InsertRequest
    <3>. QED
      BY <3>1, <3>2
  <2>4. ASSUME NEW i \in DOMAIN requests, RemoveRequest(i) PROVE Goal
    BY <2>4 DEF RemoveRequest
  <2>5. CASE UNCHANGED vars
    BY <2>5 DEF vars
  <2>. QED
    BY <2>1, <2>2, <2>3, <2>4, <2>5 DEF Next
<1>3. Numbering => NumbersFollowInsertion
  BY DEF Numbering
<1>. QED
  BY <1>1, <1>2, <1>3, TypeCorrect, PTL DEF Spec

----------------------------------------------------------------------------
(* However the checks of the name and the inserts interleave, no two       *)
(* repositories carry the same name.                                       *)
THEOREM NamesStayDistinct == Spec => []NamesDistinct
<1>1. Init => NamesDistinct
  BY DEF Init, NamesDistinct
<1>2. NamesDistinct /\ [Next]_vars => NamesDistinct'
  <2> SUFFICES ASSUME NamesDistinct, [Next]_vars PROVE NamesDistinct'
    OBVIOUS
  <2>1. ASSUME NEW c \in Calls, CreateRepository(c) PROVE NamesDistinct'
    BY <2>1 DEF CreateRepository, NameTaken, NamesDistinct
  <2>2. ASSUME UNCHANGED <<form, repositories>> PROVE NamesDistinct'
    BY <2>2 DEF NamesDistinct
  <2>. QED
    BY <2>1, <2>2
       DEF Next, vars, Submit, Check, CreateConfig, CreateResources, ReadCode,
           InsertRequest, Abort, RemoveRequest
<1>. QED
  BY <1>1, <1>2, PTL DEF Spec
----------------------------------------------------------------------------
(* What a call has written by the time it stands at an await.              *)
WrittenSoFar ==
  \A c \in Calls :
    /\ c \in configs => form[c].withResources
    /\ step[c] \in {"config", "resources"} => form[c].withResources
    /\ step[c] = "resources" => c \in configs
    /\ step[c] \in {"repository", "readCode", "insert"} /\ form[c].withResources =>
         c \in resources \cap configs
    /\ step[c] \in {"readCode", "insert"} => c \in repositories

Connection == RequestsConnected /\ WrittenSoFar

(* A request row always has its repository, and both halves of its         *)
(* resources exactly if it asked for them.                                 *)
THEOREM RequestsStayConnected == Spec => []RequestsConnected
<1>1. Init => Connection
  BY EmptySeq DEF Init, Connection, RequestsConnected, WrittenSoFar
<1>2. TypeOK /\ Connection /\ [Next]_vars => Connection'
  <2> SUFFICES ASSUME TypeOK, Connection, [Next]_vars PROVE Connection'
    OBVIOUS
  <2> USE DEF Connection, Goto
  <2>0. requests \in Seq(Row) /\ step \in [Calls -> {"idle"} \cup Running \cup Finished]
    BY DEF TypeOK, Row
  <2>1. ASSUME NEW c \in Calls,
               \/ Submit(c) \/ Check(c) \/ CreateConfig(c) \/ CreateResources(c)
               \/ CreateRepository(c) \/ ReadCode(c) \/ Abort(c)
        PROVE  Connection'
    <3>1. UNCHANGED <<form, requests>> /\ repositories \subseteq repositories'
          /\ resources \subseteq resources' /\ configs \subseteq configs'
      BY <2>1 DEF Submit, Check, CreateConfig, CreateResources, CreateRepository, ReadCode, Abort
    <3>2. WrittenSoFar'
      BY <2>0, <2>1 DEF WrittenSoFar, Submit, Check, CreateConfig, CreateResources,
                        CreateRepository, ReadCode, Abort
    <3>3. RequestsConnected'
      <4> SUFFICES ASSUME NEW i \in DOMAIN requests
                   PROVE  LET d == requests[i].call
                          IN  /\ d \in repositories'
                              /\ form[d].withResources <=> d \in resources' \cap configs'
        BY <3>1 DEF RequestsConnected
      <4>1. requests[i].call \in Calls
        <5>1. requests[i] \in Row
          BY <2>0, ElementOfSeq, LenProperties
        <5>. QED
          BY <5>1 DEF Row
      <4>2. requests[i].call \in configs' => form'[requests[i].call].withResources
        BY <3>2, <4>1 DEF WrittenSoFar
      <4>. QED
        BY <3>1, <4>2 DEF RequestsConnected
    <3>. QED
      BY <3>2, <3>3
  <2>2. ASSUME NEW c \in Calls, InsertRequest(c) PROVE Connection'
    <3>1. WrittenSoFar'
      BY <2>0, <2>2 DEF WrittenSoFar, InsertRequest
    <3>2. CASE requests' = requests
      BY <2>2, <3>1, <3>2 DEF RequestsConnected, InsertRequest
    <3>3. CASE requests' = Append(requests, [call |-> c, number |-> code[c]])
      <4>1. ASSUME NEW i \in DOMAIN requests'
            PROVE  (i \in DOMAIN requests /\ requests'[i] = requests[i]) \/ requests'[i].call = c
        BY <2>0, <3>3, AppendProperties, LenProperties
      <4>2. c \in repositories /\ (form[c].withResources <=> c \in resources \cap configs)
        BY <2>2 DEF InsertRequest, WrittenSoFar
      <4>. QED
        BY <2>2, <3>1, <4>1, <4>2 DEF RequestsConnected, InsertRequest
    <3>. QED
      BY <2>2, <3>2, <3>3 DEF InsertRequest
  <2>3. ASSUME NEW i \in DOMAIN requests, RemoveRequest(i) PROVE Connection'
    <3>1. WrittenSoFar'
      BY <2>3 DEF WrittenSoFar, RemoveRequest
    <3>2. ASSUME NEW j \in DOMAIN requests'
          PROVE  \E k \in DOMAIN requests : requests'[j] = requests[k]
      <4>1. j \in 1..(Len(requests) - 1) /\ requests'[j] = requests[IF j < i THEN j ELSE j + 1]
        BY <2>0, <2>3, RemoveAtElements DEF RemoveRequest
      <4>. QED
        BY <2>0, <4>1, LenProperties
    <3>. QED
      BY <2>3, <3>1, <3>2 DEF RequestsConnected, RemoveRequest
  <2>4. CASE UNCHANGED vars
    BY <2>4 DEF RequestsConnected, WrittenSoFar, vars
  <2>. QED
    BY <2>1, <2>2, <2>3, <2>4 DEF Next
<1>3. Connection => RequestsConnected
  BY DEF Connection
<1>. QED
  BY <1>1, <1>2, <1>3, TypeCorrect, PTL DEF Spec
----------------------------------------------------------------------------
(* Without overlap a single call is at work, and what it has looked up is  *)
(* still so: its name is free, and its number is above every row's.        *)
LookedUpStillGood ==
  ~overlapped =>
    /\ \A c, d \in InFlight : c = d
    /\ \A c \in Calls :
         /\ step[c] \in {"config", "resources", "repository"} => ~NameTaken(form[c].name)
         /\ step[c] = "insert" => \A i \in DOMAIN requests : requests[i].number < code[c]

Alone == NewestIsHighest /\ NoClash /\ LookedUpStillGood

(* If no number is taken that is as high as code[c], the row c inserts is  *)
(* the newest and the highest.                                             *)
LEMMA AppendHigher ==
  ASSUME NEW s \in Seq(Row), NEW row \in Row,
         \A i, j \in DOMAIN s : i < j => s[i].number < s[j].number,
         \A i \in DOMAIN s : s[i].number < row.number
  PROVE  LET t == Append(s, row)
         IN  \A i, j \in DOMAIN t : i < j => t[i].number < t[j].number
<1>1. /\ DOMAIN s = 1..Len(s) /\ Len(s) \in Nat
      /\ DOMAIN Append(s, row) = 1..(Len(s) + 1)
      /\ \A i \in 1..Len(s) : Append(s, row)[i] = s[i]
      /\ Append(s, row)[Len(s) + 1] = row
  BY AppendProperties, LenProperties
<1>. QED
  BY <1>1

(* The number after the newest is above every number in use.               *)
LEMMA NextNumberHigher ==
  ASSUME requests \in Seq(Row),
         \A i, j \in DOMAIN requests : i < j => requests[i].number < requests[j].number
  PROVE  \A i \in DOMAIN requests : requests[i].number < NextNumber
<1> SUFFICES ASSUME NEW i \in DOMAIN requests PROVE requests[i].number < NextNumber
  OBVIOUS
<1>1. /\ DOMAIN requests = 1..Len(requests) /\ Len(requests) \in Nat
      /\ Len(requests) \in DOMAIN requests
  BY LenProperties
<1>2. requests[i] \in Row /\ requests[Len(requests)] \in Row
  BY <1>1, ElementOfSeq
<1>3. requests # <<>>
  BY <1>1, EmptySeq
<1>4. NextNumber = requests[Len(requests)].number + 1
  BY <1>3 DEF NextNumber, Last
<1>5. i = Len(requests) \/ requests[i].number < requests[Len(requests)].number
  BY <1>1
<1>. QED
  BY <1>2, <1>4, <1>5 DEF Row

(* As long as calls do not overlap, the newest request has the highest     *)
(* number whatever is removed, and neither unique index rejects a row.     *)
LEMMA AloneInvariant == Spec => []Alone
<1> USE DEF Alone
<1>1. Init => Alone
  BY EmptySeq DEF Init, NewestIsHighest, NoClash, LookedUpStillGood, InFlight, Running
<1>2. TypeOK /\ Alone /\ [Next]_vars => Alone'
  <2> SUFFICES ASSUME TypeOK, Alone, [Next]_vars, ~overlapped' PROVE Alone'
    BY DEF NewestIsHighest, NoClash, LookedUpStillGood
  <2>0. /\ ~overlapped
        /\ requests \in Seq(Row) /\ code \in [Calls -> Nat]
        /\ step \in [Calls -> {"idle"} \cup Running \cup Finished]
    BY DEF TypeOK, Row, Next, vars, Submit, Check, CreateConfig, CreateResources,
           CreateRepository, ReadCode, InsertRequest, Abort, RemoveRequest
  <2> USE <2>0 DEF Goto
  <2>a. /\ \A i, j \in DOMAIN requests : i < j => requests[i].number < requests[j].number
        /\ \A c \in Calls : step[c] \notin {"nameClash", "codeClash"}
        /\ \A c, d \in InFlight : c = d
        /\ \A c \in Calls :
             step[c] \in {"config", "resources", "repository"} => ~NameTaken(form[c].name)
        /\ \A c \in Calls :
             step[c] = "insert" => \A i \in DOMAIN requests : requests[i].number < code[c]
    BY DEF NewestIsHighest, NoClash, LookedUpStillGood
  <2>1. ASSUME NEW c \in Calls, Submit(c) PROVE Alone'
    <3>1. InFlight = {}
      BY <2>1 DEF Submit
    <3>2. InFlight' \subseteq {c}
      BY <2>1, <3>1 DEF Submit, InFlight, Running
    <3>. QED
      BY <2>1, <2>a, <3>2 DEF Submit, NewestIsHighest, NoClash, LookedUpStillGood, NameTaken
  <2>2. ASSUME NEW c \in Calls,
               Check(c) \/ CreateConfig(c) \/ CreateResources(c) \/ Abort(c)
        PROVE  Alone'
    <3>1. InFlight' \subseteq InFlight
      BY <2>2 DEF Check, CreateConfig, CreateResources, Abort, InFlight, Running
    <3>2. \A d \in Calls :
            /\ step'[d] \notin {"nameClash", "codeClash"}
            /\ step'[d] \in {"config", "resources", "repository"} => ~NameTaken(form[d].name)
            /\ step'[d] = "insert" => step[d] = "insert"
      BY <2>2, <2>a DEF Check, CreateConfig, CreateResources, Abort
    <3>3. UNCHANGED <<form, repositories, requests, code>>
      BY <2>2 DEF Check, CreateConfig, CreateResources, Abort
    <3>. QED
      BY <2>a, <3>1, <3>2, <3>3 DEF NewestIsHighest, NoClash, LookedUpStillGood, NameTaken
  <2>3. ASSUME NEW c \in Calls, CreateRepository(c) PROVE Alone'
    <3>1. ~NameTaken(form[c].name) /\ c \in InFlight
      BY <2>3, <2>a DEF CreateRepository, InFlight, Running
    <3>2. /\ UNCHANGED <<form, requests, code>>
          /\ step' = [step EXCEPT ![c] = IF form[c].kind = "request" THEN "readCode" ELSE "done"]
      BY <2>3, <3>1 DEF CreateRepository
    <3>3. InFlight' \subseteq InFlight
      BY <3>1, <3>2 DEF InFlight, Running
    <3>4. \A d \in Calls : step'[d] \notin {"config", "resources", "repository"}
      <4>1. \A d \in Calls : d # c => d \notin InFlight
        BY <3>1, <2>a
      <4>. QED
        BY <3>2, <4>1 DEF InFlight, Running
    <3>. QED
      BY <2>a, <3>2, <3>3, <3>4 DEF NewestIsHighest, NoClash, LookedUpStillGood
  <2>4. ASSUME NEW c \in Calls, ReadCode(c) PROVE Alone'
    <3>1. \A i \in DOMAIN requests : requests[i].number < NextNumber
      BY <2>a, NextNumberHigher
    <3>2. InFlight' \subseteq InFlight
      BY <2>4 DEF ReadCode, InFlight, Running
    <3>3. \A d \in Calls :
            step'[d] = "insert" => \A i \in DOMAIN requests : requests[i].number < code'[d]
      BY <2>4, <2>a, <3>1 DEF ReadCode
    <3>. QED
      BY <2>4, <2>a, <3>2, <3>3
         DEF ReadCode, NewestIsHighest, NoClash, LookedUpStillGood, NameTaken
  <2>5. ASSUME NEW c \in Calls, InsertRequest(c) PROVE Alone'
    <3>1. c \in InFlight /\ \A i \in DOMAIN requests : requests[i].number < code[c]
      BY <2>5, <2>a DEF InsertRequest, InFlight, Running
    <3>2. ~NumberTaken(code[c])
      <4>1. \A i \in DOMAIN requests : requests[i] \in Row
        BY ElementOfSeq, LenProperties
      <4>. QED
        BY <3>1, <4>1 DEF NumberTaken, Row
    <3> DEFINE row == [call |-> c, number |-> code[c]]
    <3>3. /\ UNCHANGED <<form, repositories, code>> /\ requests' = Append(requests, row)
          /\ step' = [step EXCEPT ![c] = "done"]
      BY <2>5, <3>2 DEF InsertRequest
    <3>4. NewestIsHighest'
      <4>1. row \in Row /\ row.number = code[c]
        BY DEF Row
      <4> HIDE DEF row
      <4>. QED
        BY <2>a, <3>1, <3>3, <4>1, AppendHigher DEF NewestIsHighest
    <3>5. InFlight' \subseteq InFlight /\ \A d \in Calls : step'[d] # "insert"
      <4>1. \A d \in Calls : d # c => d \notin InFlight
        BY <3>1, <2>a
      <4>. QED
        BY <3>3, <4>1 DEF InFlight, Running
    <3>6. NoClash'
      BY <2>a, <3>3 DEF NoClash
    <3>7. LookedUpStillGood'
      BY <2>a, <3>3, <3>5 DEF LookedUpStillGood, NameTaken
    <3>. QED
      BY <3>4, <3>6, <3>7
  <2>6. ASSUME NEW i \in DOMAIN requests, RemoveRequest(i) PROVE Alone'
    <3>1. /\ DOMAIN requests' = 1..(Len(requests) - 1)
          /\ \A j \in DOMAIN requests' : requests'[j] = requests[IF j < i THEN j ELSE j + 1]
          /\ DOMAIN requests = 1..Len(requests) /\ Len(requests) \in Nat
      BY <2>6, RemoveAtElements, LenProperties DEF RemoveRequest
    <3>2. UNCHANGED <<step, form, repositories, code>>
      BY <2>6 DEF RemoveRequest
    <3>3. NewestIsHighest'
      <4> SUFFICES ASSUME NEW j \in DOMAIN requests', NEW k \in DOMAIN requests', j < k
                   PROVE  requests'[j].number < requests'[k].number
        BY DEF NewestIsHighest
      <4> DEFINE old(n) == IF n < i THEN n ELSE n + 1
      <4>1. old(j) \in DOMAIN requests /\ old(k) \in DOMAIN requests /\ old(j) < old(k)
        BY <3>1
      <4>2. requests'[j] = requests[old(j)] /\ requests'[k] = requests[old(k)]
        BY <3>1
      <4> HIDE DEF old
      <4>. QED
        BY <2>a, <4>1, <4>2
    <3>4. \A j \in DOMAIN requests' : \E k \in DOMAIN requests : requests'[j] = requests[k]
      BY <3>1
    <3>5. LookedUpStillGood'
      BY <2>a, <3>2, <3>4 DEF LookedUpStillGood, NameTaken, InFlight
    <3>6. NoClash'
      BY <2>a, <3>2 DEF NoClash
    <3>. QED
      BY <3>3, <3>5, <3>6
  <2>7. CASE UNCHANGED vars
    BY <2>7, <2>a DEF vars, NewestIsHighest, NoClash, LookedUpStillGood, NameTaken, InFlight
  <2>. QED
    BY <2>1, <2>2, <2>3, <2>4, <2>5, <2>6, <2>7 DEF Next
<1>. QED
  BY <1>1, <1>2, TypeCorrect, PTL DEF Spec

(* Without overlap the request created last has the highest number, also   *)
(* after removals, so that reading it is enough to number the next.        *)
THEOREM NewestStaysHighest == Spec => []NewestIsHighest
<1>1. Alone => NewestIsHighest
  BY DEF Alone
<1>. QED
  BY <1>1, AloneInvariant, PTL

(* Without overlap no creation is rejected by a unique index: what it has  *)
(* checked and read beforehand is still so when it writes.                 *)
THEOREM NoClashAlone == Spec => []NoClash
<1>1. Alone => NoClash
  BY DEF Alone
<1>. QED
  BY <1>1, AloneInvariant, PTL
----------------------------------------------------------------------------
(* A request row is the last thing its call writes.                        *)
RowsAreDone == \A i \in DOMAIN requests : step[requests[i].call] = "done"

Leftovers == LeftoversExplained /\ RowsAreDone

(* Whatever is left without anything that refers to it was left by a call  *)
(* at work or failed, or is what remains of a removed request.             *)
THEOREM LeftoversStayExplained == Spec => []LeftoversExplained
<1> USE DEF Leftovers
<1>1. Init => Leftovers
  BY EmptySeq DEF Init, LeftoversExplained, RowsAreDone
<1>2. TypeOK /\ Leftovers /\ [Next]_vars => Leftovers'
  <2> SUFFICES ASSUME TypeOK, Leftovers, [Next]_vars PROVE Leftovers'
    OBVIOUS
  <2>0. /\ requests \in Seq(Row) /\ removals \in Nat /\ form \in [Calls -> Forms]
        /\ configs \subseteq Calls /\ resources \subseteq Calls /\ repositories \subseteq Calls
        /\ step \in [Calls -> {"idle"} \cup Running \cup Finished]
    BY RemovalsAssumption DEF TypeOK, Row
  <2>a. \A i \in DOMAIN requests : requests[i].call \in Calls
    <3>1. \A i \in DOMAIN requests : requests[i] \in Row
      BY <2>0, ElementOfSeq, LenProperties
    <3>. QED
      BY <3>1 DEF Row
  <2> USE <2>0, <2>a DEF Goto
  <2>1. ASSUME NEW c \in Calls,
               \/ Submit(c) \/ Check(c) \/ CreateConfig(c) \/ CreateResources(c)
               \/ CreateRepository(c) \/ ReadCode(c) \/ Abort(c)
        PROVE  Leftovers'
    <3>0. step[c] \in {"idle"} \cup Running /\ UNCHANGED <<form, requests, removals>>
      BY <2>1 DEF Running, Submit, Check, CreateConfig, CreateResources, CreateRepository,
                  ReadCode, Abort
    <3>1. RowsAreDone'
      BY <2>1, <3>0 DEF RowsAreDone, Running, Submit, Check, CreateConfig, CreateResources,
                        CreateRepository, ReadCode, Abort
    <3>2. \A d \in (configs \ resources)' : step'[d] \in {"resources", "aborted"}
      BY <2>1 DEF LeftoversExplained, Running, Submit, Check, CreateConfig, CreateResources,
                  CreateRepository, ReadCode, Abort
    <3>3. \A d \in (resources \ repositories)' :
            step'[d] \in {"repository", "nameClash", "aborted"}
      BY <2>1 DEF LeftoversExplained, Running, Submit, Check, CreateConfig, CreateResources,
                  CreateRepository, ReadCode, Abort
    <3>4. ASSUME NEW d \in repositories'
          PROVE  \/ \E i \in DOMAIN requests : requests[i].call = d
                 \/ step'[d] \in {"readCode", "insert", "codeClash", "aborted"}
                 \/ step'[d] = "done" /\ (form[d].kind = "repository" \/ removals > 0)
      <4>1. CASE d \in repositories
        BY <2>1, <4>1 DEF LeftoversExplained, Running, Submit, Check, CreateConfig,
                          CreateResources, CreateRepository, ReadCode, Abort
      <4>2. CASE d \notin repositories
        <5>1. d = c /\ CreateRepository(c) /\ repositories' = repositories \cup {c}
          BY <2>1, <4>2 DEF Submit, Check, CreateConfig, CreateResources, CreateRepository,
                            ReadCode, Abort
        <5>2. form[c].kind \in {"request", "repository"}
          BY DEF Forms
        <5>3. step'[c] = IF form[c].kind = "request" THEN "readCode" ELSE "done"
          BY <4>2, <5>1 DEF CreateRepository
        <5>. QED
          BY <5>1, <5>2, <5>3
      <4>. QED
        BY <4>1, <4>2
    <3>. QED
      BY <3>0, <3>1, <3>2, <3>3, <3>4 DEF LeftoversExplained
  <2>2. ASSUME NEW c \in Calls, InsertRequest(c) PROVE Leftovers'
    <3>0. /\ step[c] = "insert" /\ UNCHANGED <<form, configs, resources, repositories, removals>>
          /\ \/ requests' = requests /\ step' = [step EXCEPT ![c] = "codeClash"]
             \/ /\ requests' = Append(requests, [call |-> c, number |-> code[c]])
                /\ step' = [step EXCEPT ![c] = "done"]
      BY <2>2 DEF InsertRequest
    <3>1. CASE requests' = requests /\ step' = [step EXCEPT ![c] = "codeClash"]
      BY <3>0, <3>1 DEF LeftoversExplained, RowsAreDone
    <3>2. CASE /\ requests' = Append(requests, [call |-> c, number |-> code[c]])
               /\ step' = [step EXCEPT ![c] = "done"]
      <4>1. /\ DOMAIN requests' = 1..(Len(requests) + 1)
            /\ DOMAIN requests = 1..Len(requests) /\ Len(requests) \in Nat
            /\ \A i \in 1..Len(requests) : requests'[i] = requests[i]
            /\ requests'[Len(requests) + 1].call = c
        BY <3>2, AppendProperties, LenProperties
      <4>2. RowsAreDone'
        BY <3>2, <4>1 DEF RowsAreDone
      <4>3. \A d \in repositories : (\E i \in DOMAIN requests : requests[i].call = d) \/ d = c
                                    => \E i \in DOMAIN requests' : requests'[i].call = d
        BY <4>1
      <4>4. LeftoversExplained'
        BY <3>0, <3>2, <4>3 DEF LeftoversExplained
      <4>. QED
        BY <4>2, <4>4
    <3>. QED
      BY <3>0, <3>1, <3>2
  <2>3. ASSUME NEW i \in DOMAIN requests, RemoveRequest(i) PROVE Leftovers'
    <3>1. /\ DOMAIN requests' = 1..(Len(requests) - 1)
          /\ \A j \in DOMAIN requests' : requests'[j] = requests[IF j < i THEN j ELSE j + 1]
          /\ DOMAIN requests = 1..Len(requests) /\ Len(requests) \in Nat
      BY <2>3, RemoveAtElements, LenProperties DEF RemoveRequest
    <3>2. /\ UNCHANGED <<step, form, configs, resources, repositories>> /\ removals' = removals + 1
      BY <2>3 DEF RemoveRequest
    <3>3. RowsAreDone'
      BY <3>1, <3>2 DEF RowsAreDone
    <3>4. \A d \in repositories :
            \/ step[d] \in {"readCode", "insert", "codeClash", "aborted"}
            \/ step[d] = "done"
      BY DEF LeftoversExplained, RowsAreDone
    <3>5. removals' > 0
      BY <3>2
    <3>6. LeftoversExplained'
      BY <3>2, <3>4, <3>5 DEF LeftoversExplained
    <3>. QED
      BY <3>3, <3>6
  <2>4. CASE UNCHANGED vars
    BY <2>4 DEF LeftoversExplained, RowsAreDone, vars
  <2>. QED
    BY <2>1, <2>2, <2>3, <2>4 DEF Next
<1>3. Leftovers => LeftoversExplained
  OBVIOUS
<1>. QED
  BY <1>1, <1>2, <1>3, TypeCorrect, PTL DEF Spec
============================================================================
