------------------------------ MODULE Delivery ------------------------------
(***************************************************************************)
(* What the queue between the API and the entry DAGs promises: delivery at *)
(* most once, to at most one run, of at most one message per run, in the   *)
(* order of arrival.  Messages may be lost on the way to the queue, or by  *)
(* whoever takes them from it.  EntryDags implements this specification.   *)
(***************************************************************************)
EXTENDS Sequences

CONSTANTS
  Ids,    \* the messages
  Takers  \* the runs that may take one

VARIABLES
  place,  \* where a message is
  line,   \* the messages that are queued, in order of arrival
  taker   \* taker[x]: whether run x has taken its message

vars == <<place, line, taker>>

Init ==
  /\ place = [i \in Ids |-> "unsent"]
  /\ line = <<>>
  /\ taker = [x \in Takers |-> FALSE]

Move(i, from, to) ==
  /\ place[i] = from
  /\ place' = [place EXCEPT ![i] = to]

Send(i) ==
  /\ Move(i, "unsent", "underway")
  /\ UNCHANGED <<line, taker>>

Arrive(i) ==
  /\ Move(i, "underway", "queued")
  /\ line' = Append(line, i)
  /\ UNCHANGED taker

Lose(i) ==
  /\ Move(i, "underway", "lost")
  /\ UNCHANGED <<line, taker>>

(* The head of the line is taken by a run that has none yet.               *)
Take(x) ==
  /\ line # <<>>
  /\ Move(Head(line), "queued", "taken")
  /\ line' = Tail(line)
  /\ ~taker[x]
  /\ taker' = [taker EXCEPT ![x] = TRUE]

(* It is taken and forgotten.                                              *)
Drop ==
  /\ line # <<>>
  /\ Move(Head(line), "queued", "lost")
  /\ line' = Tail(line)
  /\ UNCHANGED taker

Next ==
  \/ \E i \in Ids : Send(i) \/ Arrive(i) \/ Lose(i)
  \/ \E x \in Takers : Take(x)
  \/ Drop

Spec == Init /\ [][Next]_vars
=============================================================================
