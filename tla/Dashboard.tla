----------------------------- MODULE Dashboard -----------------------------
(***************************************************************************)
(* The figures of the dashboard: the requests in all, those Approved,      *)
(* Rejected and Pending, and the Approved ones of each cloud, twice over.  *)
(* They are counted one after the other, not in a transaction, while       *)
(* requests are made, decided and removed, so that they need not add up.   *)
(* The counts of databases and of storage concern tables of their own.     *)
(***************************************************************************)
EXTENDS Integers, Sequences, FiniteSets

CONSTANTS
  Rows,       \* the requests there may be
  RowCloud,   \* RowCloud[r]: the cloud of its resources, "none" without any
  MaxChanges  \* bound: requests made, decided or removed

ASSUME RowsAssumption == IsFiniteSet(Rows) /\ MaxChanges \in Nat
ASSUME RowCloudAssumption == RowCloud \in [Rows -> {"AZURE", "AWS", "none"}]

VARIABLES
  state,    \* Request.status of each row, "none" if there is no such row
  figures,  \* the counts taken so far, in the order they are taken
  others,   \* requests Deleted when the counting began
  changes,  \* requests made, decided or removed in all
  missed    \* those since the first count was taken

dashboardVars == <<state, figures, others, changes, missed>>

RowStates == {"none", "Pending", "Approved", "Rejected", "Deleted"}

In(s) == {r \in Rows : state[r] = s}

(* What findAll counts, statement by statement.                            *)
Counted ==
  <<Rows \ In("none"), In("Approved"), In("Rejected"), In("Pending"),
    {r \in In("Approved") : RowCloud[r] = "AWS"},     \* resource groups
    {r \in In("Approved") : RowCloud[r] = "AZURE"},
    {r \in In("Approved") : RowCloud[r] = "AZURE"},   \* virtual machines
    {r \in In("Approved") : RowCloud[r] = "AWS"}>>

DashboardTypeOK ==
  /\ state \in [Rows -> RowStates]
  /\ figures \in Seq(Nat) /\ Len(figures) <= Len(Counted)
  /\ others \in Nat /\ changes \in 0 .. MaxChanges /\ missed \in 0 .. changes

DashboardInit ==
  /\ state \in [Rows -> RowStates]
  /\ figures = <<>>
  /\ others = 0
  /\ changes = 0
  /\ missed = 0

(* A request is made, decided, decided anew or removed.                    *)
Move(r, s) ==
  /\ changes < MaxChanges
  /\ IF state[r] = "none" THEN s = "Pending" ELSE s # state[r]
  /\ state' = [state EXCEPT ![r] = s]
  /\ changes' = changes + 1
  /\ missed' = IF figures = <<>> THEN 0 ELSE missed + 1
  /\ UNCHANGED <<figures, others>>

(* Mutant of Count: pending requests are counted as declined, too.         *)
CountDeclinedTwice ==
  /\ Len(figures) < Len(Counted)
  /\ LET n == Len(figures) + 1
     IN figures' = Append(figures, Cardinality(Counted[IF n = 4 THEN 3 ELSE n]))
  /\ others' = IF figures = <<>> THEN Cardinality(In("Deleted")) ELSE others
  /\ UNCHANGED <<state, changes, missed>>

(* The next statement of findAll.                                          *)
Count ==
  /\ Len(figures) < Len(Counted)
  /\ figures' = Append(figures, Cardinality(Counted[Len(figures) + 1]))
  /\ others' = IF figures = <<>> THEN Cardinality(In("Deleted")) ELSE others
  /\ UNCHANGED <<state, changes, missed>>

DashboardNext == Count \/ \E r \in Rows, s \in RowStates : Move(r, s)

DashboardSpec == DashboardInit /\ [][DashboardNext]_dashboardVars

----------------------------------------------------------------------------
(* The figures that are shown together differ from figures that add up by  *)
(* no more than the requests that moved while they were counted: the       *)
(* Approved, Rejected, Pending and Deleted ones make up the total, the     *)
(* clouds have no more Approved requests than there are, and either way of *)
(* counting a cloud's gives the same.                                      *)
CountsOffByMoves ==
  LET Close(x, y) == x - y \in -missed .. missed
  IN Len(figures) = Len(Counted) =>
       /\ Close(figures[2] + figures[3] + figures[4] + others, figures[1])
       /\ figures[5] + figures[6] <= figures[2] + missed
       /\ Close(figures[5], figures[8])
       /\ Close(figures[6], figures[7])
=============================================================================
