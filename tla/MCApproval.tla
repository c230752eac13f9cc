---------------------------- MODULE MCApproval ----------------------------
(* Model-checking instance of Approval: two requests of one user, the      *)
(* first with resources on Azure, the second with none, and a collaborator *)
(* on both.                                                                *)
EXTENDS Approval

CONSTANTS r1, r2, u1, k1

MCOwner    == [r \in Requests |-> u1]
MCInvitees == [r \in Requests |-> {k1}]
MCProvider == [r \in Requests |-> IF r = r1 THEN "AZURE" ELSE "none"]

(* Repository names: unrelated, or that of r1 being a part of that of r2.  *)
Unrelated == {<<r, r>> : r \in Requests}
Nested    == Unrelated \cup {<<r1, r2>>}

(* Sound for safety only: handlers and accounts are interchangeable.       *)
Symmetry == Permutations(Patches) \cup Permutations(Accounts)

============================================================================
