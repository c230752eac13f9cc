---------------------------- MODULE MCPipeline ----------------------------
(* Model-checking instance of Pipeline: an Azure request with a database   *)
(* and an AWS one with storage, of one user, with no collaborators.        *)
EXTENDS Pipeline

CONSTANTS r1, r2, u1

MCOwner    == [r \in Requests |-> u1]
MCInvitees == [r \in Requests |-> {}]
MCProvider == [r \in Requests |-> IF r = r1 THEN "AZURE" ELSE "AWS"]
MCWanted   == [r \in Requests |-> IF r = r1 THEN {"db"} ELSE {"st"}]
MCDirName  == [r \in Requests |-> r]
Unrelated  == {<<r, r>> : r \in Requests}

Symmetry == Permutations(Patches) \cup Permutations(Accounts)
===========================================================================
