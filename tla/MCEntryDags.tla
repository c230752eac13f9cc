---------------------------- MODULE MCEntryDags ----------------------------
(* Model-checking instance of EntryDags: an Azure request and an AWS one,  *)
(* whose directories are distinct.                                         *)
EXTENDS EntryDags

CONSTANTS r1, r2

MCProvider == [r \in Requests |-> IF r = r1 THEN "AZURE" ELSE "AWS"]
MCDirName  == [r \in Requests |-> r]

(* What the two requests ask for: no AWS virtual machine, or one.          *)
Plain  == [r \in Requests |-> IF r = r1 THEN {"vm", "st"} ELSE {"db"}]
AwsVm  == [r \in Requests |-> IF r = r1 THEN {"db"} ELSE {"vm", "db"}]

Symmetry == Permutations(Sends)
============================================================================
