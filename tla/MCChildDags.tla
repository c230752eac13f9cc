---------------------------- MODULE MCChildDags ----------------------------
(* Model-checking instance of ChildDags: r1 and r2 share a name, r3 has    *)
(* one of its own.  r2 is on AWS, whose files are overwritten, the others  *)
(* are on Azure, whose files are overwritten for virtual machines only.    *)
EXTENDS ChildDags, TLC

CONSTANTS r1, r2, r3

MCDirName == [r \in Requests |-> IF r = r3 THEN "own" ELSE "shared"]
MCProvider == [r \in Requests |-> IF r = r2 THEN "AWS" ELSE "AZURE"]

Symmetry == Permutations(ChildRuns)
============================================================================
