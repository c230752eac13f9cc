----------------------------- MODULE MCTeardown -----------------------------
EXTENDS Teardown, TLC

CONSTANTS r1, r2, r3

(* r1 on Azure has been named by the convention; on AWS the names are the  *)
(* repositories'.  No DAG provisions the machine of r3.                    *)
MCDirName == r1 :> "rg-a" @@ r2 :> "b" @@ r3 :> "c"
MCDestroyName ==
  r1 :> [AZURE |-> "rg-a", AWS |-> "a"] @@
  r2 :> [AZURE |-> "rg-b", AWS |-> "b"] @@
  r3 :> [AZURE |-> "rg-c", AWS |-> "c"]
MCProvider == r1 :> "AZURE" @@ r2 :> "AWS" @@ r3 :> "AWS"
MCWanted == r1 :> {"vm", "db"} @@ r2 :> {"db"} @@ r3 :> {"vm"}
MCProvisioned == {<<r1, "rg">>, <<r1, "vm">>, <<r1, "db">>, <<r2, "db">>}

AskSymmetry == Permutations(Asks)
=============================================================================
