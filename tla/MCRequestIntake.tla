-------------------------- MODULE MCRequestIntake --------------------------
(* Model-checking instance of RequestIntake: calls and names are model     *)
(* values and may be permuted.                                             *)
EXTENDS RequestIntake

Symmetry == Permutations(Calls) \cup Permutations(Names)
============================================================================
