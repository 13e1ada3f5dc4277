---------------------------- MODULE MC_Scheduler ----------------------------
(* Model-checking instance of Scheduler: cores are model values.           *)
EXTENDS Scheduler, TLC

\* The cores are interchangeable: each runs an identical Scheduler object.
CoreSymmetry == Permutations(Cores)

=============================================================================
