----------------------------- MODULE MCLifecycle -----------------------------
(* Values of the constants of Lifecycle.  Machines and jobs are only told   *)
(* apart by their names, so the runs without liveness permute them.         *)
EXTENDS Lifecycle, TLC

Symmetry == Permutations(Machines) \cup Permutations(Jobs)
=============================================================================
