----------------------------- MODULE MCScheduler -----------------------------
(* Scheduler on small instances. *)
EXTENDS Scheduler, TLC

Symmetry == Permutations(Nodes)
=============================================================================
