---------------------------- MODULE MCTenantCache ----------------------------
(* TenantCache on small instances.                                           *)
EXTENDS TenantCache, TLC

\* Requests, PUTs and reloads are interchangeable.
Symmetry == Permutations(Requests) \cup Permutations(Editors) \cup Permutations(Reloads)
=============================================================================
