------------------------------ MODULE MCSockets ------------------------------
(* Sockets on small instances. *)
EXTENDS Sockets, TLC

Symmetry == Permutations(Sockets) \cup Permutations(Tasks)
=============================================================================
