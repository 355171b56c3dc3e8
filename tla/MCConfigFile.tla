---------------------------- MODULE MCConfigFile ----------------------------
(* ConfigFile on small instances. *)
EXTENDS ConfigFile, TLC

\* Editors that do the same are interchangeable.
Symmetry == Permutations(UseIfMatch) \cup Permutations(Editors \ UseIfMatch)
=============================================================================
