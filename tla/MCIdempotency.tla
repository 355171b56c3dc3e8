--------------------------- MODULE MCIdempotency ---------------------------
(* Idempotency on small instances: requests and slots are model values. *)
EXTENDS Idempotency, TLC

\* Requests are interchangeable when all or none of them can be dropped, and
\* so are slots: nothing orders them.
Symmetry == Permutations(Requests) \cup Permutations(Slots)
=============================================================================
