----------------------------- MODULE MCAdmission -----------------------------
(* Admission on a small instance. *)
EXTENDS Admission
=============================================================================
