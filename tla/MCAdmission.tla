----------------------------- MODULE MCAdmission -----------------------------
(* Small instances of Admission. *)
EXTENDS Admission, TLC

AdmissionSymmetry == Permutations(Threads) \cup Permutations(Clients)
=============================================================================
