---------------------------- MODULE MCOwnership -----------------------------
(* Ownership with a few processes, for TLC. *)
EXTENDS Ownership, TLC

(* Processes are interchangeable. *)
ProcSymmetry == Permutations(Procs)
=============================================================================
