----------------------------- MODULE MCFileStore -----------------------------
(* Instances of FileStore for TLC. *)
EXTENDS FileStore, TLC

AllFaults == FaultKinds

Symmetry == Permutations(Procs) \cup Permutations(Jobs)
=============================================================================
