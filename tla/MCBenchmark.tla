----------------------------- MODULE MCBenchmark -----------------------------
(* Instances of Benchmark for TLC. *)
EXTENDS Benchmark

AllFaults    == FaultKinds
OnlyDeadline == {"deadline"}
OnlyInterrupt == {"interrupt"}
=============================================================================
