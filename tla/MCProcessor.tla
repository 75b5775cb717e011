----------------------------- MODULE MCProcessor -----------------------------
(* Instances of Processor for TLC. *)
EXTENDS Processor

\* Everything that may fail without taking a promise of the README with it,
\* and what takes one.
UsualFaults == {"panic", "cleanup", "store_advance", "store_complete", "store_end"}
OtherFaults == FaultKinds \ UsualFaults

\* main.go without a model key, and with one.
GateOnly == {"workspaces", "verifier", "artifacts"}
MainSetups ==
  {[wired |-> GateOnly, faults |-> FaultKinds],
   [wired |-> Collaborators, faults |-> UsualFaults],
   [wired |-> Collaborators, faults |-> OtherFaults]}

\* For the observations that the README names.
StoreRefuses == {[wired |-> Collaborators, faults |-> {"store_advance", "store_complete"}]}
NothingFails == {[wired |-> Collaborators, faults |-> {}]}
=============================================================================
