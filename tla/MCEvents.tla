------------------------------- MODULE MCEvents ------------------------------
(* Instances of Events for TLC. *)
EXTENDS Events

AllFaults == FaultKinds
TornLines == {"torn"}
NoFaults  == {}

Both      == {"stream", "poll"}
Streaming == {"stream"}
=============================================================================
