-------------------------------- MODULE MCGate -------------------------------
(* Instances of Gate for TLC. *)
EXTENDS Gate, TLC

UsualFaults == {"cancel", "git", "rm"}
OnlyWrites  == {"writes"}
OnlyCancel  == {"cancel"}
\* A repository of Go and Node, and one in which nothing is recognised.
CONSTANTS c1, c2
GoNodeAndBare == (c1 :> {"go", "node"}) @@ (c2 :> {})
PythonOnly    == (c1 :> {"python"})
=============================================================================
